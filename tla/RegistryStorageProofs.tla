----------------------- MODULE RegistryStorageProofs -----------------------
(***************************************************************************)
(* Proofs about RegistryStorage: whatever crashes, faults and deadlines do *)
(* to the sessions and however the journal was damaged, the two files are  *)
(* one log of events (the refinement of EventLog), only the holder of the  *)
(* lock works on them, and recovery is refused only after damage.          *)
(***************************************************************************)
EXTENDS RegistryStorage, SequenceTheorems, TLAPS

\* The places of a session at which it knows the history, and at which the journal is whole.
Loaded == {"recover", "build", "project", "done"}
Whole == {"build", "done"}

\* What is on disk, whoever works on it.
Disk ==
    /\ committed \in Seq(Event) /\ lines \in Seq(Event) /\ ack \in Nat
    /\ tail \in Event \cup {None, Garbled}
    /\ damages \in Nat
    /\ "schema" \notin files => committed = <<>>
    /\ "schema" \in files => "database" \in files /\ (damages = 0 => "journal" \in files)
    /\ JournalSound

\* Where the session of c stands, with the history l for the call q.
Session(c, place, l, q) ==
    /\ place = "idle" <=> q = None
    /\ q \in Event \cup {Read, None}
    /\ place \in Locked <=> lock = c
    /\ place = "tables" => {"journal", "database"} \subseteq files
    /\ place \in Loaded => l = committed /\ "schema" \in files
    /\ place \in Whole => lines = committed /\ ack = Len(committed) /\ tail = None
    /\ place \in {"recover", "project"} /\ hot => lines = committed /\ tail = None
    /\ place = "insert" => /\ "schema" \in files /\ q \in Event /\ q.key \notin Keys(committed)
                           /\ Len(committed) < MaxEvents /\ l = Append(committed, q)
    /\ place \in {"project", "done"} => q \in Elements(committed)

\* A snapshot is of a journal that was whole.
Verified(k) == k.print = None \/ k.print = <<k.events, Len(k.events), k.events, None>>

Domains ==
    /\ DOMAIN pc = Client /\ DOMAIN local = Client /\ DOMAIN cache = Client
    /\ DOMAIN call = Client /\ DOMAIN answer = Client

StorageInv ==
    /\ Domains /\ Disk /\ NeverBlocked
    /\ lock \in Client \cup {None}
    /\ \A c \in Client : Session(c, pc[c], local[c], call[c]) /\ Verified(cache[c])

-----------------------------------------------------------------------------
(* Prefixes of a sequence.                                                 *)

LEMMA PrefixElements ==
    ASSUME NEW S, NEW s \in Seq(S), NEW t \in Seq(S)
    PROVE  Prefix(s, t) <=> Len(s) <= Len(t) /\ \A i \in 1..Len(s) : s[i] = t[i]
<1>1. Len(s) \in Nat /\ Len(t) \in Nat
  OBVIOUS
<1>2. CASE Len(s) <= Len(t)
  <2>1. \A i \in 1..Len(s) : i \in 1..Len(t) /\ t[i] \in S
    <3>1. \A i \in 1..Len(s) : i \in 1..Len(t)
      BY <1>1, <1>2
    <3>2. \A i \in 1..Len(t) : t[i] \in S
      BY ElementOfSeq
    <3>3. QED
      BY <3>1, <3>2
  <2>2. /\ SubSeq(t, 1, Len(s)) \in Seq(S) /\ Len(SubSeq(t, 1, Len(s))) = Len(s)
        /\ \A i \in 1..Len(s) : SubSeq(t, 1, Len(s))[i] = t[i]
    BY <1>1, <1>2
  <2>3. (\A i \in 1..Len(s) : s[i] = t[i]) => s = SubSeq(t, 1, Len(s))
    BY <1>1, <2>2, SeqEqual
  <2>4. QED
    BY <1>2, <2>2, <2>3 DEF Prefix
<1>3. CASE ~(Len(s) <= Len(t))
  BY <1>3 DEF Prefix
<1>4. QED
  BY <1>2, <1>3

\* A prefix of the same length is the whole.
LEMMA PrefixWhole ==
    ASSUME NEW S, NEW s \in Seq(S), NEW t \in Seq(S), Prefix(s, t), Len(s) = Len(t)
    PROVE  s = t
  BY PrefixElements, SeqEqual

LEMMA PrefixSelf ==
    ASSUME NEW S, NEW s \in Seq(S)
    PROVE  Prefix(s, s)
  BY PrefixElements

LEMMA PrefixEmpty ==
    ASSUME NEW S, NEW s \in Seq(S), Prefix(s, <<>>)
    PROVE  s = <<>>
<1>1. <<>> \in Seq(S) /\ Len(<<>>) = 0 /\ Len(s) \in Nat
  OBVIOUS
<1>2. Len(s) <= 0
  BY <1>1 DEF Prefix
<1>3. Len(s) = 0
  BY <1>1, <1>2
<1>4. QED
  BY <1>3, EmptySeq

\* The line that is missing next.
LEMMA PrefixNext ==
    ASSUME NEW S, NEW s \in Seq(S), NEW t \in Seq(S), Prefix(s, t), Len(s) < Len(t)
    PROVE  /\ t[Len(s) + 1] \in S
           /\ Append(s, t[Len(s) + 1]) \in Seq(S)
           /\ Prefix(Append(s, t[Len(s) + 1]), t)
           /\ Len(Append(s, t[Len(s) + 1])) = Len(s) + 1
<1>1. PICK n, m, x : n = Len(s) /\ m = Len(t) /\ x = t[n + 1]
  OBVIOUS
<1>2. n \in Nat /\ m \in Nat /\ n + 1 \in 1..m /\ n < m
  BY <1>1
<1>3. x \in S
  BY <1>1, <1>2, ElementOfSeq
<1>4. PICK u : u = Append(s, x)
  OBVIOUS
<1>5. u \in Seq(S) /\ Len(u) = n + 1 /\ u[n + 1] = x /\ \A i \in 1..n : u[i] = s[i]
  BY <1>1, <1>3, <1>4, AppendProperties
<1>6. \A i \in 1..n : s[i] = t[i]
  BY <1>1, PrefixElements
<1>7. \A i \in 1..(n + 1) : i \in 1..n \/ i = n + 1
  BY <1>2
<1>8. \A i \in 1..(n + 1) : u[i] = t[i]
  BY <1>1, <1>5, <1>6, <1>7
<1>9. n + 1 <= m
  BY <1>2
<1>10. Prefix(u, t)
  BY <1>1, <1>5, <1>8, <1>9, PrefixElements
<1>11. QED
  BY <1>1, <1>3, <1>4, <1>5, <1>10

\* A prefix stays one when the sequence grows, and the next element stays the next.
LEMMA PrefixGrows ==
    ASSUME NEW S, NEW s \in Seq(S), NEW t \in Seq(S), NEW x \in S, Prefix(s, t)
    PROVE  /\ Prefix(s, Append(t, x)) /\ Append(t, x) \in Seq(S)
           /\ Len(s) < Len(t) => Len(s) < Len(Append(t, x)) /\ Append(t, x)[Len(s) + 1] = t[Len(s) + 1]
           /\ \A i \in DOMAIN t : i \in DOMAIN Append(t, x) /\ Append(t, x)[i] = t[i]
           /\ \E i \in DOMAIN Append(t, x) : Append(t, x)[i] = x
<1>1. PICK n, m, u : n = Len(s) /\ m = Len(t) /\ u = Append(t, x)
  OBVIOUS
<1>2. n \in Nat /\ m \in Nat /\ n <= m
  BY <1>1, PrefixElements
<1>3. u \in Seq(S) /\ Len(u) = m + 1 /\ u[m + 1] = x /\ \A i \in 1..m : u[i] = t[i]
  BY <1>1, AppendProperties
<1>4. \A i \in 1..n : i \in 1..m /\ s[i] = t[i]
  BY <1>1, <1>2, PrefixElements
<1>5. Prefix(s, u)
  <2>1. n <= m + 1
    BY <1>2
  <2>2. QED
    BY <1>1, <1>3, <1>4, <2>1, PrefixElements
<1>6. n < m => n < m + 1 /\ n + 1 \in 1..m
  BY <1>2
<1>7. DOMAIN t = 1..m /\ DOMAIN u = 1..(m + 1) /\ m + 1 \in 1..(m + 1) /\ 1..m \subseteq 1..(m + 1)
  BY <1>1, <1>2, <1>3
<1>8. QED
  BY <1>1, <1>3, <1>5, <1>6, <1>7

-----------------------------------------------------------------------------
(* What one session does leaves the others where they are.                 *)

Others(c) ==
    /\ Domains'
    /\ \A d \in Client \ {c} : /\ pc'[d] = pc[d] /\ local'[d] = local[d]
                               /\ call'[d] = call[d] /\ cache'[d] = cache[d]

\* Only the holder of the lock works on the files, and only it gives the lock up.
Exclusive(c) ==
    /\ lock # c => UNCHANGED <<committed, ack, lines, tail>> /\ (hot' <=> hot)
    /\ files \subseteq files'
    /\ \/ lock' = lock
       \/ lock = None /\ lock' = c
       \/ lock = c /\ lock' = None

LEMMA OthersKeep ==
    ASSUME StorageInv, NEW c \in Client, Others(c), Exclusive(c), NEW d \in Client, d # c
    PROVE  Session(d, pc[d], local[d], call[d])' /\ Verified(cache[d])'
<1>1. PICK place, l, q : place = pc[d] /\ l = local[d] /\ q = call[d]
  OBVIOUS
<1>2. Session(d, place, l, q) /\ Verified(cache[d])
  BY <1>1 DEF StorageInv
<1>3. d # None /\ (lock' = d <=> lock = d)
  BY StorageAssumption DEF Exclusive
<1>4. CASE lock = d
  <2>1. UNCHANGED <<committed, ack, lines, tail>> /\ (hot' <=> hot) /\ files \subseteq files'
    BY <1>4 DEF Exclusive
  <2>2. Session(d, place, l, q)'
    BY <1>2, <1>3, <2>1 DEF Session
  <2>3. QED
    BY <1>1, <1>2, <2>2 DEF Others, Session
<1>5. CASE lock # d
  <2>1. place \notin Locked
    BY <1>2, <1>5 DEF Session
  <2>2. Session(d, place, l, q)'
    BY <1>2, <1>3, <1>5, <2>1 DEF Session, Locked, Loaded, Whole
  <2>3. QED
    BY <1>1, <1>2, <2>2 DEF Others, Session
<1>6. QED
  BY <1>4, <1>5

LEMMA StorageKeeps ==
    ASSUME StorageInv, NEW c \in Client, Others(c), Exclusive(c), Disk', NeverBlocked',
           NEW place, NEW l, NEW q, place = pc'[c], l = local'[c], q = call'[c],
           Session(c, place, l, q)', Verified(cache'[c])
    PROVE  StorageInv'
<1>1. \A d \in Client : Session(d, pc[d], local[d], call[d])' /\ Verified(cache[d])'
  BY OthersKeep DEF Session, Verified
<1>2. lock' \in Client \cup {None}
  BY DEF StorageInv, Exclusive
<1>3. QED
  BY <1>1, <1>2 DEF StorageInv, Others

\* The files stay, or only the lock file is added.
LEMMA DiskStays ==
    ASSUME StorageInv, UNCHANGED <<committed, ack, lines, tail, damages>>,
           files' = files \/ files' = files \cup {"lock"}
    PROVE  Disk'
<1>1. \A f \in {"schema", "database", "journal"} : f \in files' <=> f \in files
  OBVIOUS
<1>2. QED
  BY <1>1 DEF StorageInv, Disk, JournalSound

\* p answers or gives up.
LEMMA FinishKeeps ==
    ASSUME StorageInv, NEW c \in Client, NEW kind, NEW seen, Finish(c, kind, seen),
           UNCHANGED <<files, committed, ack, lines, tail, damages, cache>>,
           (hot' <=> hot) \/ lock = c, kind = "integrity" => damages # 0
    PROVE  StorageInv'
<1>1. lock' = LockAfter(c)
  BY DEF Finish
<1>2. Others(c)
  BY DEF Others, StorageInv, Domains, Finish, Goto
<1>3. Exclusive(c)
  BY <1>1 DEF Exclusive, LockAfter
<1>4. Disk'
  BY DiskStays
<1>5. NeverBlocked'
  BY DEF StorageInv, NeverBlocked, Finish, Domains
<1>6. PICK place, l, q : place = "idle" /\ l = <<>> /\ q = None
  OBVIOUS
<1>7. place = pc'[c] /\ l = local'[c] /\ q = call'[c] /\ Verified(cache'[c])
  BY <1>6 DEF StorageInv, Domains, Finish, Goto
<1>8. lock' # c
  BY <1>1, StorageAssumption DEF LockAfter
<1>9. Session(c, place, l, q)'
  BY <1>6, <1>8 DEF Session, Locked, Loaded, Whole
<1>10. QED
  BY <1>2, <1>3, <1>4, <1>5, <1>7, <1>9, StorageKeeps

\* c goes on; what it works with and the files stay.
LEMMA GoKeeps ==
    ASSUME StorageInv, NEW c \in Client, NEW place, Goto(c, place), Exclusive(c),
           UNCHANGED <<committed, ack, lines, tail, damages, local, cache, call, answer>>, Disk',
           NEW l, NEW q, l = local[c], q = call[c], Session(c, place, l, q)'
    PROVE  StorageInv'
<1>1. Others(c) /\ place = pc'[c] /\ l = local'[c] /\ q = call'[c]
  BY DEF Others, StorageInv, Domains, Goto
<1>2. NeverBlocked' /\ Verified(cache'[c])
  BY DEF StorageInv, NeverBlocked
<1>3. QED
  BY <1>1, <1>2, StorageKeeps

-----------------------------------------------------------------------------
(* The steps: looking at the directory and waiting for the lock.           *)

LEMMA SubmitStorage ==
    ASSUME StorageInv, NEW c \in Client, NEW request \in Event \cup {Read}, Submit(c, request)
    PROVE  StorageInv'
<1>1. Others(c) /\ Exclusive(c) /\ Disk'
  BY DiskStays DEF Submit, disk, failures, Others, Exclusive, StorageInv, Domains, Goto
<1>2. NeverBlocked'
  BY DEF Submit, StorageInv, NeverBlocked, Domains, NoAnswer, failures
<1>3. PICK place, l : place = "list" /\ l = local[c]
  OBVIOUS
<1>4. place = pc'[c] /\ l = local'[c] /\ request = call'[c] /\ Verified(cache'[c])
  BY <1>3 DEF Submit, StorageInv, Domains, Goto
<1>5. lock # c /\ UNCHANGED lock
  BY DEF Submit, StorageInv, Session, Locked
<1>6. Session(c, place, l, request)'
  <2>1. request # None
    BY StorageAssumption
  <2>2. QED
    BY <1>3, <1>5, <2>1 DEF Session, Locked, Loaded, Whole
<1>7. QED
  BY <1>1, <1>2, <1>4, <1>6, StorageKeeps

LEMMA ListStorage ==
    ASSUME StorageInv, NEW c \in Client, List(c)
    PROVE  StorageInv'
<1>1. PICK place, l, q : place = "stat" /\ l = local[c] /\ q = call[c]
  OBVIOUS
<1>2. /\ UNCHANGED <<files, committed, ack, lines, tail, hot, lock, damages, local, cache, call, answer>>
      /\ Goto(c, place) /\ pc[c] = "list"
  BY <1>1 DEF List, disk, failures
<1>3. Session(c, "list", l, q)
  BY <1>1, <1>2 DEF StorageInv
<1>4. Session(c, place, l, q)'
  BY <1>1, <1>2, <1>3 DEF Session, Locked, Loaded, Whole
<1>5. Exclusive(c) /\ Disk'
  BY <1>2, DiskStays DEF Exclusive
<1>6. QED
  BY <1>1, <1>2, <1>4, <1>5, GoKeeps

LEMMA StatStorage ==
    ASSUME StorageInv, NEW c \in Client, Stat(c)
    PROVE  StorageInv'
<1>1. CASE Finish(c, "error", 0) /\ UNCHANGED <<disk, cache, failures>>
  BY <1>1, FinishKeeps DEF disk, failures
<1>2. CASE /\ files' = files \cup {"lock"} /\ Goto(c, "wait") /\ pc[c] = "stat"
           /\ UNCHANGED <<hot, committed, ack, lines, tail, lock, listed, local, cache, call, answer, failures>>
  <2>1. PICK place, l, q : place = "wait" /\ l = local[c] /\ q = call[c]
    OBVIOUS
  <2>2. Session(c, "stat", l, q)
    BY <1>2, <2>1 DEF StorageInv
  <2>3. Session(c, place, l, q)'
    BY <1>2, <2>1, <2>2 DEF Session, Locked, Loaded, Whole
  <2>4. Exclusive(c) /\ Disk'
    BY <1>2, DiskStays DEF Exclusive, failures
  <2>5. QED
    BY <1>2, <2>1, <2>3, <2>4, GoKeeps DEF failures
<1>3. QED
  BY <1>1, <1>2 DEF Stat

LEMMA AcquireStorage ==
    ASSUME StorageInv, NEW c \in Client, Acquire(c)
    PROVE  StorageInv'
<1>1. PICK place, l, q : place = "open" /\ l = local[c] /\ q = call[c]
  OBVIOUS
<1>2. /\ UNCHANGED <<files, committed, ack, lines, tail, hot, damages, local, cache, call, answer>>
      /\ Goto(c, place) /\ pc[c] = "wait" /\ lock = None /\ lock' = c
  BY <1>1 DEF Acquire, disk, failures
<1>3. Session(c, "wait", l, q)
  BY <1>1, <1>2 DEF StorageInv
<1>4. Session(c, place, l, q)'
  BY <1>1, <1>2, <1>3 DEF Session, Locked, Loaded, Whole
<1>5. Exclusive(c) /\ Disk'
  BY <1>2, DiskStays DEF Exclusive
<1>6. QED
  BY <1>1, <1>2, <1>4, <1>5, GoKeeps

LEMMA TimeoutStorage ==
    ASSUME StorageInv, NEW c \in Client, Timeout(c)
    PROVE  StorageInv'
  BY FinishKeeps DEF Timeout, disk, failures

-----------------------------------------------------------------------------
(* Creating what is missing.                                               *)

\* c stays where it is; the files change.
LEMMA StayKeeps ==
    ASSUME StorageInv, NEW c \in Client, Exclusive(c),
           UNCHANGED <<pc, local, cache, call, answer, damages>>, Disk',
           NEW place, NEW l, NEW q, place = pc[c], l = local[c], q = call[c],
           Session(c, place, l, q)'
    PROVE  StorageInv'
<1>1. Others(c) /\ place = pc'[c] /\ l = local'[c] /\ q = call'[c]
  BY DEF Others, StorageInv, Domains
<1>2. NeverBlocked' /\ Verified(cache'[c])
  BY DEF StorageInv, NeverBlocked
<1>3. QED
  BY <1>1, <1>2, StorageKeeps

\* Without tables nothing was committed, so nothing but damage is in the journal.
LEMMA NothingEarly ==
    ASSUME StorageInv, "schema" \notin files, lines # <<>> \/ tail # None
    PROVE  damages # 0
<1>1. SUFFICES ASSUME damages = 0
               PROVE  FALSE
  OBVIOUS
<1>2. committed = <<>> /\ Prefix(lines, committed) /\ lines \in Seq(Event)
  BY <1>1 DEF StorageInv, Disk, JournalSound
<1>3. lines = <<>>
  BY <1>2, PrefixEmpty
<1>4. tail # None /\ Len(lines) < Len(committed)
  BY <1>1, <1>3 DEF StorageInv, Disk, JournalSound
<1>5. QED
  BY <1>2, <1>3, <1>4

LEMMA BlockedKeeps ==
    ASSUME StorageInv, NEW c \in Client, Blocked(c), damages # 0
    PROVE  StorageInv'
  BY FinishKeeps DEF Blocked, disk, failures

LEMMA CreateJournalStorage ==
    ASSUME StorageInv, NEW c \in Client, CreateJournal(c)
    PROVE  StorageInv'
<1>1. PICK place, l, q : place = pc[c] /\ l = local[c] /\ q = call[c]
  OBVIOUS
<1>2. Session(c, place, l, q) /\ place = "open" /\ "journal" \notin files
  BY <1>1 DEF StorageInv, CreateJournal
<1>3. CASE "schema" \in files
  BY <1>2, <1>3, BlockedKeeps DEF CreateJournal, StorageInv, Disk
<1>4. CASE "schema" \notin files
  <2>1. /\ files' = files \cup {"journal"}
        /\ UNCHANGED <<hot, committed, ack, lines, tail, lock, pc, local, cache, call, answer, damages>>
    BY <1>4 DEF CreateJournal, session, failures
  <2>2. Disk'
    BY <1>4, <2>1 DEF StorageInv, Disk, JournalSound
  <2>3. Session(c, place, l, q)' /\ Exclusive(c)
    BY <1>2, <2>1 DEF Session, Exclusive
  <2>4. QED
    BY <1>1, <2>1, <2>2, <2>3, StayKeeps
<1>5. QED
  BY <1>3, <1>4

LEMMA CreateDatabaseStorage ==
    ASSUME StorageInv, NEW c \in Client, CreateDatabase(c)
    PROVE  StorageInv'
<1>1. PICK place, l, q : place = pc[c] /\ l = local[c] /\ q = call[c]
  OBVIOUS
<1>2. Session(c, place, l, q) /\ place = "open"
  BY <1>1 DEF StorageInv, CreateDatabase
<1>3. "schema" \notin files /\ "journal" \in files
  BY DEF StorageInv, Disk, CreateDatabase
<1>4. CASE lines # <<>> \/ tail # None
  BY <1>3, <1>4, NothingEarly, BlockedKeeps DEF CreateDatabase
<1>5. CASE ~(lines # <<>> \/ tail # None)
  <2>1. /\ files' = files \cup {"database"}
        /\ UNCHANGED <<hot, committed, ack, lines, tail, lock, pc, local, cache, call, answer, damages>>
    BY <1>5 DEF CreateDatabase, session, failures
  <2>2. Disk'
    BY <1>3, <2>1 DEF StorageInv, Disk, JournalSound
  <2>3. Session(c, place, l, q)' /\ Exclusive(c)
    BY <1>2, <2>1 DEF Session, Exclusive
  <2>4. QED
    BY <1>1, <2>1, <2>2, <2>3, StayKeeps
<1>6. QED
  BY <1>4, <1>5

LEMMA RollBackStorage ==
    ASSUME StorageInv, NEW c \in Client, RollBack(c)
    PROVE  StorageInv'
<1>1. PICK place, l, q : place = "open" /\ l = local[c] /\ q = call[c]
  OBVIOUS
<1>2. /\ UNCHANGED <<files, committed, ack, lines, tail, lock, damages, local, cache, call, answer>>
      /\ Goto(c, place) /\ pc[c] = "open"
  BY <1>1 DEF RollBack, failures
<1>3. Session(c, "open", l, q)
  BY <1>1, <1>2 DEF StorageInv
<1>4. Session(c, place, l, q)' /\ lock = c
  BY <1>1, <1>2, <1>3 DEF Session, Locked, Loaded, Whole
<1>5. Exclusive(c) /\ Disk'
  BY <1>2, <1>4, DiskStays DEF Exclusive
<1>6. QED
  BY <1>1, <1>2, <1>4, <1>5, GoKeeps

LEMMA CreateTablesStorage ==
    ASSUME StorageInv, NEW c \in Client, CreateTables(c)
    PROVE  StorageInv'
<1>1. PICK place, l, q : place = "tables" /\ l = local[c] /\ q = call[c]
  OBVIOUS
<1>2. pc[c] = "open" /\ {"journal", "database"} \subseteq files /\ "schema" \notin files
  BY DEF CreateTables
<1>3. Session(c, "open", l, q)
  BY <1>1, <1>2 DEF StorageInv
<1>4. CASE lines # <<>> \/ tail # None
  BY <1>2, <1>4, NothingEarly, BlockedKeeps DEF CreateTables
<1>5. CASE ~(lines # <<>> \/ tail # None)
  <2>1. /\ UNCHANGED <<files, committed, ack, lines, tail, lock, damages, local, cache, call, answer>>
        /\ Goto(c, place)
    BY <1>1, <1>5 DEF CreateTables, failures
  <2>2. Session(c, place, l, q)' /\ lock = c
    BY <1>1, <1>2, <1>3, <2>1 DEF Session, Locked, Loaded, Whole
  <2>3. Exclusive(c) /\ Disk'
    BY <2>1, <2>2, DiskStays DEF Exclusive
  <2>4. QED
    BY <1>1, <2>1, <2>2, <2>3, GoKeeps
<1>6. QED
  BY <1>4, <1>5

LEMMA CommitTablesStorage ==
    ASSUME StorageInv, NEW c \in Client, CommitTables(c)
    PROVE  StorageInv'
<1>1. PICK place, l, q : place = "open" /\ l = local[c] /\ q = call[c]
  OBVIOUS
<1>2. /\ UNCHANGED <<committed, ack, lines, tail, lock, damages, local, cache, call, answer>>
      /\ Goto(c, place) /\ pc[c] = "tables" /\ files' = files \cup {"schema"}
  BY <1>1 DEF CommitTables, failures
<1>3. Session(c, "tables", l, q)
  BY <1>1, <1>2 DEF StorageInv
<1>4. Session(c, place, l, q)' /\ lock = c /\ {"journal", "database"} \subseteq files
  BY <1>1, <1>2, <1>3 DEF Session, Locked, Loaded, Whole
<1>5. Exclusive(c)
  BY <1>2, <1>4 DEF Exclusive
<1>6. Disk'
  BY <1>2, <1>4 DEF StorageInv, Disk, JournalSound
<1>7. QED
  BY <1>1, <1>2, <1>4, <1>5, <1>6, GoKeeps

-----------------------------------------------------------------------------
(* Recovering, and projecting what was committed.                          *)

\* What a session that projects knows: all that was committed.
LEMMA ProjectingKnows ==
    ASSUME StorageInv, NEW c \in Client, Projecting(c)
    PROVE  /\ local[c] = committed /\ "schema" \in files /\ lock = c
           /\ hot => lines = committed /\ tail = None
           /\ pc[c] = "project" => call[c] \in Elements(committed)
           /\ call[c] \in Event \cup {Read} /\ call[c] # None
<1>1. Session(c, pc[c], local[c], call[c])
  BY DEF StorageInv
<1>2. CASE pc[c] = "recover"
  BY <1>1, <1>2 DEF Session, Locked, Loaded
<1>3. CASE pc[c] = "project"
  BY <1>1, <1>3 DEF Session, Locked, Loaded
<1>4. QED
  BY <1>2, <1>3 DEF Projecting

LEMMA ReuseStorage ==
    ASSUME StorageInv, NEW c \in Client, Reuse(c)
    PROVE  StorageInv'
<1>1. PICK k, q, place : k = cache[c] /\ q = call[c] /\ place = "build"
  OBVIOUS
<1>2. PICK l : l = k.events
  OBVIOUS
<1>3. /\ UNCHANGED <<files, committed, ack, lines, tail, hot, lock, damages, cache, call, answer>>
      /\ pc[c] = "open" /\ Goto(c, place) /\ local' = [local EXCEPT ![c] = l]
      /\ "schema" \in files
  BY <1>1, <1>2 DEF Reuse, disk, failures
<1>4. Fingerprint \in Fingerprints
  BY DEF StorageInv, Disk, Fingerprint, Fingerprints
<1>5. k.print = Fingerprint /\ k.print # None /\ Verified(k)
  BY <1>1, <1>4, SnapshotAssumption DEF Reuse, StorageInv
<1>6. l = committed /\ lines = committed /\ ack = Len(committed) /\ tail = None
  <2>1. <<committed, ack, lines, tail>> = <<l, Len(l), l, None>>
    BY <1>2, <1>5 DEF Verified, Fingerprint
  <2>2. QED
    BY <2>1
<1>7. Session(c, "open", local[c], q)
  BY <1>1, <1>3 DEF StorageInv
<1>8. Session(c, place, l, q)'
  <2>1. lock = c /\ q \in Event \cup {Read, None} /\ q # None
    BY <1>7 DEF Session, Locked
  <2>2. QED
    BY <1>1, <1>3, <1>6, <2>1 DEF Session, Locked, Loaded, Whole
<1>9. Others(c) /\ place = pc'[c] /\ l = local'[c] /\ q = call'[c]
  BY <1>1, <1>3 DEF Others, StorageInv, Domains, Goto
<1>10. Exclusive(c) /\ Disk'
  BY <1>3, DiskStays DEF Exclusive
<1>11. NeverBlocked' /\ Verified(cache'[c])
  BY <1>3 DEF StorageInv, NeverBlocked
<1>12. QED
  BY <1>8, <1>9, <1>10, <1>11, StorageKeeps

LEMMA LoadStorage ==
    ASSUME StorageInv, NEW c \in Client, Load(c)
    PROVE  StorageInv'
<1>1. PICK l, q, place : l = committed /\ q = call[c] /\ place = "recover"
  OBVIOUS
<1>2. /\ UNCHANGED <<files, committed, ack, lines, tail, hot, lock, damages, cache, call, answer>>
      /\ pc[c] = "open" /\ Goto(c, place) /\ local' = [local EXCEPT ![c] = l]
      /\ "schema" \in files /\ ~hot
  BY <1>1 DEF Load, disk, failures
<1>3. Session(c, "open", local[c], q)
  BY <1>1, <1>2 DEF StorageInv
<1>4. Session(c, place, l, q)'
  <2>1. lock = c /\ q \in Event \cup {Read, None} /\ q # None
    BY <1>3 DEF Session, Locked
  <2>2. QED
    BY <1>1, <1>2, <2>1 DEF Session, Locked, Loaded, Whole
<1>5. Others(c) /\ place = pc'[c] /\ l = local'[c] /\ q = call'[c]
  BY <1>1, <1>2 DEF Others, StorageInv, Domains, Goto
<1>6. Exclusive(c) /\ Disk'
  BY <1>2, DiskStays DEF Exclusive
<1>7. NeverBlocked' /\ Verified(cache'[c])
  BY <1>2 DEF StorageInv, NeverBlocked
<1>8. QED
  BY <1>4, <1>5, <1>6, <1>7, StorageKeeps

LEMMA RefuseStorage ==
    ASSUME StorageInv, NEW c \in Client, Refuse(c)
    PROVE  StorageInv'
<1>1. local[c] = committed
  BY ProjectingKnows DEF Refuse
<1>2. damages # 0
  BY <1>1 DEF Refuse, Projectable, StorageInv, Disk, JournalSound
<1>3. QED
  BY <1>2, BlockedKeeps DEF Refuse

\* A line is missing: what the session writes is the next committed event.
LEMMA NextLine ==
    ASSUME StorageInv, NEW c \in Client, Projecting(c), Projectable(c), Len(lines) < Len(local[c]),
           NEW x, x = local[c][Len(lines) + 1]
    PROVE  /\ x \in Event /\ x = committed[Len(lines) + 1] /\ Len(lines) < Len(committed) /\ ~hot
           /\ ack <= Len(lines)
           /\ Append(lines, x) \in Seq(Event) /\ Prefix(Append(lines, x), committed)
           /\ Len(Append(lines, x)) = Len(lines) + 1
<1>1. local[c] = committed /\ (hot => lines = committed)
  BY ProjectingKnows
<1>2. lines \in Seq(Event) /\ committed \in Seq(Event)
  BY DEF StorageInv, Disk
<1>3. ack <= Len(lines) /\ Prefix(lines, committed)
  BY <1>1 DEF Projectable
<1>4. x = committed[Len(lines) + 1] /\ Len(lines) < Len(committed)
  BY <1>1
<1>5. ~hot
  <2>1. Len(committed) \in Nat
    BY <1>2
  <2>2. QED
    BY <1>1, <1>4, <2>1
<1>6. QED
  BY <1>2, <1>3, <1>4, <1>5, PrefixNext

LEMMA WritePartStorage ==
    ASSUME StorageInv, NEW c \in Client, WritePart(c)
    PROVE  StorageInv'
<1>1. PICK x : x = local[c][Len(lines) + 1]
  OBVIOUS
<1>2. PICK place, l, q : place = pc[c] /\ l = local[c] /\ q = call[c]
  OBVIOUS
<1>3. /\ UNCHANGED <<files, committed, ack, lines, hot, lock, damages, pc, local, cache, call, answer>>
      /\ Projecting(c) /\ tail' = x
  BY <1>1 DEF WritePart, session, failures
<1>4. x \in Event /\ x = committed[Len(lines) + 1] /\ Len(lines) < Len(committed) /\ ~hot
  BY <1>1, NextLine DEF WritePart
<1>5. lock = c /\ Session(c, place, l, q) /\ place \in {"recover", "project"}
  BY <1>2, <1>3, ProjectingKnows DEF StorageInv, Projecting
<1>6. Session(c, place, l, q)' /\ Exclusive(c)
  BY <1>3, <1>4, <1>5 DEF Session, Whole, Exclusive
<1>7. Disk'
  BY <1>3, <1>4 DEF StorageInv, Disk, JournalSound
<1>8. QED
  BY <1>2, <1>3, <1>6, <1>7, StayKeeps

LEMMA WriteLineStorage ==
    ASSUME StorageInv, NEW c \in Client, WriteLine(c)
    PROVE  StorageInv'
<1>1. PICK x : x = local[c][Len(lines) + 1]
  OBVIOUS
<1>2. PICK place, l, q : place = pc[c] /\ l = local[c] /\ q = call[c]
  OBVIOUS
<1>3. /\ UNCHANGED <<files, committed, ack, hot, lock, damages, pc, local, cache, call, answer>>
      /\ Projecting(c) /\ tail' = None /\ lines' = Append(lines, x)
  BY <1>1 DEF WriteLine, LineAfterTail, session, failures
<1>4. /\ ~hot /\ ack <= Len(lines)
      /\ lines' \in Seq(Event) /\ Prefix(lines', committed) /\ Len(lines') = Len(lines) + 1
  BY <1>1, <1>3, NextLine DEF WriteLine
<1>5. lock = c /\ Session(c, place, l, q) /\ place \in {"recover", "project"}
  BY <1>2, <1>3, ProjectingKnows DEF StorageInv, Projecting
<1>6. Session(c, place, l, q)' /\ Exclusive(c)
  BY <1>3, <1>4, <1>5 DEF Session, Whole, Exclusive
<1>7. ack <= Len(lines')
  <2>1. Len(lines) \in Nat /\ ack \in Nat
    BY DEF StorageInv, Disk
  <2>2. QED
    BY <1>4, <2>1
<1>8. Disk'
  BY <1>3, <1>4, <1>7 DEF StorageInv, Disk, JournalSound
<1>9. QED
  BY <1>2, <1>3, <1>6, <1>8, StayKeeps

LEMMA AcknowledgeStorage ==
    ASSUME StorageInv, NEW c \in Client, Acknowledge(c)
    PROVE  StorageInv'
<1>1. PICK place, l, q : place = pc[c] /\ l = local[c] /\ q = call[c]
  OBVIOUS
<1>2. /\ UNCHANGED <<files, committed, ack, lines, tail, lock, damages, pc, local, cache, call, answer>>
      /\ Projecting(c) /\ Projectable(c) /\ Len(lines) = Len(local[c])
  BY DEF Acknowledge, Written, session, failures
<1>3. local[c] = committed /\ lock = c
  BY <1>2, ProjectingKnows
<1>4. lines = committed /\ tail = None
  <2>1. lines \in Seq(Event) /\ committed \in Seq(Event) /\ Len(lines) \in Nat
    BY DEF StorageInv, Disk
  <2>2. Prefix(lines, committed) /\ (tail # None => Len(lines) < Len(lines))
    BY <1>2, <1>3 DEF Projectable
  <2>3. QED
    BY <1>2, <1>3, <2>1, <2>2, PrefixWhole
<1>5. Session(c, place, l, q) /\ place \in {"recover", "project"}
  BY <1>1, <1>2 DEF StorageInv, Projecting
<1>6. Session(c, place, l, q)' /\ Exclusive(c)
  BY <1>2, <1>3, <1>4, <1>5 DEF Session, Whole, Exclusive
<1>7. Disk'
  BY <1>2, DiskStays
<1>8. QED
  BY <1>1, <1>2, <1>6, <1>7, StayKeeps

LEMMA CommitAcknowledgementStorage ==
    ASSUME StorageInv, NEW c \in Client, CommitAcknowledgement(c)
    PROVE  StorageInv'
<1>1. PICK l, q, p : l = local[c] /\ q = call[c] /\ p = pc[c]
  OBVIOUS
<1>2. PICK place : place = (IF p = "recover" THEN "build" ELSE "done")
  OBVIOUS
<1>3. /\ UNCHANGED <<files, committed, lines, tail, lock, damages, local, call, answer>>
      /\ Goto(c, place) /\ ack' = Len(l) /\ Projecting(c) /\ hot
      /\ cache' = [cache EXCEPT ![c] = [print |-> Fingerprint', events |-> l]]
  BY <1>1, <1>2 DEF CommitAcknowledgement, failures
<1>4. /\ l = committed /\ lines = committed /\ tail = None /\ lock = c /\ "schema" \in files
      /\ p = "project" => q \in Elements(committed)
      /\ q \in Event \cup {Read} /\ q # None
  BY <1>1, <1>3, ProjectingKnows
<1>5. Session(c, place, l, q)'
  <2>1. (p = "recover" /\ place = "build") \/ (p = "project" /\ place = "done")
    BY <1>1, <1>2, <1>3 DEF Projecting
  <2>2. QED
    BY <1>3, <1>4, <2>1 DEF Session, Locked, Loaded, Whole
<1>6. Disk'
  <2>1. Len(committed) \in Nat /\ committed \in Seq(Event)
    BY DEF StorageInv, Disk
  <2>2. Prefix(committed, committed) /\ Len(committed) <= Len(committed)
    BY <2>1, PrefixSelf
  <2>3. QED
    BY <1>3, <1>4, <2>1, <2>2 DEF StorageInv, Disk, JournalSound
<1>7. Verified(cache'[c])
  <2>1. Fingerprint' = <<l, Len(l), l, None>>
    BY <1>3, <1>4 DEF Fingerprint
  <2>2. cache'[c] = [print |-> <<l, Len(l), l, None>>, events |-> l]
    BY <1>3, <2>1 DEF StorageInv, Domains
  <2>3. QED
    BY <2>2 DEF Verified
<1>8. Others(c) /\ place = pc'[c] /\ l = local'[c] /\ q = call'[c]
  BY <1>1, <1>3 DEF Others, StorageInv, Domains, Goto
<1>9. Exclusive(c) /\ NeverBlocked'
  BY <1>3, <1>4 DEF Exclusive, StorageInv, NeverBlocked
<1>10. QED
  BY <1>5, <1>6, <1>7, <1>8, <1>9, StorageKeeps

-----------------------------------------------------------------------------
(* Building the event, committing it, answering.                           *)

LEMMA AnsweredStorage ==
    ASSUME StorageInv, NEW c \in Client, Answered(c)
    PROVE  StorageInv'
  BY FinishKeeps DEF Answered, disk, failures

LEMMA ReusedStorage ==
    ASSUME StorageInv, NEW c \in Client, Reused(c)
    PROVE  StorageInv'
  BY FinishKeeps DEF Reused, disk, failures

LEMMA FullStorage ==
    ASSUME StorageInv, NEW c \in Client, Full(c)
    PROVE  StorageInv'
  BY FinishKeeps DEF Full, disk, failures

LEMMA AnswerStorage ==
    ASSUME StorageInv, NEW c \in Client, Answer(c)
    PROVE  StorageInv'
  BY FinishKeeps DEF Answer, disk, failures

LEMMA InsertStorage ==
    ASSUME StorageInv, NEW c \in Client, Insert(c)
    PROVE  StorageInv'
<1>1. CASE Finish(c, "error", 0) /\ UNCHANGED <<disk, cache, failures>>
  BY <1>1, FinishKeeps DEF disk, failures
<1>2. CASE /\ hot' = TRUE /\ local' = [local EXCEPT ![c] = Append(@, call[c])] /\ Goto(c, "insert")
           /\ UNCHANGED <<files, committed, ack, lines, tail, lock, listed, cache, call, answer, failures>>
  <2>1. PICK q, place : q = call[c] /\ place = "insert"
    OBVIOUS
  <2>2. PICK l : l = Append(local[c], q)
    OBVIOUS
  <2>3. Session(c, "build", local[c], q)
    BY <2>1 DEF StorageInv, Insert
  <2>4. /\ local[c] = committed /\ lock = c /\ "schema" \in files
        /\ q \in Event /\ q # None
    BY <2>1, <2>3, StorageAssumption DEF Session, Locked, Loaded, Insert
  <2>5. q.key \notin Keys(committed) /\ Len(committed) < MaxEvents
    BY <2>1, <2>4 DEF Insert
  <2>6. Session(c, place, l, q)'
    BY <1>2, <2>1, <2>2, <2>4, <2>5 DEF Session, Locked, Loaded, Whole
  <2>7. Others(c) /\ place = pc'[c] /\ l = local'[c] /\ q = call'[c]
    BY <1>2, <2>1, <2>2 DEF Others, StorageInv, Domains, Goto
  <2>8. Exclusive(c) /\ Disk'
    BY <1>2, <2>4, DiskStays DEF Exclusive, failures
  <2>9. NeverBlocked' /\ Verified(cache'[c])
    BY <1>2 DEF StorageInv, NeverBlocked, failures
  <2>10. QED
    BY <2>6, <2>7, <2>8, <2>9, StorageKeeps
<1>3. QED
  BY <1>1, <1>2 DEF Insert

\* The log with the event in it.
LEMMA CommitGrows ==
    ASSUME StorageInv, NEW c \in Client, CommitEvent(c), NEW q, q = call[c]
    PROVE  /\ q \in Event /\ q.key \notin Keys(committed) /\ Len(committed) < MaxEvents
           /\ committed' = Append(committed, q) /\ local[c] = committed'
           /\ "schema" \in files /\ lock = c
<1>1. Session(c, "insert", local[c], q)
  BY DEF StorageInv, CommitEvent
<1>2. QED
  BY <1>1 DEF Session, CommitEvent, Locked

LEMMA CommitEventStorage ==
    ASSUME StorageInv, NEW c \in Client, CommitEvent(c)
    PROVE  StorageInv'
<1>1. PICK q, place, l : q = call[c] /\ place = "project" /\ l = local[c]
  OBVIOUS
<1>2. /\ UNCHANGED <<files, ack, lines, tail, lock, damages, local, cache, call, answer>>
      /\ Goto(c, place) /\ hot' = FALSE
  BY <1>1 DEF CommitEvent, AfterCommit, failures
<1>3. /\ q \in Event /\ committed' = Append(committed, q) /\ l = committed'
      /\ "schema" \in files /\ lock = c
  BY <1>1, CommitGrows
<1>4. lines \in Seq(Event) /\ committed \in Seq(Event)
  BY DEF StorageInv, Disk
<1>5. committed' \in Seq(Event)
  BY <1>3, <1>4
<1>6. q \in Elements(committed')
  <2>1. \E i \in DOMAIN committed' : committed'[i] = q
    BY <1>3, <1>4, AppendProperties
  <2>2. QED
    BY <2>1 DEF Elements
<1>7. JournalSound'
  <2>1. SUFFICES ASSUME damages = 0
                 PROVE  JournalSound'
    BY <1>2 DEF JournalSound
  <2>2. /\ ack <= Len(lines) /\ Prefix(lines, committed)
        /\ tail # None => Len(lines) < Len(committed) /\ committed[Len(lines) + 1] = tail
    BY <2>1 DEF StorageInv, Disk, JournalSound
  <2>3. /\ Prefix(lines, committed')
        /\ Len(lines) < Len(committed) => Len(lines) < Len(committed') /\ committed'[Len(lines) + 1] = committed[Len(lines) + 1]
    BY <1>3, <1>4, <2>2, PrefixGrows
  <2>4. QED
    BY <1>2, <2>2, <2>3 DEF JournalSound
<1>8. Disk'
  BY <1>2, <1>3, <1>5, <1>7 DEF StorageInv, Disk
<1>9. Session(c, place, l, q)'
  <2>1. q # None
    BY <1>3, StorageAssumption
  <2>2. QED
    BY <1>1, <1>2, <1>3, <1>6, <2>1 DEF Session, Locked, Loaded, Whole
<1>10. Others(c) /\ place = pc'[c] /\ l = local'[c] /\ q = call'[c]
  BY <1>1, <1>2 DEF Others, StorageInv, Domains, Goto
<1>11. Exclusive(c) /\ NeverBlocked' /\ Verified(cache'[c])
  BY <1>2, <1>3 DEF Exclusive, StorageInv, NeverBlocked
<1>12. QED
  BY <1>1, <1>8, <1>9, <1>10, <1>11, StorageKeeps

-----------------------------------------------------------------------------
(* Failures.                                                               *)

LEMMA FaultStorage ==
    ASSUME StorageInv, NEW c \in Client, Fault(c)
    PROVE  StorageInv'
<1>1. (hot' <=> hot) \/ lock = c
  <2>1. CASE lock = c
    BY <2>1
  <2>2. CASE lock # c
    BY <2>2 DEF Fault
  <2>3. QED
    BY <2>1, <2>2
<1>2. Finish(c, "error", 0) /\ UNCHANGED <<files, committed, ack, lines, tail, damages, cache>>
  BY DEF Fault
<1>3. QED
  BY <1>1, <1>2, FinishKeeps

LEMMA CrashStorage ==
    ASSUME StorageInv, NEW c \in Client, Crash(c)
    PROVE  StorageInv'
<1>1. PICK place, l, q : place = "idle" /\ l = <<>> /\ q = None
  OBVIOUS
<1>2. /\ UNCHANGED <<files, hot, committed, ack, lines, tail, damages>>
      /\ Goto(c, place) /\ call' = [call EXCEPT ![c] = q] /\ local' = [local EXCEPT ![c] = l]
      /\ cache' = [cache EXCEPT ![c] = NoSnapshot] /\ lock' = LockAfter(c)
  BY <1>1 DEF Crash, disk
<1>3. \/ answer' = answer
      \/ answer' = [answer EXCEPT ![c] = [kind |-> "error", seen |-> 0]]
  BY DEF Crash
<1>4. DOMAIN answer = Client /\ DOMAIN answer' = Client
  BY <1>3 DEF StorageInv, Domains
<1>5. Others(c) /\ place = pc'[c] /\ l = local'[c] /\ q = call'[c]
  BY <1>1, <1>2, <1>4 DEF Others, StorageInv, Domains, Goto
<1>6. NeverBlocked'
  BY <1>2, <1>3, <1>4 DEF StorageInv, NeverBlocked
<1>7. Verified(cache'[c])
  BY <1>2 DEF StorageInv, Domains, Verified, NoSnapshot
<1>8. lock' # c /\ Exclusive(c) /\ Disk'
  BY <1>2, StorageAssumption, DiskStays DEF LockAfter, Exclusive
<1>9. Session(c, place, l, q)'
  BY <1>1, <1>8 DEF Session, Locked, Loaded, Whole
<1>10. QED
  BY <1>5, <1>6, <1>7, <1>8, <1>9, StorageKeeps

LEMMA DamageStorage ==
    ASSUME StorageInv, DamageJournal
    PROVE  StorageInv'
<1>1. /\ UNCHANGED <<hot, committed, ack, lock, pc, local, cache, call, answer>>
      /\ lock = None /\ damages' = damages + 1
  BY DEF DamageJournal, session
<1>2. damages' \in Nat /\ damages' # 0
  BY <1>1 DEF StorageInv, Disk
<1>3. \A f \in {"schema", "database"} : f \in files' <=> f \in files
  BY DEF DamageJournal
<1>4. lines' \in Seq(Event) /\ tail' \in Event \cup {None, Garbled}
  <2>1. lines \in Seq(Event) /\ tail \in Event \cup {None, Garbled}
    BY DEF StorageInv, Disk
  <2>2. CASE lines' = <<>> /\ tail' = None
    BY <2>2
  <2>3. CASE lines # <<>> /\ lines' = SubSeq(lines, 1, Len(lines) - 1) /\ tail' = tail
    <3>1. SubSeq(lines, 1, Len(lines) - 1) \in Seq(Event)
      BY <2>1
    <3>2. QED
      BY <2>1, <2>3, <3>1
  <2>4. CASE tail' = Garbled /\ lines' = lines
    BY <2>1, <2>4
  <2>5. QED
    BY <2>2, <2>3, <2>4 DEF DamageJournal
<1>5. Disk' /\ NeverBlocked'
  BY <1>1, <1>2, <1>3, <1>4 DEF StorageInv, Disk, JournalSound, NeverBlocked
<1>6. ASSUME NEW d \in Client
      PROVE  Session(d, pc[d], local[d], call[d])' /\ Verified(cache[d])'
  <2>1. PICK place, l, q : place = pc[d] /\ l = local[d] /\ q = call[d]
    OBVIOUS
  <2>2. Session(d, place, l, q) /\ place \notin Locked
    BY <1>1, <2>1, StorageAssumption DEF StorageInv, Session
  <2>3. Session(d, place, l, q)'
    BY <1>1, <2>2 DEF Session, Locked, Loaded, Whole
  <2>4. QED
    BY <1>1, <2>1, <2>3 DEF Session, StorageInv, Verified
<1>7. QED
  BY <1>1, <1>5, <1>6 DEF StorageInv, Domains

-----------------------------------------------------------------------------
(* The invariant.                                                          *)

LEMMA StorageInitial == Init => StorageInv
<1>1. SUFFICES ASSUME Init
               PROVE  StorageInv
  OBVIOUS
<1>2. committed = <<>> /\ lines = <<>> /\ ack = 0 /\ tail = None /\ damages = 0 /\ files = {}
  BY <1>1 DEF Init
<1>3. JournalSound
  <2>1. Prefix(<<>>, <<>>) /\ Len(<<>>) = 0
    BY DEF Prefix
  <2>2. QED
    BY <1>2, <2>1 DEF JournalSound
<1>4. Disk
  BY <1>2, <1>3 DEF Disk
<1>5. Domains /\ NeverBlocked /\ lock = None
  BY <1>1 DEF Init, Domains, NeverBlocked, NoAnswer
<1>6. ASSUME NEW c \in Client
      PROVE  Session(c, pc[c], local[c], call[c]) /\ Verified(cache[c])
  <2>1. pc[c] = "idle" /\ call[c] = None /\ cache[c].print = None /\ lock # c
    BY <1>1, <1>5, StorageAssumption DEF Init, NoSnapshot
  <2>2. QED
    BY <2>1 DEF Session, Verified, Locked, Loaded, Whole
<1>7. QED
  BY <1>4, <1>5, <1>6 DEF StorageInv

LEMMA WorkStorage ==
    ASSUME StorageInv, NEW c \in Client, Work(c)
    PROVE  StorageInv'
  BY ListStorage, StatStorage, AcquireStorage, TimeoutStorage, CreateJournalStorage,
     CreateDatabaseStorage, RollBackStorage, CreateTablesStorage, CommitTablesStorage,
     ReuseStorage, LoadStorage, RefuseStorage, WritePartStorage, WriteLineStorage,
     AcknowledgeStorage, CommitAcknowledgementStorage, AnsweredStorage, ReusedStorage,
     FullStorage, InsertStorage, CommitEventStorage, AnswerStorage DEF Work

LEMMA StorageStep == StorageInv /\ [Next]_vars => StorageInv'
<1>1. SUFFICES ASSUME StorageInv, [Next]_vars
               PROVE  StorageInv'
  OBVIOUS
<1>2. CASE UNCHANGED vars
  BY <1>1, <1>2 DEF vars, StorageInv, Domains, Disk, JournalSound, NeverBlocked, Session, Verified
<1>3. CASE DamageJournal
  BY <1>1, <1>3, DamageStorage
<1>4. ASSUME NEW c \in Client,
             \/ \E request \in Event \cup {Read} : Submit(c, request)
             \/ Work(c) \/ Fault(c) \/ Crash(c)
      PROVE  StorageInv'
  BY <1>1, <1>4, SubmitStorage, WorkStorage, FaultStorage, CrashStorage
<1>5. QED
  BY <1>1, <1>2, <1>3, <1>4 DEF Next

LEMMA StorageInvariant == Spec => []StorageInv
<1>1. QED
  BY StorageInitial, StorageStep, PTL DEF Spec

\* Whoever times out, fails or dies, only the holder of the lock works on the two files; the
\* journal of an undamaged registry lags only as it may, and no session is ever refused for an
\* inconsistency (Storage.session, recovered, project).
THEOREM StaysRecoverable == Spec => []Recoverable
<1>1. StorageInv => Recoverable
  BY DEF StorageInv, Session, Disk, Recoverable, OneWriter
<1>2. QED
  BY <1>1, StorageInvariant, PTL

-----------------------------------------------------------------------------
(* The two files are one log.                                              *)

Calls == call \in [Client -> Event \cup {Read, None}]

LEMMA CallsStep == Calls /\ [Next]_vars => Calls'
<1>1. SUFFICES ASSUME Calls, [Next]_vars
               PROVE  Calls'
  OBVIOUS
<1>2. CASE call' = call
  BY <1>1, <1>2 DEF Calls
<1>3. ASSUME NEW c \in Client, NEW request \in Event \cup {Read, None}, call' = [call EXCEPT ![c] = request]
      PROVE  Calls'
  BY <1>1, <1>3 DEF Calls
<1>4. ASSUME NEW c \in Client, Work(c)
      PROVE  call' = call \/ call' = [call EXCEPT ![c] = None]
  BY <1>4 DEF Work, List, Stat, Acquire, Timeout, CreateJournal, CreateDatabase, RollBack, CreateTables,
     CommitTables, Reuse, Load, Refuse, WritePart, WriteLine, Acknowledge, CommitAcknowledgement,
     Answered, Reused, Full, Insert, CommitEvent, Answer, Blocked, Finish, session, vars
<1>5. QED
  BY <1>1, <1>2, <1>3, <1>4 DEF Next, vars, Submit, Fault, Crash, DamageJournal, Finish

\* What the callers of the log see of the answers.
Seen == [c \in Client |-> IF answer[c].kind = "integrity"
                          THEN [kind |-> "error", seen |-> 0] ELSE answer[c]]

Projected ==
    \A c \in Client : call[c] # None /\ call'[c] = None /\ answer'[c].kind \in {"ok", "conflict"} =>
                      lines = committed /\ ack = Len(committed) /\ tail = None

\* A step of the log or none, and an answer only of what is projected.
Kept == [EL!Next]_(EL!vars) /\ Projected

LEMMA SeenFinish ==
    ASSUME StorageInv, NEW c \in Client, NEW kind \in {"ok", "conflict", "error", "integrity"}, NEW seen,
           Finish(c, kind, seen), kind = "integrity" => seen = 0
    PROVE  Seen' = [Seen EXCEPT ![c] = [kind |-> IF kind = "integrity" THEN "error" ELSE kind,
                                        seen |-> seen]]
<1>1. DOMAIN answer = Client /\ answer' = [answer EXCEPT ![c] = [kind |-> kind, seen |-> seen]]
  BY DEF StorageInv, Domains, Finish
<1>2. \A d \in Client : answer'[d] = IF d = c THEN [kind |-> kind, seen |-> seen] ELSE answer[d]
  BY <1>1
<1>3. PICK x, y, k : /\ x = [kind |-> IF kind = "integrity" THEN "error" ELSE kind, seen |-> seen]
                     /\ y = [kind |-> "error", seen |-> 0] /\ k = [kind |-> kind, seen |-> seen]
  OBVIOUS
<1>4. (IF k.kind = "integrity" THEN y ELSE k) = x
  BY <1>3
<1>5. \A d \in Client : Seen'[d] = IF d = c THEN x ELSE Seen[d]
  BY <1>2, <1>3, <1>4 DEF Seen
<1>6. Seen' = [Seen EXCEPT ![c] = x]
  <2>1. Seen = [d \in Client |-> Seen[d]] /\ Seen' = [d \in Client |-> Seen'[d]]
    BY DEF Seen
  <2>2. QED
    BY <1>5, <2>1
<1>7. QED
  BY <1>3, <1>6

LEMMA QuietKeeps ==
    ASSUME UNCHANGED <<committed, call, answer>>
    PROVE  Kept
<1>1. UNCHANGED EL!vars
  BY DEF EL!vars
<1>2. Projected
  BY DEF Projected
<1>3. QED
  BY <1>1, <1>2 DEF Kept

LEMMA FinishProjects ==
    ASSUME StorageInv, NEW c \in Client, NEW kind, NEW seen, Finish(c, kind, seen),
           kind \in {"ok", "conflict"} => pc[c] \in Whole
    PROVE  Projected
<1>1. SUFFICES ASSUME NEW d \in Client, call[d] # None, call'[d] = None,
                      answer'[d].kind \in {"ok", "conflict"}
               PROVE  lines = committed /\ ack = Len(committed) /\ tail = None
  BY DEF Projected
<1>2. d = c
  BY <1>1 DEF StorageInv, Domains, Finish
<1>3. answer'[c].kind = kind
  BY DEF StorageInv, Domains, Finish
<1>4. pc[c] \in Whole /\ Session(c, pc[c], local[c], call[c])
  BY <1>1, <1>2, <1>3 DEF StorageInv
<1>5. QED
  BY <1>4 DEF Session

LEMMA FailKeeps ==
    ASSUME StorageInv, NEW c \in Client, NEW kind \in {"error", "integrity"}, Finish(c, kind, 0),
           UNCHANGED committed, pc[c] # "idle"
    PROVE  Kept
<1>1. call[c] # None /\ call' = [call EXCEPT ![c] = None]
  BY DEF StorageInv, Session, Finish
<1>2. Seen' = [Seen EXCEPT ![c] = [kind |-> "error", seen |-> 0]]
  BY SeenFinish
<1>3. EL!Fail(c)
  BY <1>1, <1>2 DEF EL!Fail, EL!Answer, Seen
<1>4. EL!Next
  BY <1>3 DEF EL!Next
<1>5. Projected
  BY FinishProjects
<1>6. QED
  BY <1>4, <1>5 DEF Kept

LEMMA SucceedKeeps ==
    ASSUME StorageInv, NEW c \in Client, Finish(c, "ok", Len(local[c])), UNCHANGED committed, pc[c] \in Whole,
           call[c] = Read \/ call[c] \in Elements(local[c])
    PROVE  Kept
<1>1. Session(c, pc[c], local[c], call[c]) /\ pc[c] \in {"build", "done"}
  BY DEF StorageInv, Whole
<1>2. call[c] # None /\ local[c] = committed /\ call' = [call EXCEPT ![c] = None]
  BY <1>1 DEF Session, Loaded, Finish
<1>3. Seen' = [Seen EXCEPT ![c] = [kind |-> "ok", seen |-> Len(committed)]]
  BY <1>2, SeenFinish
<1>4. EL!Answer(c, "ok", Len(committed))
  BY <1>2, <1>3 DEF EL!Answer, Seen
<1>5. EL!Succeed(c)
  BY <1>2, <1>4 DEF EL!Succeed, EL!Elements, Elements
<1>6. EL!Next
  BY <1>5 DEF EL!Next
<1>7. Projected
  BY FinishProjects
<1>8. QED
  BY <1>6, <1>7 DEF Kept

LEMMA ReusedKeeps ==
    ASSUME StorageInv, NEW c \in Client, Reused(c)
    PROVE  Kept
<1>1. pc[c] = "build" /\ Finish(c, "conflict", Len(local[c])) /\ UNCHANGED committed
  BY DEF Reused, disk
<1>2. Session(c, pc[c], local[c], call[c])
  BY DEF StorageInv
<1>3. call[c] # None /\ local[c] = committed /\ call' = [call EXCEPT ![c] = None]
  BY <1>1, <1>2 DEF Session, Loaded, Finish
<1>4. Seen' = [Seen EXCEPT ![c] = [kind |-> "conflict", seen |-> Len(committed)]]
  BY <1>1, <1>3, SeenFinish
<1>5. EL!Answer(c, "conflict", Len(committed))
  BY <1>1, <1>3, <1>4 DEF EL!Answer, Seen
<1>6. EL!Conflict(c)
  BY <1>3, <1>5 DEF Reused, EL!Conflict, EL!Elements, EL!Keys, Elements, Keys
<1>7. EL!Next
  BY <1>6 DEF EL!Next
<1>8. Projected
  BY <1>1, FinishProjects DEF Whole
<1>9. QED
  BY <1>7, <1>8 DEF Kept

LEMMA SubmitKeeps ==
    ASSUME StorageInv, NEW c \in Client, NEW request \in Event \cup {Read}, Submit(c, request)
    PROVE  Kept
<1>1. call[c] = None /\ call' = [call EXCEPT ![c] = request] /\ UNCHANGED committed
  BY DEF StorageInv, Session, Submit, disk
<1>2. Seen' = [Seen EXCEPT ![c] = NoAnswer]
  <2>1. \A d \in Client : answer'[d] = IF d = c THEN NoAnswer ELSE answer[d]
    BY DEF StorageInv, Domains, Submit
  <2>2. NoAnswer.kind # "integrity"
    BY DEF NoAnswer
  <2>3. \A d \in Client : Seen'[d] = IF d = c THEN NoAnswer ELSE Seen[d]
    BY <2>1, <2>2 DEF Seen
  <2>4. Seen = [d \in Client |-> Seen[d]] /\ Seen' = [d \in Client |-> Seen'[d]]
    BY DEF Seen
  <2>5. QED
    BY <2>3, <2>4
<1>3. EL!Submit(c, request)
  BY <1>1, <1>2 DEF EL!Submit, EL!NoAnswer, NoAnswer, Seen
<1>4. EL!Next
  BY <1>3 DEF EL!Next
<1>5. Projected
  <2>1. request # None
    BY StorageAssumption
  <2>2. \A d \in Client : call'[d] = IF d = c THEN request ELSE call[d]
    BY <1>1 DEF StorageInv, Domains
  <2>3. QED
    BY <2>1, <2>2 DEF Projected
<1>6. QED
  BY <1>4, <1>5 DEF Kept

LEMMA CommitEventKeeps ==
    ASSUME StorageInv, NEW c \in Client, CommitEvent(c)
    PROVE  Kept
<1>1. UNCHANGED <<call, answer>>
  BY DEF CommitEvent
<1>2. /\ call[c] \in Event /\ call[c].key \notin Keys(committed) /\ Len(committed) < MaxEvents
      /\ committed' = Append(committed, call[c])
  BY CommitGrows
<1>3. EL!TakeEffect(c)
  BY <1>1, <1>2 DEF EL!TakeEffect, EL!Keys, Keys
<1>4. EL!Next
  BY <1>3 DEF EL!Next
<1>5. Projected
  BY <1>1 DEF Projected
<1>6. QED
  BY <1>4, <1>5 DEF Kept

LEMMA CrashKeeps ==
    ASSUME StorageInv, Calls, NEW c \in Client, Crash(c)
    PROVE  Kept
<1>1. call' = [call EXCEPT ![c] = None] /\ UNCHANGED committed
  BY DEF Crash, disk
<1>2. CASE call[c] = None
  <2>1. answer' = answer
    BY <1>2 DEF Crash
  <2>2. call' = call
    BY <1>1, <1>2 DEF Calls
  <2>3. QED
    BY <1>1, <2>1, <2>2, QuietKeeps
<1>3. CASE call[c] # None
  <2>1. answer' = [answer EXCEPT ![c] = [kind |-> "error", seen |-> 0]]
    BY <1>3 DEF Crash
  <2>2. \A d \in Client : answer'[d] = IF d = c THEN [kind |-> "error", seen |-> 0] ELSE answer[d]
    BY <2>1 DEF StorageInv, Domains
  <2>3. Seen' = [Seen EXCEPT ![c] = [kind |-> "error", seen |-> 0]]
    BY <2>2 DEF Seen
  <2>4. EL!Fail(c)
    BY <1>1, <1>3, <2>3 DEF EL!Fail, EL!Answer, Seen
  <2>5. EL!Next
    BY <2>4 DEF EL!Next
  <2>6. Projected
    <3>1. \A d \in Client : call'[d] = IF d = c THEN None ELSE call[d]
      BY <1>1 DEF StorageInv, Domains
    <3>2. QED
      BY <2>2, <3>1 DEF Projected
  <2>7. QED
    BY <2>5, <2>6 DEF Kept
<1>4. QED
  BY <1>2, <1>3

\* The steps of a session at its two files that no caller sees.
Quiet(c) ==
    \/ List(c) \/ Acquire(c) \/ RollBack(c) \/ CommitTables(c) \/ Reuse(c) \/ Load(c)
    \/ WritePart(c) \/ WriteLine(c) \/ Acknowledge(c) \/ CommitAcknowledgement(c)

LEMMA WorkKeeps ==
    ASSUME StorageInv, NEW c \in Client, Work(c)
    PROVE  Kept
<1>1. CASE Quiet(c)
  <2>1. UNCHANGED <<committed, call, answer>>
    BY <1>1 DEF Quiet, List, Acquire, RollBack, CommitTables, Reuse, Load, WritePart, WriteLine,
       Acknowledge, CommitAcknowledgement, disk, session
  <2>2. QED
    BY <2>1, QuietKeeps
<1>2. CASE Stat(c) \/ Timeout(c) \/ Full(c) \/ Insert(c)
  <2>1. \/ UNCHANGED <<committed, call, answer>>
        \/ Finish(c, "error", 0) /\ UNCHANGED committed /\ pc[c] # "idle"
    BY <1>2 DEF Stat, Timeout, Full, Insert, disk
  <2>2. QED
    BY <2>1, QuietKeeps, FailKeeps
<1>3. CASE CreateJournal(c) \/ CreateDatabase(c) \/ CreateTables(c) \/ Refuse(c)
  <2>1. \/ UNCHANGED <<committed, call, answer>>
        \/ Finish(c, "integrity", 0) /\ UNCHANGED committed /\ pc[c] # "idle"
    BY <1>3 DEF CreateJournal, CreateDatabase, CreateTables, Refuse, Blocked, Projecting, disk
  <2>2. QED
    BY <2>1, QuietKeeps, FailKeeps
<1>4. CASE Answered(c)
  BY <1>4, SucceedKeeps DEF Answered, Whole, disk
<1>5. CASE Answer(c)
  <2>1. /\ pc[c] = "done" /\ Finish(c, "ok", Len(local[c])) /\ UNCHANGED committed
    BY <1>5 DEF Answer, disk
  <2>2. Session(c, pc[c], local[c], call[c])
    BY DEF StorageInv
  <2>3. call[c] \in Elements(local[c])
    BY <2>1, <2>2 DEF Session, Loaded
  <2>4. QED
    BY <2>1, <2>3, SucceedKeeps DEF Whole
<1>6. CASE Reused(c)
  BY <1>6, ReusedKeeps
<1>7. CASE CommitEvent(c)
  BY <1>7, CommitEventKeeps
<1>8. QED
  BY <1>1, <1>2, <1>3, <1>4, <1>5, <1>6, <1>7 DEF Work, Quiet

LEMMA KeptStep == StorageInv /\ Calls /\ [Next]_vars => Kept
<1>1. SUFFICES ASSUME StorageInv, Calls, [Next]_vars
               PROVE  Kept
  OBVIOUS
<1>2. CASE UNCHANGED vars \/ DamageJournal
  <2>1. UNCHANGED <<committed, call, answer>>
    BY <1>2 DEF vars, DamageJournal
  <2>2. QED
    BY <2>1, QuietKeeps
<1>3. ASSUME NEW c \in Client, Fault(c)
      PROVE  Kept
  <2>1. Finish(c, "error", 0) /\ UNCHANGED committed /\ pc[c] # "idle"
    BY <1>3 DEF Fault
  <2>2. QED
    BY <1>1, <2>1, FailKeeps
<1>4. ASSUME NEW c \in Client,
             \/ \E request \in Event \cup {Read} : Submit(c, request)
             \/ Work(c) \/ Fault(c) \/ Crash(c)
      PROVE  Kept
  BY <1>1, <1>3, <1>4, SubmitKeeps, WorkKeeps, CrashKeeps
<1>5. QED
  BY <1>1, <1>2, <1>4 DEF Next

LEMMA LogInitial == Init => EL!Init
<1>1. SUFFICES ASSUME Init
               PROVE  EL!Init
  OBVIOUS
<1>2. answer = [c \in Client |-> NoAnswer] /\ NoAnswer.kind # "integrity"
  BY <1>1 DEF Init, NoAnswer
<1>3. Seen = [c \in Client |-> NoAnswer]
  BY <1>2 DEF Seen
<1>4. QED
  BY <1>1, <1>3 DEF Init, EL!Init, EL!NoAnswer, NoAnswer, Seen

LEMMA CallsInitial == Init => Calls
  BY DEF Init, Calls

\* The two files are one log of events with unique keys (EventLog): a call that answers "ok"
\* read all of it, its event is in it once, and no answer is given before every committed
\* event is in the journal and acknowledged, also when the journal was damaged (Storage.change).
THEOREM LogStaysKept == Spec => LogKept
<1>1. Spec => []Calls
  BY CallsInitial, CallsStep, PTL DEF Spec
<1>2. StorageInv /\ Calls /\ [Next]_vars => [EL!Next]_(EL!vars)
  BY KeptStep DEF Kept
<1>3. StorageInv /\ Calls /\ [Next]_vars => Projected
  BY KeptStep DEF Kept
<1>4. Spec => EL!Spec
  BY <1>1, <1>2, LogInitial, StorageInvariant, PTL DEF Spec, EL!Spec
<1>5. Spec => AnswerProjected
  <2>1. Spec => [][Projected]_vars
    BY <1>1, <1>3, StorageInvariant, PTL DEF Spec
  <2>2. QED
    BY <2>1, PTL DEF AnswerProjected, Projected
<1>6. QED
  BY <1>4, <1>5 DEF LogKept, Implements
=============================================================================
