--------------------------- MODULE AuditLogProofs ---------------------------
(***************************************************************************)
(* What holds of the audit log for any number of processes, directories,   *)
(* days and entries: the chain of a file with one writer verifies, and a   *)
(* chain that verifies is the one the server wrote.                        *)
(***************************************************************************)
EXTENDS AuditLog, FiniteSetTheorems, SequenceTheorems, TLAPS

-----------------------------------------------------------------------------
(***************************************************************************)
(* Induction.  The library's principle of least elements is stated for     *)
(* finite sets under inclusion; here it is for numbers.                    *)
(***************************************************************************)
LEMMA LeastNumber ==
    ASSUME NEW S \in SUBSET Nat, S # {}
    PROVE  \E n \in S : \A m \in S : n <= m
  <1> DEFINE R == StrictSubsetOrdering(Nat)
             T == {0 .. n : n \in S}
  <1>1. IsWellFoundedOn(R, FiniteSubsetsOf(Nat))
    BY FS_StrictSubsetOrderingWellFounded
  <1>2. T \subseteq FiniteSubsetsOf(Nat) /\ T # {}
    <2>1. \A n \in S : 0 .. n \in SUBSET Nat /\ IsFiniteSet(0 .. n)
      BY FS_Interval
    <2> QED
      BY <2>1 DEF FiniteSubsetsOf
  <1>3. PICK t \in T : \A u \in T : <<u, t>> \notin R
    <2> HIDE DEF R, T
    <2> QED
      BY <1>1, <1>2, WFMin
  <1>4. PICK n \in S : t = 0 .. n
    BY <1>3
  <1>5. ASSUME NEW m \in S, m < n PROVE FALSE
    <2>1. 0 .. m \in SUBSET Nat /\ 0 .. n \in SUBSET Nat /\ 0 .. m \subseteq 0 .. n
      BY <1>5
    <2>2. n \in 0 .. n /\ n \notin 0 .. m
      BY <1>5
    <2>3. <<0 .. m, 0 .. n>> \in R
      BY <2>1, <2>2 DEF StrictSubsetOrdering
    <2> QED
      BY <1>3, <1>4, <2>3
  <1> QED
    BY <1>5

\* Numbers that grow from each place to the next grow from any place to any later one.
LEMMA GrowingSequence ==
    ASSUME NEW n \in Nat, NEW b, \A i \in 1 .. n : b[i] \in Nat, \A i \in 2 .. n : b[i - 1] < b[i]
    PROVE  \A i, j \in 1 .. n : i < j => b[i] < b[j]
  <1> SUFFICES ASSUME NEW i \in 1 .. n, NEW k \in 1 .. n, i < k, ~ (b[i] < b[k])
               PROVE  FALSE
    OBVIOUS
  <1> DEFINE S == {m \in 1 .. n : i < m /\ ~ (b[i] < b[m])}
  <1>1. PICK j \in S : \A m \in S : j <= m
    <2>1. S \in SUBSET Nat /\ k \in S
      OBVIOUS
    <2> HIDE DEF S
    <2> QED
      BY <2>1, LeastNumber
  <1>2. j - 1 \in 1 .. n /\ i <= j - 1 /\ j - 1 \notin S /\ b[j - 1] < b[j]
    BY <1>1
  <1> QED
    BY <1>1, <1>2
-----------------------------------------------------------------------------
(***************************************************************************)
(* Sequences, without a set for their elements: a hash holds the hash it   *)
(* was made from, so no set of the language has them all.                  *)
(***************************************************************************)
IsSequence(ws) == Len(ws) \in Nat /\ ws = [i \in 1 .. Len(ws) |-> ws[i]]

LEMMA LengthOf ==
    ASSUME NEW n \in Nat, NEW ws, ws = [i \in 1 .. n |-> ws[i]]
    PROVE  IsSequence(ws) /\ Len(ws) = n
  <1> DEFINE S == {ws[i] : i \in 1 .. n}
  <1>1. ws \in [1 .. n -> S]
    OBVIOUS
  <1>2. ws \in Seq(S)
    BY <1>1, SeqDef
  <1>3. Len(ws) \in Nat /\ DOMAIN ws = 1 .. Len(ws)
    BY <1>2, LenProperties
  <1>4. Len(ws) = n
    BY <1>1, <1>3
  <1> QED
    BY <1>4 DEF IsSequence

LEMMA AppendFacts ==
    ASSUME NEW ws, IsSequence(ws), NEW w
    PROVE  /\ IsSequence(Append(ws, w)) /\ Len(Append(ws, w)) = Len(ws) + 1
           /\ \A i \in 1 .. Len(ws) : Append(ws, w)[i] = ws[i]
           /\ Append(ws, w)[Len(ws) + 1] = w
  <1> DEFINE S == {ws[i] : i \in 1 .. Len(ws)} \cup {w}
  <1>1. ws \in Seq(S) /\ w \in S
    BY SeqDef DEF IsSequence
  <1>2. Append(ws, w) \in Seq(S)
    BY <1>1, AppendProperties
  <1>3. /\ Len(Append(ws, w)) = Len(ws) + 1 /\ Append(ws, w)[Len(ws) + 1] = w
        /\ \A i \in 1 .. Len(ws) : Append(ws, w)[i] = ws[i]
    <2> HIDE DEF S
    <2> QED
      BY <1>1, AppendProperties
  <1>4. Append(ws, w) \in [1 .. Len(Append(ws, w)) -> S] /\ Len(Append(ws, w)) \in Nat
    <2> HIDE DEF S
    <2> QED
      BY <1>2, LenProperties
  <1> QED
    BY <1>3, <1>4 DEF IsSequence

-----------------------------------------------------------------------------
(***************************************************************************)
(* The shape of the state, when n appends were tried.                      *)
(***************************************************************************)
\* What an append computed: the hash of an entry that is later than the one it chains to.
IsHash(h, n) ==
    /\ h = <<h[1], h[2]>> /\ h[2] \in 1 .. n
    /\ h[1] = Genesis \/ (h[1] = <<h[1][1], h[1][2]>> /\ h[1][2] \in Nat /\ h[1][2] < h[2])

IsEntry(w, n) ==
    /\ w = [prev |-> w.prev, body |-> w.body, hash |-> w.hash, ending |-> w.ending]
    /\ w.body \in 0 .. n /\ w.ending \in Endings
    /\ IsHash(w.hash, n)

IsLog(ws, n) == IsSequence(ws) /\ \A i \in 1 .. Len(ws) : IsEntry(ws[i], n)

\* On day d, an append under way chains to the beginning or to an earlier entry.
IsAppend(a, n, d) ==
    /\ a = [file |-> a.file, prev |-> a.prev, body |-> a.body]
    /\ a.file \in Files /\ a.file[2] \in {d - 1, d}
    /\ a.body \in 1 .. n
    /\ a.prev = Genesis \/ (IsHash(a.prev, n) /\ a.prev[2] < a.body)

FilesShaped ==
    /\ files = [f \in Files |-> files[f]]
    /\ \A f \in Files : IsLog(files[f], tried)

CachesShaped ==
    /\ lastHash = [p \in Processes |-> [f \in Files |-> lastHash[p][f]]]
    /\ \A p \in Processes : \A f \in Files :
           lastHash[p][f] \in {None, Genesis} \/ IsHash(lastHash[p][f], tried)

AppendsShaped ==
    /\ pending = [p \in Processes |-> pending[p]]
    /\ \A p \in Processes : pending[p] # None => IsAppend(pending[p], tried, day)

CountersShaped ==
    /\ day \in 1 .. LastDay /\ tried \in 0 .. MaxEntries
    /\ current \in [Processes -> [Dirs -> 0 .. day]]
    /\ writers \in [Files -> SUBSET Processes] /\ \A f \in Files : IsFiniteSet(writers[f])
    /\ hurt \cup unread \subseteq Files

Shape == FilesShaped /\ CachesShaped /\ AppendsShaped /\ CountersShaped

LEMMA HashOfEntry ==
    ASSUME NEW n \in Nat, NEW prev, NEW body \in 1 .. n,
           prev = Genesis \/ (IsHash(prev, n) /\ prev[2] < body)
    PROVE  IsHash(ComputeHash(prev, body), n)
  BY DEF IsHash, ComputeHash

\* What was true of fewer appends stays true.
LEMMA HashStays ==
    ASSUME NEW n \in Nat, NEW m \in Nat, n <= m, NEW h, IsHash(h, n)
    PROVE  IsHash(h, m)
  BY DEF IsHash

LEMMA LogStays ==
    ASSUME NEW n \in Nat, NEW m \in Nat, n <= m, NEW ws, IsLog(ws, n)
    PROVE  IsLog(ws, m)
  <1>1. ASSUME NEW i \in 1 .. Len(ws) PROVE IsEntry(ws[i], m)
    <2>1. IsEntry(ws[i], n)
      BY DEF IsLog
    <2>2. IsHash(ws[i].hash, m)
      BY <2>1, HashStays DEF IsEntry
    <2> QED
      BY <2>1, <2>2 DEF IsEntry
  <1> QED
    BY <1>1 DEF IsLog

LEMMA WrittenFacts ==
    ASSUME NEW n \in Nat, NEW a, NEW ending \in Endings, NEW d \in Nat, IsAppend(a, n, d)
    PROVE  LET w == Written(a.prev, a.body, ending)
           IN  /\ IsEntry(w, n) /\ w.prev = a.prev /\ w.body = a.body
               /\ w.hash = ComputeHash(a.prev, a.body) /\ w.ending = ending
  <1> DEFINE w == Written(a.prev, a.body, ending)
  <1>1. IsHash(ComputeHash(a.prev, a.body), n)
    BY HashOfEntry DEF IsAppend
  <1>2. /\ w.prev = a.prev /\ w.body = a.body
        /\ w.hash = ComputeHash(a.prev, a.body) /\ w.ending = ending
        /\ w = [prev |-> w.prev, body |-> w.body, hash |-> w.hash, ending |-> w.ending]
    BY DEF Written
  <1>3. a.body \in 0 .. n
    BY DEF IsAppend
  <1> HIDE DEF w
  <1>4. IsEntry(w, n)
    BY <1>1, <1>2, <1>3 DEF IsEntry
  <1> QED
    BY <1>2, <1>4 DEF w

LEMMA AppendedLog ==
    ASSUME NEW n \in Nat, NEW ws, IsLog(ws, n), NEW w, IsEntry(w, n)
    PROVE  IsLog(Append(ws, w), n)
  <1>1. /\ IsSequence(Append(ws, w)) /\ Len(Append(ws, w)) = Len(ws) + 1 /\ Len(ws) \in Nat
        /\ \A i \in 1 .. Len(ws) : Append(ws, w)[i] = ws[i]
        /\ Append(ws, w)[Len(ws) + 1] = w
    BY AppendFacts DEF IsLog, IsSequence
  <1>2. ASSUME NEW i \in 1 .. Len(ws) + 1 PROVE IsEntry(Append(ws, w)[i], n)
    <2>1. CASE i = Len(ws) + 1
      BY <1>1, <2>1
    <2>2. CASE i # Len(ws) + 1
      <3>1. i \in 1 .. Len(ws)
        BY <1>1, <2>2
      <3> QED
        BY <1>1, <3>1 DEF IsLog
    <2> QED
      BY <2>1, <2>2
  <1> QED
    BY <1>1, <1>2 DEF IsLog

LEMMA EmptyLog == \A n \in Nat : IsLog(<<>>, n) /\ Len(<<>>) = 0
  <1>1. <<>> = [i \in 1 .. 0 |-> <<>>[i]]
    OBVIOUS
  <1>2. IsSequence(<<>>) /\ Len(<<>>) = 0
    BY <1>1, LengthOf
  <1> QED
    BY <1>2 DEF IsLog
-----------------------------------------------------------------------------
(***************************************************************************)
(* What the steps of an append do.                                         *)
(***************************************************************************)
LEMMA FileOfToday ==
    ASSUME CountersShaped, NEW dir \in Dirs
    PROVE  FileOf(dir) \in Files /\ FileOf(dir)[1] = dir /\ FileOf(dir)[2] = day
  BY ConstantsAssumption DEF CountersShaped, FileOf, Files

LEMMA PreviousHashFacts ==
    ASSUME Shape, NEW p \in Processes, NEW f \in Files, NEW read \in BOOLEAN
    PROVE  PreviousHash(p, f, read) = Genesis \/ IsHash(PreviousHash(p, f, read), tried)
  <1>1. CASE Cached(p, f) # None
    BY <1>1 DEF PreviousHash, Cached, Shape, CachesShaped
  <1>2. CASE Cached(p, f) = None /\ read /\ files[f] # <<>> /\ Readable(files[f], Len(files[f]))
    <2>1. IsSequence(files[f]) /\ \A i \in 1 .. Len(files[f]) : IsEntry(files[f][i], tried)
      BY DEF Shape, FilesShaped, IsLog
    <2>2. Len(files[f]) # 0
      <3>1. ASSUME Len(files[f]) = 0 PROVE files[f] = <<>>
        <4>1. files[f] = [i \in 1 .. 0 |-> files[f][i]]
          BY <2>1, <3>1 DEF IsSequence
        <4> QED
          BY <4>1
      <3> QED
        BY <1>2, <3>1
    <2>3. IsEntry(files[f][Len(files[f])], tried)
      BY <2>1, <2>2 DEF IsSequence
    <2> QED
      BY <1>2, <2>3 DEF PreviousHash, LoadLastHash, IsEntry
  <1>3. CASE Cached(p, f) = None /\ ~ (read /\ files[f] # <<>> /\ Readable(files[f], Len(files[f])))
    BY <1>3 DEF PreviousHash, LoadLastHash
  <1> QED
    BY <1>1, <1>2, <1>3

\* A process begins an append: to today's file, chained to the hash that it then caches.
LEMMA PrepareFacts ==
    ASSUME Shape, NEW p \in Processes, NEW dir \in Dirs, NEW read \in BOOLEAN,
           Prepare(p, dir, read)
    PROVE  /\ tried' = tried + 1 /\ tried \in Nat
           /\ pending' = [q \in Processes |->
                 IF q = p THEN [file |-> FileOf(dir), prev |-> PreviousHash(p, FileOf(dir), read),
                                body |-> tried + 1]
                 ELSE pending[q]]
           /\ lastHash' = [q \in Processes |-> [f \in Files |-> lastHash'[q][f]]]
           /\ lastHash'[p][FileOf(dir)] = PreviousHash(p, FileOf(dir), read)
           /\ \A f \in Files \ {FileOf(dir)} : lastHash'[p][f] \in {lastHash[p][f], None}
           /\ \A q \in Processes \ {p} : \A f \in Files : lastHash'[q][f] = lastHash[q][f]
  <1> DEFINE cache == [g \in Files |-> IF g = FileOf(dir) THEN PreviousHash(p, FileOf(dir), read)
                          ELSE IF g = <<dir, current[p][dir]>> THEN None ELSE lastHash[p][g]]
  <1>1. tried \in Nat /\ tried' = tried + 1 /\ FileOf(dir) \in Files
    BY ConstantsAssumption, FileOfToday DEF Shape, CountersShaped, Prepare
  <1>2. pending' = [pending EXCEPT ![p] = [file |-> FileOf(dir),
                      prev |-> PreviousHash(p, FileOf(dir), read), body |-> tried + 1]]
    BY DEF Prepare
  <1>3. lastHash' = [lastHash EXCEPT ![p] = cache]
    BY DEF Prepare
  <1>4. \A q \in Processes : lastHash'[q] = IF q = p THEN cache ELSE lastHash[q]
    BY <1>3 DEF Shape, CachesShaped
  <1>5. \A f \in Files : cache[f] = IF f = FileOf(dir) THEN PreviousHash(p, FileOf(dir), read)
                          ELSE IF f = <<dir, current[p][dir]>> THEN None ELSE lastHash[p][f]
    OBVIOUS
  <1>6. cache = [f \in Files |-> cache[f]]
    OBVIOUS
  <1> HIDE DEF cache
  <1>7. lastHash' = [q \in Processes |-> lastHash'[q]]
    BY <1>3 DEF Shape, CachesShaped
  <1>8. \A q \in Processes : lastHash'[q] = [f \in Files |-> lastHash'[q][f]]
    BY <1>4, <1>6 DEF Shape, CachesShaped
  <1>9. lastHash' = [q \in Processes |-> [f \in Files |-> lastHash'[q][f]]]
    BY <1>7, <1>8
  <1>10. pending' = [q \in Processes |->
            IF q = p THEN [file |-> FileOf(dir), prev |-> PreviousHash(p, FileOf(dir), read),
                           body |-> tried + 1]
            ELSE pending[q]]
    BY <1>2 DEF Shape, AppendsShaped
  <1> QED
    BY <1>1, <1>4, <1>5, <1>9, <1>10

\* One file gets one entry more.
LEMMA Append1Facts ==
    ASSUME Shape, NEW p \in Processes, pending[p] # None, NEW ending \in Endings,
           Append1(p, ending)
    PROVE  LET a == pending[p]
               w == Written(a.prev, a.body, ending)
           IN  /\ a.file \in Files
               /\ files' = [f \in Files |-> IF f = a.file THEN Append(files[f], w) ELSE files[f]]
               /\ \A f \in Files : IsLog(files'[f], tried)
               /\ writers' = [f \in Files |-> IF f = a.file THEN writers[f] \cup {p} ELSE writers[f]]
  <1> DEFINE a == pending[p]
             w == Written(a.prev, a.body, ending)
  <1>1. IsAppend(a, tried, day) /\ a.file \in Files /\ tried \in Nat /\ day \in Nat
    BY ConstantsAssumption DEF Shape, AppendsShaped, CountersShaped, IsAppend
  <1>2. IsEntry(w, tried)
    BY <1>1, WrittenFacts
  <1>3. files' = [files EXCEPT ![a.file] = Append(files[a.file], w)]
    BY DEF Append1
  <1>4. writers' = [writers EXCEPT ![a.file] = writers[a.file] \cup {p}]
    BY DEF Append1
  <1> HIDE DEF w, a
  <1>5. files' = [f \in Files |-> IF f = a.file THEN Append(files[f], w) ELSE files[f]]
    BY <1>1, <1>3 DEF Shape, FilesShaped
  <1>6. \A f \in Files : IsLog(files'[f], tried)
    <2> SUFFICES ASSUME NEW f \in Files PROVE IsLog(files'[f], tried)
      OBVIOUS
    <2>1. IsLog(files[f], tried)
      BY DEF Shape, FilesShaped
    <2>2. IsLog(Append(files[f], w), tried)
      BY <1>1, <1>2, <2>1, AppendedLog
    <2> QED
      BY <1>5, <2>1, <2>2
  <1>7. writers' = [f \in Files |-> IF f = a.file THEN writers[f] \cup {p} ELSE writers[f]]
    BY <1>1, <1>4 DEF Shape, CountersShaped
  <1> QED
    BY <1>1, <1>5, <1>6, <1>7 DEF a, w

\* The files stay or go whole, and only those past the retention go.
LEMMA PruneFacts ==
    ASSUME Shape, NEW gone, Prune(gone)
    PROVE  /\ files' = [f \in Files |-> files'[f]]
           /\ \A f \in Files : IsLog(files'[f], tried)
           /\ \A f \in Files : files'[f] = files[f] \/ (Expired(f) /\ files'[f] = <<>>)
  <1>1. files' = [f \in Files |-> IF f \in gone THEN <<>> ELSE files[f]]
    BY DEF Prune
  <1>2. \A f \in gone : Expired(f)
    BY DEF Prune
  <1>3. tried \in Nat
    BY ConstantsAssumption DEF Shape, CountersShaped
  <1> QED
    BY <1>1, <1>2, <1>3, EmptyLog DEF Shape, FilesShaped

\* Whatever an editor does to a file, it still holds entries that were once computed.
LEMMA EditedLog ==
    ASSUME NEW n \in Nat, NEW ws, IsLog(ws, n), NEW vs, NEW k \in {Len(ws), Len(ws) - 1}, k \in Nat,
           vs = [i \in 1 .. k |-> vs[i]],
           \A i \in 1 .. k : \E j \in 1 .. Len(ws) :
               vs[i] = ws[j] \/ vs[i] = [ws[j] EXCEPT !.body = 0]
    PROVE  IsLog(vs, n)
  <1>1. IsSequence(vs) /\ Len(vs) = k
    BY LengthOf
  <1>2. ASSUME NEW i \in 1 .. k PROVE IsEntry(vs[i], n)
    <2>1. PICK j \in 1 .. Len(ws) : vs[i] = ws[j] \/ vs[i] = [ws[j] EXCEPT !.body = 0]
      OBVIOUS
    <2> DEFINE w == ws[j]
    <2>2. IsEntry(w, n)
      BY DEF IsLog
    <2>3. CASE vs[i] = w
      BY <2>2, <2>3
    <2>4. CASE vs[i] = [w EXCEPT !.body = 0]
      <3> HIDE DEF w
      <3>1. vs[i] = [prev |-> w.prev, body |-> 0, hash |-> w.hash, ending |-> w.ending]
        BY <2>2, <2>4 DEF IsEntry
      <3> QED
        BY <2>2, <3>1 DEF IsEntry
    <2> QED
      BY <2>1, <2>3, <2>4
  <1> QED
    BY <1>1, <1>2 DEF IsLog

LEMMA EditFacts ==
    ASSUME Shape, NEW f \in Files, Edit(f)
    PROVE  /\ files' = [g \in Files |-> IF g = f THEN files'[f] ELSE files[g]]
           /\ IsLog(files'[f], tried)
           /\ hurt = {} /\ hurt' = {f}
  <1> DEFINE ws == files[f]
             n == Len(ws)
  <1>1. files = [g \in Files |-> files[g]] /\ IsLog(ws, tried) /\ tried \in Nat
    BY ConstantsAssumption DEF Shape, FilesShaped, CountersShaped
  <1>2. n \in Nat /\ ws = [i \in 1 .. n |-> ws[i]]
    BY <1>1 DEF IsLog, IsSequence
  <1>3. hurt = {} /\ hurt' = {f}
    BY DEF Edit
  <1>4. CASE \E i \in 1 .. n : files' = [files EXCEPT ![f][i].body = 0]
    <2>1. PICK i \in 1 .. n : files' = [files EXCEPT ![f][i].body = 0]
      BY <1>4
    <2>2. files' = [files EXCEPT ![f] = [ws EXCEPT ![i] = [ws[i] EXCEPT !.body = 0]]]
      BY <2>1
    <2> DEFINE vs == [ws EXCEPT ![i] = [ws[i] EXCEPT !.body = 0]]
    <2>3. files' = [g \in Files |-> IF g = f THEN vs ELSE files[g]]
      BY <1>1, <2>2
    <2>4. vs = [j \in 1 .. n |-> vs[j]]
      BY <1>2
    <2>5. \A j \in 1 .. n : \E m \in 1 .. n : vs[j] = ws[m] \/ vs[j] = [ws[m] EXCEPT !.body = 0]
      BY <1>2
    <2> HIDE DEF vs
    <2>6. IsLog(vs, tried)
      BY <1>1, <1>2, <2>4, <2>5, EditedLog
    <2> QED
      BY <1>3, <2>3, <2>6
  <1>5. CASE \E i \in 1 .. n : files' = [files EXCEPT ![f] =
                 [j \in 1 .. (n - 1) |-> IF j < i THEN ws[j] ELSE ws[j + 1]]]
    <2>1. PICK i \in 1 .. n : files' = [files EXCEPT ![f] =
                 [j \in 1 .. (n - 1) |-> IF j < i THEN ws[j] ELSE ws[j + 1]]]
      BY <1>5
    <2> DEFINE vs == [j \in 1 .. (n - 1) |-> IF j < i THEN ws[j] ELSE ws[j + 1]]
    <2>2. files' = [g \in Files |-> IF g = f THEN vs ELSE files[g]]
      BY <1>1, <2>1
    <2>3. vs = [j \in 1 .. (n - 1) |-> vs[j]]
      OBVIOUS
    <2>4. \A j \in 1 .. (n - 1) : \E m \in 1 .. n : vs[j] = ws[m]
      <3> TAKE j \in 1 .. (n - 1)
      <3>1. CASE j < i
        BY <1>2, <3>1
      <3>2. CASE ~ (j < i)
        BY <1>2, <3>2
      <3> QED
        BY <3>1, <3>2
    <2>5. n - 1 \in Nat
      BY <1>2
    <2> HIDE DEF vs
    <2>6. IsLog(vs, tried)
      BY <1>1, <1>2, <2>3, <2>4, <2>5, EditedLog
    <2> QED
      BY <1>3, <2>2, <2>6
  <1>6. CASE \E i \in 1 .. n, j \in 1 .. n : i < j /\ files' = [files EXCEPT ![f] =
                 [ws EXCEPT ![i] = ws[j], ![j] = ws[i]]]
    <2>1. PICK i \in 1 .. n, j \in 1 .. n : files' = [files EXCEPT ![f] =
                 [ws EXCEPT ![i] = ws[j], ![j] = ws[i]]]
      BY <1>6
    <2> DEFINE vs == [ws EXCEPT ![i] = ws[j], ![j] = ws[i]]
    <2>2. files' = [g \in Files |-> IF g = f THEN vs ELSE files[g]]
      BY <1>1, <2>1
    <2>3. vs = [m \in 1 .. n |-> vs[m]]
      BY <1>2
    <2>4. \A m \in 1 .. n : \E l \in 1 .. n : vs[m] = ws[l]
      BY <1>2
    <2> HIDE DEF vs
    <2>5. IsLog(vs, tried)
      BY <1>1, <1>2, <2>3, <2>4, EditedLog
    <2> QED
      BY <1>3, <2>2, <2>5
  <1> QED
    BY <1>4, <1>5, <1>6 DEF Edit
-----------------------------------------------------------------------------
(***************************************************************************)
(* The shape is kept.                                                      *)
(***************************************************************************)
LEMMA InitShape == Init => Shape
  <1> SUFFICES ASSUME Init PROVE Shape
    OBVIOUS
  <1>1. FilesShaped
    BY EmptyLog DEF Init, FilesShaped
  <1>2. CachesShaped
    BY DEF Init, CachesShaped
  <1>3. AppendsShaped
    BY DEF Init, AppendsShaped
  <1>4. CountersShaped
    BY ConstantsAssumption, FS_EmptySet DEF Init, CountersShaped
  <1> QED
    BY <1>1, <1>2, <1>3, <1>4 DEF Shape

LEMMA PrepareShape ==
    ASSUME Shape, NEW p \in Processes, NEW dir \in Dirs, NEW read \in BOOLEAN,
           Prepare(p, dir, read)
    PROVE  Shape'
  <1> DEFINE f == FileOf(dir)
             prev == PreviousHash(p, f, read)
             a == [file |-> f, prev |-> prev, body |-> tried + 1]
  <1>1. /\ tried' = tried + 1 /\ tried \in Nat
        /\ pending' = [q \in Processes |-> IF q = p THEN a ELSE pending[q]]
        /\ lastHash' = [q \in Processes |-> [g \in Files |-> lastHash'[q][g]]]
        /\ lastHash'[p][f] = prev
        /\ \A g \in Files \ {f} : lastHash'[p][g] \in {lastHash[p][g], None}
        /\ \A q \in Processes \ {p} : \A g \in Files : lastHash'[q][g] = lastHash[q][g]
    BY PrepareFacts
  <1>2. f \in Files /\ f[2] = day /\ day \in Nat
    BY FileOfToday, ConstantsAssumption DEF Shape, CountersShaped
  <1>3. prev = Genesis \/ IsHash(prev, tried)
    BY <1>2, PreviousHashFacts
  <1> HIDE DEF prev, f
  <1>4. prev = Genesis \/ (IsHash(prev, tried + 1) /\ prev[2] < tried + 1)
    <2>1. CASE IsHash(prev, tried)
      BY <1>1, <2>1, HashStays DEF IsHash
    <2> QED
      BY <1>3, <2>1
  <1>9. tried + 1 \in Nat /\ tried <= tried + 1
    BY <1>1
  <1>10. \A h : IsHash(h, tried) => IsHash(h, tried + 1)
    BY <1>1, <1>9, HashStays
  <1>11. \A ws : IsLog(ws, tried) => IsLog(ws, tried + 1)
    BY <1>1, <1>9, LogStays
  <1>5. FilesShaped'
    BY <1>1, <1>11 DEF Shape, FilesShaped, Prepare
  <1>6. CachesShaped'
    <2>1. ASSUME NEW q \in Processes, NEW g \in Files
          PROVE  lastHash'[q][g] \in {None, Genesis} \/ IsHash(lastHash'[q][g], tried + 1)
      <3>1. lastHash[q][g] \in {None, Genesis} \/ IsHash(lastHash[q][g], tried + 1)
        BY <1>10 DEF Shape, CachesShaped
      <3>2. CASE q = p /\ g = f
        BY <1>1, <1>4, <3>2
      <3>3. CASE ~ (q = p /\ g = f)
        BY <1>1, <3>1, <3>3
      <3> QED
        BY <3>2, <3>3
    <2> QED
      BY <1>1, <2>1 DEF CachesShaped
  <1>7. AppendsShaped'
    <2>1. IsAppend(a, tried + 1, day)
      BY <1>1, <1>2, <1>4 DEF IsAppend
    <2>2. ASSUME NEW q \in Processes, q # p, pending[q] # None
          PROVE  IsAppend(pending[q], tried + 1, day)
      <3> DEFINE b == pending[q]
      <3>1. IsAppend(b, tried, day)
        BY <2>2 DEF Shape, AppendsShaped
      <3> HIDE DEF b
      <3>2. b.prev = Genesis \/ (IsHash(b.prev, tried + 1) /\ b.prev[2] < b.body)
        BY <1>1, <1>10, <3>1 DEF IsAppend
      <3>3. IsAppend(b, tried + 1, day)
        BY <1>1, <3>1, <3>2 DEF IsAppend
      <3> QED
        BY <3>3 DEF b
    <2> HIDE DEF a
    <2>3. day' = day
      BY DEF Prepare
    <2> QED
      BY <1>1, <2>1, <2>2, <2>3 DEF AppendsShaped
  <1>8. CountersShaped'
    <2>1. tried' \in 0 .. MaxEntries
      BY <1>1, ConstantsAssumption DEF Prepare, Shape, CountersShaped
    <2>2. current' \in [Processes -> [Dirs -> 0 .. day]]
      BY <1>2 DEF Prepare, Shape, CountersShaped
    <2>3. hurt' \cup unread' \subseteq Files
      BY <1>2 DEF Prepare, ReadFails, Shape, CountersShaped, f
    <2> QED
      BY <2>1, <2>2, <2>3 DEF Prepare, Shape, CountersShaped
  <1> QED
    BY <1>5, <1>6, <1>7, <1>8 DEF Shape

\* A process is through with an append, however it ended.
LEMMA AppendEnds ==
    ASSUME Shape, NEW p \in Processes, pending' = [pending EXCEPT ![p] = None]
    PROVE  /\ pending' = [q \in Processes |-> IF q = p THEN None ELSE pending[q]]
           /\ UNCHANGED <<tried, day>> => AppendsShaped'
  <1>1. pending' = [q \in Processes |-> IF q = p THEN None ELSE pending[q]]
    BY DEF Shape, AppendsShaped
  <1> QED
    BY <1>1 DEF Shape, AppendsShaped

LEMMA FilesShapedNext ==
    ASSUME files' = [f \in Files |-> files'[f]], \A f \in Files : IsLog(files'[f], tried),
           UNCHANGED tried
    PROVE  FilesShaped'
  BY DEF FilesShaped

LEMMA Append1Shape ==
    ASSUME Shape, NEW p \in Processes, pending[p] # None, NEW ending \in Endings,
           Append1(p, ending), UNCHANGED <<tried, day, current, unread>>, hurt' \subseteq Files
    PROVE  FilesShaped' /\ CountersShaped'
  <1> DEFINE a == pending[p]
             w == Written(a.prev, a.body, ending)
  <1>1. /\ a.file \in Files
        /\ files' = [f \in Files |-> IF f = a.file THEN Append(files[f], w) ELSE files[f]]
        /\ \A f \in Files : IsLog(files'[f], tried)
        /\ writers' = [f \in Files |-> IF f = a.file THEN writers[f] \cup {p} ELSE writers[f]]
    BY Append1Facts
  <1> HIDE DEF a, w
  <1>2. files' = [f \in Files |-> files'[f]]
    BY <1>1
  <1>3. FilesShaped'
    BY <1>1, <1>2, FilesShapedNext
  <1>4. writers' \in [Files -> SUBSET Processes]
    BY <1>1 DEF Shape, CountersShaped
  <1>5. \A f \in Files : IsFiniteSet(writers'[f])
    <2>1. \A f \in Files : IsFiniteSet(writers[f] \cup {p})
      BY FS_AddElement DEF Shape, CountersShaped
    <2> QED
      BY <1>1, <2>1 DEF Shape, CountersShaped
  <1>6. CountersShaped'
    BY <1>4, <1>5 DEF Shape, CountersShaped
  <1> QED
    BY <1>3, <1>6

LEMMA WriteShape ==
    ASSUME Shape, NEW p \in Processes, Write(p)
    PROVE  Shape'
  <1> DEFINE a == pending[p]
             h == ComputeHash(a.prev, a.body)
  <1>1. a # None /\ Append1(p, "line") /\ UNCHANGED <<tried, day, current, hurt, unread>>
    BY DEF Write
  <1>2. FilesShaped' /\ CountersShaped'
    BY <1>1, Append1Shape DEF Endings, Shape, CountersShaped
  <1>3. AppendsShaped'
    BY <1>1, AppendEnds DEF Write
  <1>4. CachesShaped'
    <2>1. IsAppend(a, tried, day) /\ tried \in Nat
      BY <1>1, ConstantsAssumption DEF Shape, AppendsShaped, CountersShaped
    <2>2. IsHash(h, tried)
      BY <2>1, HashOfEntry DEF IsAppend
    <2>3. lastHash' = [lastHash EXCEPT ![p] = [lastHash[p] EXCEPT ![a.file] = h]]
      BY DEF Write
    <2> HIDE DEF h, a
    <2>4. lastHash' = [q \in Processes |-> [f \in Files |->
              IF q = p /\ f = a.file THEN h ELSE lastHash[q][f]]]
      BY <2>3 DEF Shape, CachesShaped
    <2>5. lastHash' = [q \in Processes |-> [f \in Files |-> lastHash'[q][f]]]
      BY <2>4
    <2>6. \A q \in Processes : \A f \in Files :
              lastHash'[q][f] \in {None, Genesis} \/ IsHash(lastHash'[q][f], tried)
      BY <2>2, <2>4 DEF Shape, CachesShaped
    <2> QED
      BY <1>1, <2>5, <2>6 DEF CachesShaped
  <1> QED
    BY <1>2, <1>3, <1>4 DEF Shape

LEMMA WriteFailsShape ==
    ASSUME Shape, NEW p \in Processes, WriteFails(p)
    PROVE  Shape'
  <1>1. pending[p] # None /\ UNCHANGED <<tried, day, current, lastHash, unread>>
    BY DEF WriteFails, KeepHash
  <1>2. AppendsShaped'
    BY <1>1, AppendEnds DEF WriteFails
  <1>3. CachesShaped'
    BY <1>1 DEF Shape, CachesShaped
  <1>4. CASE UNCHANGED <<files, writers, hurt>>
    BY <1>1, <1>2, <1>3, <1>4 DEF Shape, FilesShaped, CountersShaped
  <1>5. CASE \E ending \in Endings \ {"line"} :
                 Append1(p, ending) /\ hurt' = hurt \cup {pending[p].file}
    <2>1. PICK ending \in Endings : Append1(p, ending) /\ hurt' = hurt \cup {pending[p].file}
      BY <1>5
    <2>2. hurt' \subseteq Files
      BY <1>1, <2>1 DEF Shape, AppendsShaped, CountersShaped, IsAppend
    <2>3. FilesShaped' /\ CountersShaped'
      BY <1>1, <2>1, <2>2, Append1Shape
    <2> QED
      BY <1>2, <1>3, <2>3 DEF Shape
  <1> QED
    BY <1>4, <1>5 DEF WriteFails

LEMMA PeriodicPruneShape ==
    ASSUME Shape, NEW p \in Processes, PeriodicPrune(p)
    PROVE  Shape'
  <1>1. PICK gone : Prune(gone)
    BY DEF PeriodicPrune, PruneAgain
  <1>2. UNCHANGED <<day, lastHash, current, pending, tried, writers, hurt, unread>>
    BY DEF PeriodicPrune
  <1>3. FilesShaped'
    BY <1>1, <1>2, PruneFacts, FilesShapedNext
  <1> QED
    BY <1>2, <1>3 DEF Shape, CachesShaped, AppendsShaped, CountersShaped

LEMMA RestartFacts ==
    ASSUME Shape, NEW p \in Processes, Restart(p)
    PROVE  /\ lastHash' = [q \in Processes |-> [f \in Files |->
                  IF q = p THEN None ELSE lastHash[q][f]]]
           /\ current' \in [Processes -> [Dirs -> 0 .. day]]
           /\ \E gone : Prune(gone)
  <1>1. lastHash' = [q \in Processes |-> [f \in Files |-> IF q = p THEN None ELSE lastHash[q][f]]]
    BY DEF Restart, Shape, CachesShaped
  <1>2. day \in Nat
    BY ConstantsAssumption DEF Shape, CountersShaped
  <1>3. current' \in [Processes -> [Dirs -> 0 .. day]]
    BY <1>2 DEF Restart, Shape, CountersShaped
  <1> QED
    BY <1>1, <1>3 DEF Restart

LEMMA RestartShape ==
    ASSUME Shape, NEW p \in Processes, Restart(p)
    PROVE  Shape'
  <1>1. UNCHANGED <<day, tried, writers, hurt, unread>>
    BY DEF Restart
  <1>2. CachesShaped'
    BY <1>1, RestartFacts DEF Shape, CachesShaped
  <1>3. AppendsShaped'
    BY <1>1, AppendEnds DEF Restart
  <1>4. FilesShaped'
    BY <1>1, RestartFacts, PruneFacts, FilesShapedNext
  <1>5. CountersShaped'
    BY <1>1, RestartFacts DEF Shape, CountersShaped
  <1> QED
    BY <1>2, <1>3, <1>4, <1>5 DEF Shape

LEMMA EditShape ==
    ASSUME Shape, NEW f \in Files, Edit(f)
    PROVE  Shape'
  <1>1. UNCHANGED <<day, lastHash, current, pending, tried, writers>>
    BY DEF Edit
  <1>2. files' = [g \in Files |-> files'[g]] /\ \A g \in Files : IsLog(files'[g], tried)
    <2>1. files' = [g \in Files |-> IF g = f THEN files'[f] ELSE files[g]]
      BY EditFacts
    <2>2. \A g \in Files \ {f} : files'[g] = files[g]
      BY <2>1
    <2> QED
      BY <2>1, <2>2, EditFacts DEF Shape, FilesShaped
  <1>3. FilesShaped'
    BY <1>1, <1>2, FilesShapedNext
  <1>4. hurt' \subseteq Files /\ unread' = unread
    BY EditFacts DEF Edit
  <1> QED
    BY <1>1, <1>3, <1>4 DEF Shape, CachesShaped, AppendsShaped, CountersShaped

LEMMA TickShape ==
    ASSUME Shape, Tick
    PROVE  Shape'
  <1>1. day' = day + 1 /\ day \in Nat /\ day < LastDay /\ LastDay \in Nat
    BY ConstantsAssumption DEF Tick, Shape, CountersShaped
  <1>2. UNCHANGED <<files, lastHash, current, pending, tried, writers, hurt, unread>>
    BY DEF Tick
  <1>3. AppendsShaped'
    <2>1. ASSUME NEW p \in Processes, pending[p] # None PROVE IsAppend(pending[p], tried, day + 1)
      BY <1>1, <2>1 DEF Tick, Shape, AppendsShaped, IsAppend
    <2> QED
      BY <1>1, <1>2, <2>1 DEF AppendsShaped, Shape
  <1>4. CountersShaped'
    <2>1. current' \in [Processes -> [Dirs -> 0 .. day']]
      BY <1>1, <1>2 DEF Shape, CountersShaped
    <2> QED
      BY <1>1, <1>2, <2>1 DEF Shape, CountersShaped
  <1> QED
    BY <1>2, <1>3, <1>4 DEF Shape, FilesShaped, CachesShaped

LEMMA StepShape == Shape /\ [Next]_vars => Shape'
  <1> SUFFICES ASSUME Shape, [Next]_vars PROVE Shape'
    OBVIOUS
  <1>1. ASSUME NEW p \in Processes, NEW dir \in Dirs, NEW read \in BOOLEAN,
           Prepare(p, dir, read) PROVE Shape'
    BY <1>1, PrepareShape
  <1>2. ASSUME NEW p \in Processes, Write(p) PROVE Shape'
    BY <1>2, WriteShape
  <1>3. ASSUME NEW p \in Processes, WriteFails(p) PROVE Shape'
    BY <1>3, WriteFailsShape
  <1>4. ASSUME NEW p \in Processes, PeriodicPrune(p) PROVE Shape'
    BY <1>4, PeriodicPruneShape
  <1>5. ASSUME NEW p \in Processes, Restart(p) PROVE Shape'
    BY <1>5, RestartShape
  <1>6. ASSUME NEW f \in Files, Edit(f) PROVE Shape'
    BY <1>6, EditShape
  <1>7. CASE Tick
    BY <1>7, TickShape
  <1>8. CASE UNCHANGED vars
    BY <1>8 DEF vars, Shape, FilesShaped, CachesShaped, AppendsShaped, CountersShaped
  <1> QED
    BY <1>1, <1>2, <1>3, <1>4, <1>5, <1>6, <1>7, <1>8 DEF Next

LEMMA ShapeAlways == Spec => []Shape
  BY InitShape, StepShape, PTL DEF Spec

\* Types: the log keeps entries it computed, and an append goes to today's file or to that
\* of the day just over.
THEOREM AuditTypeCorrect == Spec => []TypeOK
  <1>1. Shape => TypeOK
    <2> SUFFICES ASSUME Shape PROVE TypeOK
      OBVIOUS
    <2>1. /\ day \in 1 .. LastDay /\ tried \in 0 .. MaxEntries
          /\ writers \in [Files -> SUBSET Processes] /\ hurt \cup unread \subseteq Files
          /\ \A p \in Processes : \A dir \in Dirs : current[p][dir] \in 0 .. day
      BY DEF Shape, CountersShaped
    <2>2. ASSUME NEW f \in Files, NEW i \in DOMAIN files[f]
          PROVE  files[f][i].body \in 0 .. MaxEntries /\ files[f][i].ending \in Endings
      <3>1. IsLog(files[f], tried)
        BY DEF Shape, FilesShaped
      <3>2. i \in 1 .. Len(files[f])
        BY <3>1 DEF IsLog, IsSequence
      <3>3. IsEntry(files[f][i], tried)
        BY <3>1, <3>2 DEF IsLog
      <3> QED
        BY <2>1, <3>3, ConstantsAssumption DEF IsEntry
    <2>3. ASSUME NEW p \in Processes, pending[p] # None
          PROVE  /\ pending[p].file[1] \in Dirs /\ pending[p].file[2] \in {day - 1, day}
                 /\ pending[p].body \in 1 .. tried
      BY <2>3 DEF Shape, AppendsShaped, IsAppend, Files
    <2> QED
      BY <2>1, <2>2, <2>3 DEF TypeOK
  <1> QED
    BY <1>1, ShapeAlways, PTL
-----------------------------------------------------------------------------
(***************************************************************************)
(* A verified chain is genuine, whoever edited the file.                   *)
(***************************************************************************)
\* An entry whose hash checks has the content it was hashed with, which is later than the
\* content of the entry it chains to.
LEMMA VerifiedEntry ==
    ASSUME NEW n \in Nat, NEW w, IsEntry(w, n), w.hash = ComputeHash(w.prev, w.body)
    PROVE  /\ w.body \in Nat /\ w.body # 0 /\ w.hash[1] = w.prev /\ w.hash[2] = w.body
           /\ w.prev = Genesis \/ w.prev[2] < w.body
  <1>1. IsHash(w.hash, n)
    BY DEF IsEntry
  <1>2. w.hash = <<w.prev, w.body>>
    BY DEF ComputeHash
  <1>3. w.hash[1] = w.prev /\ w.hash[2] = w.body
    BY <1>2
  <1> QED
    BY <1>1, <1>3 DEF IsHash

LEMMA HashIsNotGenesis == ASSUME NEW h, NEW n, IsHash(h, n) PROVE h # Genesis
  <1>1. <<h[1], h[2]>> # <<>>
    OBVIOUS
  <1> QED
    BY <1>1 DEF IsHash, Genesis

\* A VALID verdict means that the entries are those the server wrote, in the order of
\* writing, however the file was edited meanwhile: no edit can be re-chained.
THEOREM ValidLogsAreGenuine == Spec => []ValidMeansGenuine
  <1>1. Shape => ValidMeansGenuine
    <2> SUFFICES ASSUME Shape, NEW f \in Files, SaysValid(files[f])
                 PROVE  \A i, j \in DOMAIN files[f] :
                            /\ files[f][i].body # 0
                            /\ i < j => files[f][i].body < files[f][j].body
      BY DEF ValidMeansGenuine
    <2> DEFINE ws == files[f]
               n == Len(ws)
               body == [i \in 1 .. n |-> ws[i].body]
    <2>1. tried \in Nat /\ IsLog(ws, tried)
      BY ConstantsAssumption DEF Shape, FilesShaped, CountersShaped
    <2>2. n \in Nat /\ DOMAIN ws = 1 .. n
      BY <2>1 DEF IsLog, IsSequence
    <2>3. \A i \in 1 .. n : IsEntry(ws[i], tried)
      BY <2>1 DEF IsLog
    <2>4. \A i \in 1 .. n : /\ ws[i].prev = IF i = 1 THEN Genesis ELSE ws[i - 1].hash
                            /\ ws[i].hash = ComputeHash(ws[i].prev, ws[i].body)
      BY <2>2 DEF SaysValid, VerifyChain
    <2> HIDE DEF ws, n
    <2>5. ASSUME NEW i \in 1 .. n
          PROVE  /\ ws[i].body \in Nat /\ ws[i].body # 0 /\ ws[i].hash[2] = ws[i].body
                 /\ ws[i].prev = Genesis \/ ws[i].prev[2] < ws[i].body
      BY <2>1, <2>3, <2>4, VerifiedEntry
    <2>6. ASSUME NEW i \in 2 .. n
          PROVE  body[i - 1] < body[i]
      <3>1. i \in 1 .. n /\ i - 1 \in 1 .. n /\ i # 1
        BY <2>2
      <3>2. ws[i].prev = ws[i - 1].hash /\ IsHash(ws[i - 1].hash, tried)
        BY <2>3, <2>4, <3>1 DEF IsEntry
      <3>3. ws[i].prev # Genesis
        BY <3>2, HashIsNotGenesis
      <3>4. ws[i - 1].hash[2] < ws[i].body
        BY <2>5, <3>1, <3>2, <3>3
      <3>5. ws[i - 1].hash[2] = ws[i - 1].body
        BY <2>5, <3>1
      <3> QED
        BY <3>1, <3>4, <3>5
    <2>7. \A i \in 1 .. n : body[i] \in Nat
      BY <2>5
    <2>8. \A i, j \in 1 .. n : i < j => body[i] < body[j]
      <3> HIDE DEF body
      <3> QED
        BY <2>2, <2>6, <2>7, GrowingSequence
    <2>9. \A i, j \in 1 .. n : i < j => ws[i].body < ws[j].body
      BY <2>8
    <2> QED
      BY <2>2, <2>5, <2>9 DEF ws, n
  <1> QED
    BY <1>1, ShapeAlways, PTL
-----------------------------------------------------------------------------
(***************************************************************************)
(* The server takes back no recent entry.                                  *)
(***************************************************************************)
\* What a file keeps of its entries when it only grows.
Keeps(f) == \A i \in DOMAIN files[f] : i \in DOMAIN files'[f] /\ files'[f][i] = files[f][i]

LEMMA Append1Keeps ==
    ASSUME Shape, NEW p \in Processes, pending[p] # None, NEW ending \in Endings,
           Append1(p, ending), NEW f \in Files
    PROVE  Keeps(f)
  <1> DEFINE a == pending[p]
             w == Written(a.prev, a.body, ending)
  <1>1. files' = [g \in Files |-> IF g = a.file THEN Append(files[g], w) ELSE files[g]]
    BY Append1Facts
  <1> HIDE DEF a, w
  <1>2. IsSequence(files[f])
    BY DEF Shape, FilesShaped, IsLog
  <1>3. CASE f = a.file
    <2>1. files'[f] = Append(files[f], w)
      BY <1>1, <1>3
    <2>2. /\ IsSequence(files'[f]) /\ Len(files'[f]) = Len(files[f]) + 1
          /\ \A i \in 1 .. Len(files[f]) : files'[f][i] = files[f][i]
      BY <1>2, <2>1, AppendFacts
    <2>3. DOMAIN files[f] = 1 .. Len(files[f]) /\ Len(files[f]) \in Nat
      BY <1>2 DEF IsSequence
    <2>4. DOMAIN files'[f] = 1 .. Len(files'[f])
      BY <2>2 DEF IsSequence
    <2> QED
      BY <2>2, <2>3, <2>4 DEF Keeps
  <1>4. CASE f # a.file
    BY <1>1, <1>4 DEF Keeps
  <1> QED
    BY <1>3, <1>4

LEMMA PruneKeeps ==
    ASSUME Shape, NEW gone, Prune(gone), NEW f \in Files, day - f[2] < Retention
    PROVE  Keeps(f)
  <1>1. ~ Expired(f)
    BY ConstantsAssumption DEF Expired, Files, Shape, CountersShaped
  <1>2. files'[f] = files[f]
    BY <1>1, PruneFacts
  <1> QED
    BY <1>2 DEF Keeps

\* Whatever the server does, the file of a day within the retention only grows.
THEOREM ServerKeepsRecentEntries == Spec => RecentEntriesStay
  <1> DEFINE Step == \A f \in Files : day - f[2] < Retention /\ hurt' = hurt => Keeps(f)
  <1>1. Shape /\ [Next]_vars => Step
    <2> SUFFICES ASSUME Shape, [Next]_vars, NEW f \in Files, day - f[2] < Retention, hurt' = hurt
                 PROVE  Keeps(f)
      OBVIOUS
    <2>0. files' = files => Keeps(f)
      BY DEF Keeps
    <2>1. ASSUME NEW p \in Processes, NEW dir \in Dirs, NEW read \in BOOLEAN,
           Prepare(p, dir, read) PROVE Keeps(f)
      BY <2>0, <2>1 DEF Prepare
    <2>2. ASSUME NEW p \in Processes, Write(p) PROVE Keeps(f)
      BY <2>2, Append1Keeps DEF Write, Endings
    <2>3. ASSUME NEW p \in Processes, WriteFails(p) PROVE Keeps(f)
      BY <2>0, <2>3, Append1Keeps DEF WriteFails
    <2>4. ASSUME NEW p \in Processes, PeriodicPrune(p) PROVE Keeps(f)
      BY <2>4, PruneKeeps DEF PeriodicPrune, PruneAgain
    <2>5. ASSUME NEW p \in Processes, Restart(p) PROVE Keeps(f)
      BY <2>5, PruneKeeps DEF Restart
    <2>6. ASSUME NEW g \in Files, Edit(g) PROVE Keeps(f)
      BY <2>6, EditFacts
    <2>7. CASE Tick
      BY <2>0, <2>7 DEF Tick
    <2>8. CASE UNCHANGED vars
      BY <2>0, <2>8 DEF vars
    <2> QED
      BY <2>1, <2>2, <2>3, <2>4, <2>5, <2>6, <2>7, <2>8 DEF Next
  <1>2. Step => [\A f \in Files : day - f[2] < Retention /\ hurt' = hurt =>
                    \A i \in DOMAIN files[f] :
                        i \in DOMAIN files'[f] /\ files'[f][i] = files[f][i]]_vars
    BY DEF Keeps
  <1> QED
    BY <1>1, <1>2, ShapeAlways, PTL DEF Spec, RecentEntriesStay
-----------------------------------------------------------------------------
(***************************************************************************)
(* The chain of a file with one writer.                                    *)
(***************************************************************************)
LastOf(ws) == IF Len(ws) = 0 THEN Genesis ELSE ws[Len(ws)].hash

\* Files whose chain may be broken.
Spoilt == hurt \cup unread

\* At most one process wrote to the file.
OneWriter(f) == \A p, q \in writers[f] : p = q

\* Where no write was cut short, all are lines; with one writer, they chain.
Chained ==
    \A f \in Files : f \notin Spoilt =>
        /\ \A i \in 1 .. Len(files[f]) : files[f][i].ending = "line"
        /\ OneWriter(f) => VerifyChain(files[f])

\* The hash the only writer of a file has cached is that of the last entry, until the file
\* is past the retention: then another process may have deleted it.
CacheTrue ==
    \A p \in Processes : \A f \in Files :
        f \notin Spoilt /\ ~ Expired(f) /\ writers[f] \subseteq {p} /\ lastHash[p][f] # None
            => lastHash[p][f] = LastOf(files[f])

\* So is the one its append under way chains to.
AppendTrue ==
    \A p \in Processes :
        LET a == pending[p] IN
        a # None /\ a.file \notin Spoilt /\ writers[a.file] \subseteq {p} => a.prev = LastOf(files[a.file])

ChainInv == Shape /\ Chained /\ CacheTrue /\ AppendTrue

LEMMA AtMostOne ==
    ASSUME NEW W, IsFiniteSet(W), Cardinality(W) <= 1, NEW p \in W, NEW q \in W
    PROVE  p = q
  <1> SUFFICES ASSUME p # q PROVE FALSE
    OBVIOUS
  <1>1. IsFiniteSet({p}) /\ Cardinality({p}) = 1
    BY FS_Singleton
  <1>2. IsFiniteSet(W \ {p}) /\ Cardinality(W \ {p}) = Cardinality(W) - 1 /\ Cardinality(W) \in Nat
    BY FS_RemoveElement, FS_CardinalityType
  <1>3. Cardinality(W \ {p}) = 0
    BY <1>2, FS_CardinalityType
  <1>4. W \ {p} = {}
    BY <1>2, <1>3, FS_EmptySet
  <1> QED
    BY <1>4

LEMMA PreviousIsLast ==
    ASSUME ChainInv, NEW p \in Processes, NEW f \in Files,
           f \notin Spoilt, ~ Expired(f), writers[f] \subseteq {p}
    PROVE  PreviousHash(p, f, TRUE) = LastOf(files[f])
  <1> DEFINE ws == files[f]
  <1>1. IsLog(ws, tried) /\ Len(ws) \in Nat /\ ws = [i \in 1 .. Len(ws) |-> ws[i]]
    BY DEF ChainInv, Shape, FilesShaped, IsLog, IsSequence
  <1>2. \A i \in 1 .. Len(ws) : ws[i].ending = "line"
    BY DEF ChainInv, Chained
  <1>3. CASE Cached(p, f) # None
    BY <1>3 DEF ChainInv, CacheTrue, Cached, PreviousHash
  <1>4. CASE Cached(p, f) = None
    <2>1. PreviousHash(p, f, TRUE) = LoadLastHash(f, TRUE)
      BY <1>4 DEF PreviousHash
    <2>2. CASE Len(ws) = 0
      <3>1. ws = <<>>
        <4> HIDE DEF ws
        <4>1. ws = [i \in 1 .. 0 |-> ws[i]]
          BY <1>1, <2>2
        <4> QED
          BY <4>1
      <3> QED
        BY <2>1, <2>2, <3>1 DEF LoadLastHash, LastOf
    <2>3. CASE Len(ws) # 0
      <3>1. ws # <<>>
        BY <2>3, EmptyLog, <1>1
      <3>2. Len(ws) \in 1 .. Len(ws)
        BY <1>1, <2>3
      <3>3. Readable(ws, Len(ws))
        <4> HIDE DEF ws
        <4>1. ws[Len(ws)].ending = "line"
          BY <1>2, <3>2
        <4>2. Len(ws) > 1 => ws[Len(ws) - 1].ending = "line"
          BY <1>1, <1>2
        <4> QED
          BY <1>1, <4>1, <4>2 DEF Readable
      <3> QED
        BY <2>1, <2>3, <3>1, <3>3 DEF LoadLastHash, LastOf
    <2> QED
      BY <2>2, <2>3
  <1> QED
    BY <1>3, <1>4

LEMMA InitChain == Init => ChainInv
  <1> SUFFICES ASSUME Init PROVE ChainInv
    OBVIOUS
  <1>1. \A f \in Files : Len(files[f]) = 0
    BY EmptyLog DEF Init
  <1>2. DOMAIN <<>> = {}
    OBVIOUS
  <1>3. Chained
    BY <1>1, <1>2 DEF Init, Chained, VerifyChain
  <1>4. CacheTrue /\ AppendTrue
    BY DEF Init, CacheTrue, AppendTrue
  <1> QED
    BY <1>3, <1>4, InitShape DEF ChainInv

LEMMA PrepareChain ==
    ASSUME ChainInv, Retention > 1, NEW p \in Processes, NEW dir \in Dirs, NEW read \in BOOLEAN,
           Prepare(p, dir, read)
    PROVE  ChainInv'
  <1> DEFINE f == FileOf(dir)
             prev == PreviousHash(p, f, read)
             a == [file |-> f, prev |-> prev, body |-> tried + 1]
  <1>0. Shape /\ Shape'
    BY PrepareShape DEF ChainInv
  <1>1. /\ pending' = [q \in Processes |-> IF q = p THEN a ELSE pending[q]]
        /\ lastHash'[p][f] = prev
        /\ \A g \in Files \ {f} : lastHash'[p][g] \in {lastHash[p][g], None}
        /\ \A q \in Processes \ {p} : \A g \in Files : lastHash'[q][g] = lastHash[q][g]
    BY <1>0, PrepareFacts
  <1>2. UNCHANGED <<day, files, writers>> /\ Spoilt \subseteq Spoilt' /\ (f \in Spoilt' \/ read = TRUE)
    BY DEF Prepare, ReadFails, Spoilt
  <1>3. f \in Files /\ f[2] = day /\ day \in Nat
    BY <1>0, FileOfToday, ConstantsAssumption DEF Shape, CountersShaped
  <1>4. ~ Expired(f)
    BY <1>3, ConstantsAssumption DEF Expired
  <1>5. f \notin Spoilt' /\ writers[f] \subseteq {p} => prev = LastOf(files[f])
    BY <1>2, <1>3, <1>4, PreviousIsLast
  <1>6. a.file = f /\ a.prev = prev
    OBVIOUS
  <1> HIDE DEF prev, f, a
  <1>7. Chained'
    BY <1>2 DEF ChainInv, Chained, OneWriter
  <1>8. CacheTrue'
    <2> SUFFICES ASSUME NEW q \in Processes, NEW g \in Files, g \notin Spoilt', ~ Expired(g),
                        writers[g] \subseteq {q}, lastHash'[q][g] # None
                 PROVE  lastHash'[q][g] = LastOf(files[g])
      BY <1>2 DEF CacheTrue, Expired
    <2>1. CASE q = p /\ g = f
      BY <1>1, <1>5, <2>1
    <2>2. CASE ~ (q = p /\ g = f)
      BY <1>1, <1>2, <2>2 DEF ChainInv, CacheTrue
    <2> QED
      BY <2>1, <2>2
  <1>9. AppendTrue'
    BY <1>1, <1>2, <1>5, <1>6 DEF ChainInv, AppendTrue
  <1> QED
    BY <1>0, <1>7, <1>8, <1>9 DEF ChainInv

\* One more line, chained to the last, of the only process that writes to the file.
LEMMA ChainGrows ==
    ASSUME NEW n, NEW ws, IsLog(ws, n), VerifyChain(ws), NEW w,
           w.prev = LastOf(ws), w.hash = ComputeHash(w.prev, w.body)
    PROVE  VerifyChain(Append(ws, w))
  <1> DEFINE vs == Append(ws, w)
  <1>1. /\ IsSequence(vs) /\ Len(vs) = Len(ws) + 1 /\ IsSequence(ws)
        /\ \A i \in 1 .. Len(ws) : vs[i] = ws[i]
        /\ vs[Len(ws) + 1] = w
    BY AppendFacts DEF IsLog
  <1> HIDE DEF vs
  <1>2. Len(ws) \in Nat /\ DOMAIN ws = 1 .. Len(ws) /\ DOMAIN vs = 1 .. Len(ws) + 1
    BY <1>1 DEF IsSequence
  <1>3. ASSUME NEW i \in 1 .. Len(ws) + 1
        PROVE  /\ vs[i].prev = IF i = 1 THEN Genesis ELSE vs[i - 1].hash
               /\ vs[i].hash = ComputeHash(vs[i].prev, vs[i].body)
    <2>1. CASE i = Len(ws) + 1
      BY <1>1, <1>2, <2>1 DEF LastOf
    <2>2. CASE i # Len(ws) + 1
      <3>1. i \in 1 .. Len(ws) /\ (i # 1 => i - 1 \in 1 .. Len(ws))
        BY <1>2, <2>2
      <3> QED
        BY <1>1, <1>2, <3>1 DEF VerifyChain
    <2> QED
      BY <2>1, <2>2
  <1>4. VerifyChain(vs)
    BY <1>2, <1>3 DEF VerifyChain
  <1> QED
    BY <1>4 DEF vs

\* An append goes to a file that no process deletes: the log keeps more than a day.
LEMMA AppendsAreRecent ==
    ASSUME Shape, Retention > 1, NEW p \in Processes, pending[p] # None
    PROVE  ~ Expired(pending[p].file)
  <1>1. pending[p].file[2] \in {day - 1, day} /\ day \in Nat /\ day >= 1
    BY ConstantsAssumption DEF Shape, AppendsShaped, CountersShaped, IsAppend
  <1> QED
    BY <1>1, ConstantsAssumption DEF Expired

LEMMA WriteChain ==
    ASSUME ChainInv, NEW p \in Processes, Write(p)
    PROVE  ChainInv'
  <1> DEFINE a == pending[p]
             f == a.file
             w == Written(a.prev, a.body, "line")
             h == ComputeHash(a.prev, a.body)
  <1>0. Shape /\ Shape'
    BY WriteShape DEF ChainInv
  <1>1. a # None /\ Append1(p, "line") /\ day' = day /\ Spoilt' = Spoilt /\ "line" \in Endings
    BY DEF Write, Endings, Spoilt
  <1>2. /\ f \in Files
        /\ files' = [g \in Files |-> IF g = f THEN Append(files[g], w) ELSE files[g]]
        /\ writers' = [g \in Files |-> IF g = f THEN writers[g] \cup {p} ELSE writers[g]]
    BY <1>0, <1>1, Append1Facts
  <1>3. lastHash' = [lastHash EXCEPT ![p] = [lastHash[p] EXCEPT ![f] = h]]
    BY DEF Write
  <1>4. pending' = [q \in Processes |-> IF q = p THEN None ELSE pending[q]]
    BY <1>0, AppendEnds DEF Write
  <1>5. w.prev = a.prev /\ w.hash = h /\ w.body = a.body /\ w.ending = "line"
    BY DEF Written
  <1>6. f \notin Spoilt /\ writers[f] \subseteq {p} => a.prev = LastOf(files[f])
    BY <1>1 DEF ChainInv, AppendTrue
  <1>7. w.hash = ComputeHash(w.prev, w.body) /\ w.prev = a.prev
    BY <1>5
  <1>8. IsLog(files[f], tried)
    BY <1>0, <1>2 DEF Shape, FilesShaped
  <1> HIDE DEF w, h, f, a
  <1>9. /\ Len(Append(files[f], w)) = Len(files[f]) + 1 /\ Len(files[f]) \in Nat
        /\ \A i \in 1 .. Len(files[f]) : Append(files[f], w)[i] = files[f][i]
        /\ Append(files[f], w)[Len(files[f]) + 1] = w
    BY <1>8, AppendFacts DEF IsLog, IsSequence
  <1>10. lastHash' = [q \in Processes |-> [g \in Files |-> IF q = p /\ g = f THEN h ELSE lastHash[q][g]]]
    BY <1>0, <1>3 DEF Shape, CachesShaped
  <1>11. files'[f] = Append(files[f], w) /\ \A g \in Files \ {f} : files'[g] = files[g]
    BY <1>2
  <1>12. writers'[f] = writers[f] \cup {p} /\ \A g \in Files \ {f} : writers'[g] = writers[g]
    BY <1>2
  <1>13. LastOf(files'[f]) = h
    BY <1>5, <1>9, <1>11 DEF LastOf
  <1>14. Chained'
    <2> SUFFICES ASSUME NEW g \in Files, g \notin Spoilt
                 PROVE  /\ \A i \in 1 .. Len(files'[g]) : files'[g][i].ending = "line"
                        /\ OneWriter(g)' => VerifyChain(files'[g])
      BY <1>1 DEF Chained
    <2>1. CASE g = f
      <3>1. \A i \in 1 .. Len(files'[f]) : files'[f][i].ending = "line"
        <4> SUFFICES ASSUME NEW i \in 1 .. Len(files'[f]) PROVE files'[f][i].ending = "line"
          OBVIOUS
        <4>1. CASE i = Len(files[f]) + 1
          BY <1>5, <1>9, <1>11, <4>1
        <4>2. CASE i # Len(files[f]) + 1
          <5>1. i \in 1 .. Len(files[f])
            BY <1>9, <1>11, <4>2
          <5> QED
            BY <1>2, <1>9, <1>11, <2>1, <5>1 DEF ChainInv, Chained
        <4> QED
          BY <4>1, <4>2
      <3>2. ASSUME OneWriter(g)' PROVE VerifyChain(files'[f])
        <4>0. writers'[g] = writers[g] \cup {p}
          BY <1>12, <2>1
        <4>1. writers[f] \subseteq {p} /\ OneWriter(f)
          BY <2>1, <3>2, <4>0 DEF OneWriter
        <4>2. VerifyChain(files[f]) /\ w.prev = LastOf(files[f])
          BY <1>2, <1>6, <1>7, <2>1, <4>1 DEF ChainInv, Chained
        <4> QED
          BY <1>7, <1>8, <1>11, <4>2, ChainGrows
      <3> QED
        BY <2>1, <3>1, <3>2
    <2>2. CASE g # f
      BY <1>11, <1>12, <2>2 DEF ChainInv, Chained, OneWriter
    <2> QED
      BY <2>1, <2>2
  <1>15. CacheTrue'
    <2> SUFFICES ASSUME NEW q \in Processes, NEW g \in Files, g \notin Spoilt, ~ Expired(g),
                        writers'[g] \subseteq {q}, lastHash'[q][g] # None
                 PROVE  lastHash'[q][g] = LastOf(files'[g])
      BY <1>1 DEF CacheTrue, Expired
    <2>1. CASE g = f
      BY <1>10, <1>12, <1>13, <2>1
    <2>2. CASE g # f
      BY <1>10, <1>11, <1>12, <2>2 DEF ChainInv, CacheTrue
    <2> QED
      BY <2>1, <2>2
  <1>16. AppendTrue'
    <2> SUFFICES ASSUME NEW q \in Processes, q # p, pending[q] # None, pending[q].file \notin Spoilt,
                        writers'[pending[q].file] \subseteq {q}
                 PROVE  pending[q].prev = LastOf(files'[pending[q].file])
      BY <1>1, <1>4 DEF AppendTrue
    <2>1. pending[q].file \in Files
      BY <1>0 DEF Shape, AppendsShaped, IsAppend
    <2>2. pending[q].file # f
      BY <1>12
    <2> QED
      BY <1>11, <1>12, <2>1, <2>2 DEF ChainInv, AppendTrue
  <1> QED
    BY <1>0, <1>14, <1>15, <1>16 DEF ChainInv

LEMMA WriteFailsChain ==
    ASSUME ChainInv, NEW p \in Processes, WriteFails(p)
    PROVE  ChainInv'
  <1> DEFINE f == pending[p].file
  <1>0. Shape /\ Shape'
    BY WriteFailsShape DEF ChainInv
  <1>1. UNCHANGED <<day, lastHash>>
    BY DEF WriteFails, KeepHash
  <1>2. pending' = [q \in Processes |-> IF q = p THEN None ELSE pending[q]]
    BY <1>0, AppendEnds DEF WriteFails
  <1>3. Spoilt \subseteq Spoilt' /\ \A g \in Files \ Spoilt' : files'[g] = files[g] /\ writers'[g] = writers[g]
    <2>0. unread' = unread
      BY DEF WriteFails
    <2>1. CASE UNCHANGED <<files, writers, hurt>>
      BY <2>0, <2>1 DEF Spoilt
    <2>2. CASE \E ending \in Endings \ {"line"} :
                   Append1(p, ending) /\ hurt' = hurt \cup {pending[p].file}
      <3>1. PICK ending \in Endings : Append1(p, ending) /\ hurt' = hurt \cup {f}
        BY <2>2
      <3>2. pending[p] # None
        BY DEF WriteFails
      <3>3. \A g \in Files : g # f => files'[g] = files[g] /\ writers'[g] = writers[g]
        BY <1>0, <3>1, <3>2, Append1Facts
      <3> QED
        BY <2>0, <3>1, <3>3 DEF Spoilt
    <2> QED
      BY <2>1, <2>2 DEF WriteFails
  <1>4. Chained'
    BY <1>3 DEF ChainInv, Chained, OneWriter
  <1>5. CacheTrue'
    BY <1>1, <1>3 DEF ChainInv, CacheTrue, Expired
  <1>6. AppendTrue'
    <2>1. \A q \in Processes : pending[q] # None => pending[q].file \in Files
      BY <1>0 DEF Shape, AppendsShaped, IsAppend
    <2> QED
      BY <1>2, <1>3, <2>1 DEF ChainInv, AppendTrue
  <1> QED
    BY <1>0, <1>4, <1>5, <1>6 DEF ChainInv

\* Files past the retention go; nobody's chain hangs on them.
LEMMA PruneChain ==
    ASSUME ChainInv, Retention > 1, NEW gone, Prune(gone),
           UNCHANGED <<day, tried, writers, hurt, unread>>,
           \A q \in Processes : pending'[q] \in {pending[q], None},
           \A q \in Processes : \A f \in Files : lastHash'[q][f] \in {lastHash[q][f], None}
    PROVE  Chained' /\ CacheTrue' /\ AppendTrue'
  <1>0. Spoilt' = Spoilt
    BY DEF Spoilt
  <1>1. \A f \in Files : files'[f] = files[f] \/ (Expired(f) /\ files'[f] = <<>>)
    BY PruneFacts DEF ChainInv
  <1>2. Chained'
    <2>1. Len(<<>>) = 0 /\ VerifyChain(<<>>)
      <3>1. DOMAIN <<>> = {} /\ Len(<<>>) = 0
        BY EmptyLog
      <3> QED
        BY <3>1 DEF VerifyChain
    <2>2. ASSUME NEW f \in Files, f \notin Spoilt
          PROVE  /\ \A i \in 1 .. Len(files'[f]) : files'[f][i].ending = "line"
                 /\ OneWriter(f) => VerifyChain(files'[f])
      BY <1>1, <2>1, <2>2 DEF ChainInv, Chained
    <2> QED
      BY <1>0, <2>2 DEF Chained, OneWriter
  <1>3. CacheTrue'
    BY <1>0, <1>1 DEF ChainInv, CacheTrue, Expired
  <1>4. AppendTrue'
    <2> SUFFICES ASSUME NEW q \in Processes, pending'[q] # None, pending'[q].file \notin Spoilt,
                        writers[pending'[q].file] \subseteq {q}
                 PROVE  pending'[q].prev = LastOf(files'[pending'[q].file])
      BY <1>0 DEF AppendTrue
    <2>1. pending'[q] = pending[q] /\ pending[q] # None
      OBVIOUS
    <2>2. pending[q].file \in Files /\ ~ Expired(pending[q].file)
      BY <2>1, AppendsAreRecent DEF ChainInv, Shape, AppendsShaped, IsAppend
    <2> QED
      BY <1>1, <2>1, <2>2 DEF ChainInv, AppendTrue
  <1> QED
    BY <1>2, <1>3, <1>4

LEMMA PeriodicPruneChain ==
    ASSUME ChainInv, Retention > 1, NEW p \in Processes, PeriodicPrune(p)
    PROVE  ChainInv'
  <1>1. PICK gone : Prune(gone)
    BY DEF PeriodicPrune, PruneAgain
  <1>2. UNCHANGED <<day, lastHash, pending, tried, writers, hurt, unread>>
    BY DEF PeriodicPrune
  <1> QED
    BY <1>1, <1>2, PruneChain, PeriodicPruneShape DEF ChainInv

LEMMA RestartChain ==
    ASSUME ChainInv, Retention > 1, NEW p \in Processes, Restart(p)
    PROVE  ChainInv'
  <1>1. PICK gone : Prune(gone)
    BY DEF Restart
  <1>2. UNCHANGED <<day, tried, writers, hurt, unread>>
    BY DEF Restart
  <1>3. \A q \in Processes : pending'[q] \in {pending[q], None}
    BY AppendEnds DEF Restart, ChainInv
  <1>4. \A q \in Processes : \A f \in Files : lastHash'[q][f] \in {lastHash[q][f], None}
    BY RestartFacts DEF ChainInv
  <1> QED
    BY <1>1, <1>2, <1>3, <1>4, PruneChain, RestartShape DEF ChainInv

LEMMA EditChain ==
    ASSUME ChainInv, NEW f \in Files, Edit(f)
    PROVE  ChainInv'
  <1>1. UNCHANGED <<day, lastHash, pending, tried, writers, unread>>
    BY DEF Edit
  <1>2. Spoilt' = Spoilt \cup {f} /\ \A g \in Files \ {f} : files'[g] = files[g]
    BY <1>1, EditFacts DEF ChainInv, Spoilt
  <1>3. Chained'
    BY <1>1, <1>2 DEF ChainInv, Chained, OneWriter
  <1>4. CacheTrue'
    BY <1>1, <1>2 DEF ChainInv, CacheTrue, Expired
  <1>5. AppendTrue'
    <2>1. \A q \in Processes : pending[q] # None => pending[q].file \in Files
      BY DEF ChainInv, Shape, AppendsShaped, IsAppend
    <2> QED
      BY <1>1, <1>2, <2>1 DEF ChainInv, AppendTrue
  <1> QED
    BY <1>3, <1>4, <1>5, EditShape DEF ChainInv

LEMMA TickChain ==
    ASSUME ChainInv, Tick
    PROVE  ChainInv'
  <1>1. UNCHANGED <<files, lastHash, pending, tried, writers>> /\ Spoilt' = Spoilt
    BY DEF Tick, Spoilt
  <1>2. \A f \in Files : Expired(f) => Expired(f)'
    BY ConstantsAssumption DEF Tick, Expired, Files, ChainInv, Shape, CountersShaped
  <1>3. CacheTrue'
    BY <1>1, <1>2 DEF ChainInv, CacheTrue
  <1> QED
    BY <1>1, <1>3, TickShape DEF ChainInv, Chained, OneWriter, AppendTrue

LEMMA StepChain == Retention > 1 /\ ChainInv /\ [Next]_vars => ChainInv'
  <1> SUFFICES ASSUME Retention > 1, ChainInv, [Next]_vars PROVE ChainInv'
    OBVIOUS
  <1>1. ASSUME NEW p \in Processes, NEW dir \in Dirs, NEW read \in BOOLEAN,
           Prepare(p, dir, read) PROVE ChainInv'
    BY <1>1, PrepareChain
  <1>2. ASSUME NEW p \in Processes, Write(p) PROVE ChainInv'
    BY <1>2, WriteChain
  <1>3. ASSUME NEW p \in Processes, WriteFails(p) PROVE ChainInv'
    BY <1>3, WriteFailsChain
  <1>4. ASSUME NEW p \in Processes, PeriodicPrune(p) PROVE ChainInv'
    BY <1>4, PeriodicPruneChain
  <1>5. ASSUME NEW p \in Processes, Restart(p) PROVE ChainInv'
    BY <1>5, RestartChain
  <1>6. ASSUME NEW f \in Files, Edit(f) PROVE ChainInv'
    BY <1>6, EditChain
  <1>7. CASE Tick
    BY <1>7, TickChain
  <1>8. CASE UNCHANGED vars
    <2>1. Shape'
      BY StepShape DEF ChainInv
    <2> QED
      BY <1>8, <2>1 DEF vars, ChainInv, Chained, OneWriter, CacheTrue, AppendTrue, Expired, Spoilt
  <1> QED
    BY <1>1, <1>2, <1>3, <1>4, <1>5, <1>6, <1>7, <1>8 DEF Next

\* While the log keeps more than one day, the file of a directory and a day that only one
\* process wrote to, and could read whenever it wanted its last hash, verifies: over
\* midnight, restarts, failed appends and prunes.
THEOREM OneWriterVerifies == Retention > 1 => (Spec => []ChainValid)
  <1> SUFFICES ASSUME Retention > 1 PROVE Spec => []ChainValid
    OBVIOUS
  <1>1. ChainInv => ChainValid
    <2> SUFFICES ASSUME ChainInv, NEW f \in Files, f \notin Spoilt, Cardinality(writers[f]) <= 1
                 PROVE  SaysValid(files[f])
      BY DEF ChainValid, Spoilt
    <2>1. IsFiniteSet(writers[f])
      BY DEF ChainInv, Shape, CountersShaped
    <2>2. OneWriter(f)
      BY <2>1, AtMostOne DEF OneWriter
    <2>3. /\ IsSequence(files[f]) /\ VerifyChain(files[f])
          /\ \A i \in 1 .. Len(files[f]) : files[f][i].ending = "line"
      BY <2>2 DEF ChainInv, Chained, Shape, FilesShaped, IsLog
    <2> DEFINE ws == files[f]
    <2>4. DOMAIN ws = 1 .. Len(ws) /\ Len(ws) \in Nat
      BY <2>3 DEF IsSequence
    <2> HIDE DEF ws
    <2>5. ASSUME NEW i \in 1 .. Len(ws), \A j \in 1 .. Len(ws) : ws[j].ending = "line"
          PROVE  Readable(ws, i)
      BY <2>4, <2>5 DEF Readable
    <2> QED
      BY <2>3, <2>4, <2>5 DEF SaysValid, ws
  <1>2. Init => ChainInv
    BY InitChain
  <1>3. ChainInv /\ [Next]_vars => ChainInv'
    BY StepChain
  <1> QED
    BY <1>1, <1>2, <1>3, PTL DEF Spec
=============================================================================
