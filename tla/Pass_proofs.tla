---------------------------- MODULE Pass_proofs -----------------------------
(* What holds of Pass and PassStore for all hosts, users, tabs and bounds.   *)
EXTENDS Pass, FiniteSetTheorems, FunctionTheorems, SequenceTheorems, WellFoundedInduction, TLAPS

-----------------------------------------------------------------------------
(* The invariant.                                                            *)

AllRecords == [key : Name, body : Body]
AllTargets == [tab : Tab] \cup [tab : Tab, id : Nat]
AllQueries == [kind : {"query"}, host : Host, user : Name \cup {Wildcard},
               field : Field \cup {Wildcard}, todo : Seq(Name), records : Seq(AllRecords),
               for : AllTargets]
AllRemovals == [kind : {"forget"}, host : Host, name : Name,
                result : {"none", "removed", "failed"}, for : [tab : Tab]]
AllTasks == AllQueries \cup AllRemovals
AllPages == [host : Host, field : Field, promises : SUBSET Promise, next : Nat,
             scanned : BOOLEAN, submitted : BOOLEAN]
AllPickers == [tab : Tab, records : Seq(AllRecords), built : BOOLEAN,
               needle : Name \cup {Wildcard}, row : Nat]

StoreOK ==
    /\ store \in [Host -> [Name -> Body \cup {Absent}]]
    /\ \A h \in Host : IsFiniteSet(Stored(store, h))
    /\ cache \in [Host -> Seq(Name)]
    /\ tasks \in Seq(AllTasks)
UIOK ==
    /\ enabled \in BOOLEAN /\ open \subseteq Tab /\ deny \subseteq Host
    /\ mode \in [Tab -> {"n", "P", "F"}]
    /\ events \in 0 .. MaxEvents

\* A client has at most one save that is pending, and one that its pages asked
\* for while the prompt is open.
SavesOK ==
    /\ pending \in [Tab -> SUBSET Request] /\ asked \in [Tab -> SUBSET Request]
    /\ wanted \in [Tab -> SUBSET Request]
    /\ \A t \in Tab : /\ pending[t] = {} \/ \E r \in Request : pending[t] = {r}
                      /\ mode[t] = "P" => pending[t] \subseteq wanted[t]

\* A page asks at most four times: for the names and for a form when it is
\* scanned, once more when the form is not known, and when it is submitted.
IsFill(x) == x.why = "fill"
Retries(p) == IF \E x \in p.promises : IsFill(x) THEN 1 ELSE 0
Asks(p) == (IF p.scanned THEN 3 ELSE 0) + (IF p.submitted THEN 1 ELSE 0)
PageOK(p) ==
    /\ \A x \in p.promises : x.why = "submit" => x.secret \in Secret
    /\ \A x, y \in p.promises : IsFill(x) /\ IsFill(y) => x = y
    /\ ~p.scanned => \A x \in p.promises : ~IsFill(x)
    /\ p.next + Retries(p) <= Asks(p)
PagesOK ==
    /\ page \in [Tab -> AllPages]
    /\ \A t \in Tab : PageOK(page[t])

\* The selected row is a record, and one that the filter lets through.
PickerOK(c) ==
    /\ c \in AllPickers /\ c.row \in DOMAIN c.records
    /\ Rows(c) # {} => c.row \in Rows(c)
FillOK == fill = {} \/ \E c \in AllPickers : fill = {c} /\ PickerOK(c)

Inv == StoreOK /\ CacheIsStore /\ UIOK /\ SavesOK /\ PagesOK /\ FillOK

-----------------------------------------------------------------------------
(* Sets and sequences.                                                       *)

\* A set of numbers that is not empty has a least one.
LEMMA LeastNumber ==
    ASSUME NEW T, T \subseteq Nat, T # {}
    PROVE  \E x \in T : \A y \in T : x <= y
  <1> DEFINE R == OpToRel(<, Nat)
  <1>1. IsWellFoundedOn(R, Nat)
    BY NatLessThanWellFounded
  <1> HIDE DEF R
  <1>2. PICK x \in T : \A y \in T : ~ (<<y, x>> \in R)
    BY <1>1, WFMin
  <1>3. \A y \in T : y < x => <<y, x>> \in R
    BY DEF R, OpToRel
  <1>4. \A y \in T : ~ (y < x)
    BY <1>2, <1>3
  <1>5. \A y \in T : x <= y
    BY <1>4
  <1> QED
    BY <1>5

\* The names of a directory, listed in some order: each of them once.
LEMMA ListOfSet ==
    ASSUME NEW S, IsFiniteSet(S)
    PROVE  /\ SetToSeq(S) \in Seq(S)
           /\ ToSet(SetToSeq(S)) = S
           /\ IsInjective(SetToSeq(S))
  <1> DEFINE n == Cardinality(S)
             f == SetToSeq(S)
  <1>1. n \in Nat /\ ExistsBijection(1 .. n, S)
    BY FS_CardinalityType
  <1>2. PICK g : g \in Bijection(1 .. n, S)
    BY <1>1 DEF ExistsBijection
  <1>3. g \in [1 .. n -> S] /\ IsInjective(g)
    BY <1>2 DEF Bijection, Injection
  <1>4. f \in [1 .. n -> S] /\ IsInjective(f)
    <2>1. \E h \in [1 .. n -> S] : IsInjective(h)
      BY <1>3
    <2> DEFINE k == CHOOSE h \in [1 .. n -> S] : IsInjective(h)
    <2>2. k \in [1 .. n -> S] /\ IsInjective(k)
      BY <2>1, Zenon
    <2> QED
      BY <2>2, Zenon DEF SetToSeq
  <1>5. f \in Injection(1 .. n, S)
    BY <1>4 DEF Injection
  <1>6. IsFiniteSet(1 .. n) /\ Cardinality(1 .. n) = n
    <2>1. IsFiniteSet(1 .. n) /\ Cardinality(1 .. n) = IF 1 > n THEN 0 ELSE n - 1 + 1
      BY <1>1, FS_Interval
    <2> HIDE DEF n
    <2> QED
      BY <1>1, <2>1
  <1> HIDE DEF f
  <1>7. f \in Surjection(1 .. n, S)
    BY <1>5, <1>6, FS_Injection
  <1>8. \A x \in S : \E i \in 1 .. n : f[i] = x
    BY <1>7 DEF Surjection
  <1>9. f \in Seq(S) /\ DOMAIN f = 1 .. n
    <2> HIDE DEF n
    <2> QED
      BY <1>1, <1>4
  <1>10. ToSet(f) = S
    BY <1>4, <1>8, <1>9 DEF ToSet
  <1> QED
    BY <1>4, <1>9, <1>10 DEF f

\* What is left when one element of a sequence is removed.
LEMMA RemoveOne ==
    ASSUME NEW T, NEW s \in Seq(T), NEW i \in DOMAIN s
    PROVE  /\ RemoveAt(s, i) \in Seq(T)
           /\ \A j \in DOMAIN s : j # i => \E k \in DOMAIN RemoveAt(s, i) : RemoveAt(s, i)[k] = s[j]
  <1> DEFINE n == Len(s)
             a == SubSeq(s, 1, i - 1)
             b == SubSeq(s, i + 1, n)
             r == a \o b
  <1>1. n \in Nat /\ DOMAIN s = 1 .. n /\ i \in 1 .. n
    BY LenProperties
  <1>2. /\ a \in Seq(T) /\ Len(a) = i - 1
        /\ \A k \in 1 .. i - 1 : a[k] = s[k]
    BY <1>1, SubSeqProperties
  <1>3. /\ b \in Seq(T) /\ Len(b) = n - i
        /\ \A k \in 1 .. n - i : b[k] = s[i + k]
    <2> DEFINE m == i + 1
    <2>1. m \in Int /\ n \in Int /\ m = i + 1 /\ \A k \in m .. n : s[k] \in T
      BY <1>1
    <2>2. b = SubSeq(s, m, n)
      OBVIOUS
    <2> HIDE DEF b, m, n
    <2>3. /\ b \in Seq(T) /\ Len(b) = IF m <= n THEN n - m + 1 ELSE 0
          /\ \A k \in 1 .. n - m + 1 : b[k] = s[m + k - 1]
      BY <2>1, <2>2, SubSeqProperties
    <2>4. n - m + 1 = n - i /\ \A k \in 1 .. n - i : m + k - 1 = i + k
      BY <1>1, <2>1
    <2>5. Len(b) = n - i
      <3>1. m <= n \/ n = i
        BY <1>1, <2>1
      <3>2. CASE m <= n
        BY <2>3, <2>4, <3>2
      <3>3. CASE n = i
        <4>1. ~(m <= n) /\ n - i = 0
          BY <1>1, <2>1, <3>3
        <4> QED
          BY <2>3, <4>1
      <3> QED
        BY <3>1, <3>2, <3>3
    <2> QED
      BY <2>3, <2>4, <2>5
  <1> HIDE DEF a, b, n
  <1>4. /\ r \in Seq(T) /\ Len(r) = n - 1
        /\ \A k \in 1 .. n - 1 : r[k] = IF k <= i - 1 THEN a[k] ELSE b[k - (i - 1)]
    <2>1. /\ r \in Seq(T) /\ Len(r) = Len(a) + Len(b)
          /\ \A k \in 1 .. Len(a) + Len(b) : r[k] = IF k <= Len(a) THEN a[k] ELSE b[k - Len(a)]
      BY <1>2, <1>3, ConcatProperties
    <2>2. Len(a) = i - 1 /\ Len(a) + Len(b) = n - 1
      BY <1>1, <1>2, <1>3
    <2> HIDE DEF r
    <2> QED
      BY <2>1, <2>2
  <1>5. RemoveAt(s, i) = r
    BY DEF RemoveAt, a, b, n
  <1> HIDE DEF r
  <1>6. ASSUME NEW j \in 1 .. n, j # i
        PROVE  \E k \in 1 .. n - 1 : r[k] = s[j]
    <2>1. CASE j < i
      <3>1. j \in 1 .. n - 1 /\ j \in 1 .. i - 1
        BY <1>1, <2>1
      <3> QED
        BY <1>2, <1>4, <3>1
    <2>2. CASE j > i
      <3>1. j - 1 \in 1 .. n - 1 /\ ~(j - 1 <= i - 1) /\ j - i \in 1 .. n - i
            /\ (j - 1) - (i - 1) = j - i /\ i + (j - i) = j
        BY <1>1, <2>2
      <3>2. r[j - 1] = b[j - i] /\ b[j - i] = s[j]
        BY <1>3, <1>4, <3>1
      <3> QED
        BY <3>1, <3>2
    <2> QED
      BY <1>1, <1>6, <2>1, <2>2
  <1>7. DOMAIN r = 1 .. n - 1
    BY <1>1, <1>4, LenProperties
  <1> QED
    BY <1>1, <1>4, <1>5, <1>6, <1>7

-----------------------------------------------------------------------------
(* The store and the cache.                                                  *)

\* A task removed the entry and did not call back yet.
Gone(ts, h, n) ==
    \E i \in DOMAIN ts : /\ ts[i].kind = "forget" /\ ts[i].host = h /\ ts[i].name = n
                         /\ ts[i].result = "removed"

\* The cache stays good as long as no removal that is under way gets lost.
LEMMA CacheStays ==
    ASSUME CacheIsStore, UNCHANGED <<store, cache>>,
           \A h \in Host, n \in Name : Gone(tasks, h, n) => Gone(tasks', h, n),
           cache \in [Host -> Seq(Name)]
    PROVE  CacheIsStore'
  <1>1. ASSUME NEW h \in Host
        PROVE  /\ Stored(store', h) \subseteq ToSet(cache'[h])
               /\ \A n \in ToSet(cache'[h]) \ Stored(store', h) : Gone(tasks', h, n)
               /\ IsInjective(cache'[h])
    <2>1. ToSet(cache[h]) \subseteq Name
      BY DEF ToSet
    <2>2. \A n \in ToSet(cache[h]) \ Stored(store, h) : Gone(tasks, h, n)
      BY DEF CacheIsStore, Gone
    <2> QED
      BY <2>1, <2>2 DEF CacheIsStore
  <1> QED
    BY <1>1 DEF CacheIsStore, Gone

\* What is stored of a host is as it was where the host's entries are.
LEMMA StoredSame ==
    ASSUME NEW st, NEW new, NEW h, st[h] = new[h]
    PROVE  Stored(st, h) = Stored(new, h)
  BY DEF Stored

\* After a refresh the cache has the names of the store, of that host.
LEMMA RefreshStep ==
    ASSUME StoreOK, CacheIsStore, NEW h \in Host, RefreshCache(h),
           store' \in [Host -> [Name -> Body \cup {Absent}]],
           IsFiniteSet(Stored(store', h)),
           \A g \in Host : g # h => store'[g] = store[g],
           \A g \in Host, n \in Name : g # h /\ Gone(tasks, g, n) => Gone(tasks', g, n)
    PROVE  /\ cache' \in [Host -> Seq(Name)]
           /\ \A g \in Host : IsFiniteSet(Stored(store', g))
           /\ CacheIsStore'
  <1> DEFINE S == Stored(store', h)
             new == Listing(store', h)
  <1>1. cache' = [cache EXCEPT ![h] = new] /\ cache \in [Host -> Seq(Name)]
    BY DEF RefreshCache, StoreOK
  <1>2. new \in Seq(S) /\ ToSet(new) = S /\ IsInjective(new)
    <2>1. new = SetToSeq(S) /\ IsFiniteSet(S)
      BY DEF Listing
    <2> HIDE DEF new, S
    <2> QED
      BY <2>1, ListOfSet
  <1>3. S \subseteq Name
    BY DEF Stored
  <1> HIDE DEF S, new
  <1>4. new \in Seq(Name)
    BY <1>2, <1>3, SeqMonotonic
  <1>5. cache' \in [Host -> Seq(Name)] /\ cache'[h] = new /\ \A g \in Host : g # h => cache'[g] = cache[g]
    BY <1>1, <1>4
  <1>6. \A g \in Host : g # h => Stored(store', g) = Stored(store, g)
    BY StoredSame
  <1>7. ASSUME NEW g \in Host
        PROVE  /\ Stored(store', g) \subseteq ToSet(cache'[g])
               /\ \A n \in ToSet(cache'[g]) \ Stored(store', g) : Gone(tasks', g, n)
               /\ IsInjective(cache'[g])
    <2>1. CASE g = h
      BY <1>2, <1>5, <2>1 DEF S
    <2>2. CASE g # h
      <3>1. ToSet(cache[g]) \subseteq Name
        BY <1>1 DEF ToSet
      <3>2. /\ Stored(store, g) \subseteq ToSet(cache[g]) /\ IsInjective(cache[g])
            /\ \A n \in ToSet(cache[g]) \ Stored(store, g) : Gone(tasks, g, n)
        BY DEF CacheIsStore, Gone
      <3>3. cache'[g] = cache[g] /\ Stored(store', g) = Stored(store, g)
        BY <1>5, <1>6, <2>2
      <3> QED
        BY <2>2, <3>1, <3>2, <3>3
    <2> QED
      BY <2>1, <2>2
  <1>8. CacheIsStore'
    BY <1>7 DEF CacheIsStore, Gone
  <1>9. \A g \in Host : IsFiniteSet(Stored(store', g))
    BY <1>6 DEF StoreOK
  <1> QED
    BY <1>5, <1>8, <1>9

\* A save changes one entry and removes none; the cache follows at once.
LEMMA SaveStep ==
    ASSUME StoreOK, CacheIsStore, NEW h \in Host, NEW b \in Body,
           Save(h, b), tasks' = tasks
    PROVE  /\ StoreOK' /\ CacheIsStore'
           /\ \A g \in Host, n \in Name : store'[g][n] # store[g][n] =>
                  g = h /\ store'[g][n] = b
  <1>0. b.name \in Name
    BY DEF Body
  <1>1. CASE UNCHANGED <<store, cache>>
    <2>1. CacheIsStore'
      BY <1>1, CacheStays DEF StoreOK
    <2>2. StoreOK'
      BY <1>1 DEF StoreOK, Stored
    <2> QED
      BY <1>1, <2>1, <2>2
  <1>2. CASE /\ store' = [store EXCEPT ![h][b.name] = b]
             /\ RefreshCache(h)
    <2>1. /\ store' \in [Host -> [Name -> Body \cup {Absent}]]
          /\ \A g \in Host : g # h => store'[g] = store[g]
          /\ store'[h][b.name] = b
          /\ \A n \in Name : n # b.name => store'[h][n] = store[h][n]
      BY <1>0, <1>2 DEF StoreOK
    <2>2. IsFiniteSet(Stored(store', h))
      <3>1. Stored(store', h) \subseteq Stored(store, h) \cup {b.name}
        BY <2>1 DEF Stored
      <3>2. IsFiniteSet(Stored(store, h) \cup {b.name})
        BY FS_AddElement DEF StoreOK
      <3> QED
        BY <3>1, <3>2, FS_Subset
    <2>3. /\ cache' \in [Host -> Seq(Name)] /\ CacheIsStore'
          /\ \A g \in Host : IsFiniteSet(Stored(store', g))
      BY <1>2, <2>1, <2>2, RefreshStep DEF Gone
    <2>4. StoreOK'
      BY <2>1, <2>3 DEF StoreOK
    <2> QED
      BY <2>1, <2>3, <2>4
  <1> QED
    BY <1>1, <1>2 DEF Save

\* Tasks of either kind.
LEMMA TaskTypes ==
    ASSUME NEW x \in AllTasks
    PROVE  /\ x.kind \in {"query", "forget"} /\ x.host \in Host /\ x.for.tab \in Tab
           /\ x.kind = "query" => x \in AllQueries
           /\ x.kind = "forget" => x \in AllRemovals
  BY DEF AllTasks, AllQueries, AllRemovals, AllTargets

\* Show: a query goes on.
LEMMA ShowStep ==
    ASSUME StoreOK, CacheIsStore, NEW i \in DOMAIN tasks, Show(i)
    PROVE  /\ StoreOK' /\ CacheIsStore' /\ UNCHANGED store
           /\ \A x \in DOMAIN tasks : tasks[x].kind = "forget" => x \in DOMAIN tasks' /\ tasks'[x] = tasks[x]
  <1> DEFINE q == tasks[i]
             n == Head(q.todo)
             b == store[q.host][n]
  <1>1. q \in AllQueries /\ q.kind = "query" /\ q.todo # <<>>
    BY TaskTypes DEF Show, StoreOK
  <1>2. n \in Name /\ Tail(q.todo) \in Seq(Name) /\ q.host \in Host /\ q.records \in Seq(AllRecords)
    BY <1>1, HeadTailProperties DEF AllQueries
  <1>3. b \in Body \cup {Absent}
    BY <1>2 DEF StoreOK
  <1>4. PICK new \in AllQueries : tasks' = [tasks EXCEPT ![i] = new]
    <2>1. CASE /\ Matches(q, n, b)
               /\ tasks' = [tasks EXCEPT ![i] =
                              [q EXCEPT !.todo = Tail(@), !.records = Append(@, [key |-> n, body |-> b])]]
      <3> DEFINE r == [key |-> n, body |-> b]
                 rest == Tail(q.todo)
                 new == [q EXCEPT !.todo = rest, !.records = Append(q.records, r)]
      <3>1. r \in AllRecords
        BY <1>2, <1>3, <2>1 DEF Matches, AllRecords
      <3>2. tasks' = [tasks EXCEPT ![i] = new]
        BY <1>1, <2>1 DEF AllQueries
      <3>3. rest \in Seq(Name)
        BY <1>2
      <3> HIDE DEF r, rest
      <3>4. Append(q.records, r) \in Seq(AllRecords)
        BY <1>2, <3>1, AppendProperties
      <3> HIDE DEF q
      <3>5. new \in AllQueries
        BY <1>1, <3>3, <3>4 DEF AllQueries
      <3> QED
        BY <3>2, <3>5
    <2>2. CASE tasks' = [tasks EXCEPT ![i].todo = Tail(@)]
      <3> DEFINE rest == Tail(q.todo)
                 new == [q EXCEPT !.todo = rest]
      <3>1. tasks' = [tasks EXCEPT ![i] = new]
        BY <2>2
      <3>2. rest \in Seq(Name)
        BY <1>2
      <3> HIDE DEF rest, q
      <3>3. new \in AllQueries
        BY <1>1, <3>2 DEF AllQueries
      <3> QED
        BY <3>1, <3>3
    <2> QED
      BY <2>1, <2>2 DEF Show
  <1>5. UNCHANGED <<store, cache>>
    BY DEF Show
  <1>6. tasks' \in Seq(AllTasks) /\ DOMAIN tasks' = DOMAIN tasks
    BY <1>4, ExceptSeq DEF StoreOK, AllTasks
  <1>7. \A x \in DOMAIN tasks : x # i => tasks'[x] = tasks[x]
    BY <1>4
  <1>8. \A x \in DOMAIN tasks : tasks[x].kind = "forget" => x \in DOMAIN tasks' /\ tasks'[x] = tasks[x]
    BY <1>1, <1>6, <1>7
  <1>9. CacheIsStore'
    <2>1. \A h \in Host, m \in Name : Gone(tasks, h, m) => Gone(tasks', h, m)
      BY <1>8 DEF Gone
    <2> QED
      BY <1>5, <2>1, CacheStays DEF StoreOK
  <1>10. StoreOK'
    BY <1>5, <1>6 DEF StoreOK, Stored
  <1> QED
    BY <1>5, <1>8, <1>9, <1>10

\* RemoveEntry: an entry is gone, and its name stays in the cache until the task
\* calls back.
LEMMA RemoveEntryStep ==
    ASSUME StoreOK, CacheIsStore, NEW i \in DOMAIN tasks, RemoveEntry(i)
    PROVE  /\ StoreOK' /\ CacheIsStore'
           /\ \A h \in Host, n \in Name : store'[h][n] # store[h][n] =>
                  /\ store'[h][n] = Absent
                  /\ tasks[i].kind = "forget" /\ tasks[i].host = h /\ tasks[i].name = n
  <1> DEFINE f == tasks[i]
  <1>1. f \in AllRemovals /\ f.kind = "forget" /\ f.result = "none" /\ f.host \in Host /\ f.name \in Name
    BY TaskTypes DEF RemoveEntry, StoreOK, AllRemovals
  <1>2. cache' = cache
    BY DEF RemoveEntry
  <1>3. ASSUME NEW result \in {"removed", "failed"}, tasks' = [tasks EXCEPT ![i].result = result]
        PROVE  /\ tasks' \in Seq(AllTasks) /\ DOMAIN tasks' = DOMAIN tasks
               /\ \A x \in DOMAIN tasks : x # i => tasks'[x] = tasks[x]
               /\ tasks'[i].result = result /\ tasks'[i].kind = "forget"
               /\ tasks'[i].host = f.host /\ tasks'[i].name = f.name
    <2> DEFINE new == [f EXCEPT !.result = result]
    <2>1. tasks' = [tasks EXCEPT ![i] = new]
      BY <1>3
    <2>2. /\ new \in AllRemovals /\ new.result = result /\ new.kind = "forget"
          /\ new.host = f.host /\ new.name = f.name
      <3> HIDE DEF f
      <3> QED
        BY <1>1 DEF AllRemovals
    <2> HIDE DEF new
    <2>3. tasks' \in Seq(AllTasks) /\ DOMAIN tasks' = DOMAIN tasks
      BY <2>1, <2>2, ExceptSeq DEF StoreOK, AllTasks
    <2> QED
      BY <2>1, <2>2, <2>3
  <1>4. CASE /\ tasks' = [tasks EXCEPT ![i].result = "failed"]
             /\ UNCHANGED store
    <2>1. \A h \in Host, m \in Name : Gone(tasks, h, m) => Gone(tasks', h, m)
      BY <1>1, <1>3, <1>4 DEF Gone
    <2>2. CacheIsStore'
      BY <1>2, <1>4, <2>1, CacheStays DEF StoreOK
    <2>3. StoreOK'
      BY <1>2, <1>3, <1>4 DEF StoreOK, Stored
    <2> QED
      BY <1>4, <2>2, <2>3
  <1>5. CASE /\ store[f.host][f.name] # Absent
             /\ store' = [store EXCEPT ![f.host][f.name] = Absent]
             /\ tasks' = [tasks EXCEPT ![i].result = "removed"]
    <2> HIDE DEF f
    <2>1. /\ store' \in [Host -> [Name -> Body \cup {Absent}]]
          /\ \A g \in Host : g # f.host => store'[g] = store[g]
          /\ store'[f.host][f.name] = Absent
          /\ \A n \in Name : n # f.name => store'[f.host][n] = store[f.host][n]
      BY <1>1, <1>5 DEF StoreOK
    <2>2. \A h \in Host : Stored(store', h) = Stored(store, h) \ (IF h = f.host THEN {f.name} ELSE {})
      BY <1>1, <2>1 DEF Stored
    <2>3. \A h \in Host : IsFiniteSet(Stored(store', h))
      <3>1. ASSUME NEW h \in Host PROVE IsFiniteSet(Stored(store', h))
        <4>1. Stored(store', h) \subseteq Stored(store, h) /\ IsFiniteSet(Stored(store, h))
          BY <2>2 DEF StoreOK
        <4> QED
          BY <4>1, FS_Subset
      <3> QED
        BY <3>1
    <2>4. \A h \in Host, m \in Name : Gone(tasks, h, m) => Gone(tasks', h, m)
      BY <1>1, <1>3, <1>5 DEF Gone, f
    <2>5. Gone(tasks', f.host, f.name)
      BY <1>1, <1>3, <1>5 DEF Gone
    <2>6. ASSUME NEW h \in Host
          PROVE  /\ Stored(store', h) \subseteq ToSet(cache'[h])
                 /\ \A n \in ToSet(cache'[h]) \ Stored(store', h) : Gone(tasks', h, n)
                 /\ IsInjective(cache'[h])
      <3>1. ToSet(cache[h]) \subseteq Name
        BY DEF ToSet, StoreOK
      <3>2. /\ Stored(store, h) \subseteq ToSet(cache[h]) /\ IsInjective(cache[h])
            /\ \A n \in ToSet(cache[h]) \ Stored(store, h) : Gone(tasks, h, n)
        BY DEF CacheIsStore, Gone
      <3> QED
        BY <1>2, <2>2, <2>4, <2>5, <3>1, <3>2
    <2>7. CacheIsStore'
      BY <2>6 DEF CacheIsStore, Gone
    <2>8. StoreOK'
      BY <1>2, <1>3, <1>5, <2>1, <2>3 DEF StoreOK
    <2>9. \A h \in Host, n \in Name : store'[h][n] # store[h][n] =>
              store'[h][n] = Absent /\ f.host = h /\ f.name = n
      BY <2>1
    <2> QED
      BY <1>1, <2>7, <2>8, <2>9 DEF f
  <1> QED
    BY <1>4, <1>5 DEF RemoveEntry

\* Forgotten: the cache follows, and only for the host of the task.
LEMMA ForgottenStep ==
    ASSUME StoreOK, CacheIsStore, NEW i \in DOMAIN tasks, ForgetFinish(i), tasks' = RemoveAt(tasks, i)
    PROVE  StoreOK' /\ CacheIsStore' /\ UNCHANGED store
  <1> DEFINE f == tasks[i]
  <1>1. f \in AllRemovals /\ f.kind = "forget" /\ f.host \in Host /\ UNCHANGED store
    BY TaskTypes DEF ForgetFinish, StoreOK, AllRemovals
  <1>2. /\ tasks' \in Seq(AllTasks)
        /\ \A j \in DOMAIN tasks : j # i => \E k \in DOMAIN tasks' : tasks'[k] = tasks[j]
    BY RemoveOne DEF StoreOK
  <1>3. CASE f.result = "removed"
    <2>1. RefreshCache(f.host)
      BY <1>3 DEF ForgetFinish
    <2>2. \A g \in Host, n \in Name : g # f.host /\ Gone(tasks, g, n) => Gone(tasks', g, n)
      <3> SUFFICES ASSUME NEW g \in Host, NEW n \in Name, g # f.host, Gone(tasks, g, n)
                   PROVE  Gone(tasks', g, n)
        OBVIOUS
      <3>1. PICK j \in DOMAIN tasks : /\ tasks[j].kind = "forget" /\ tasks[j].host = g
                                      /\ tasks[j].name = n /\ tasks[j].result = "removed"
        BY DEF Gone
      <3>2. PICK k \in DOMAIN tasks' : tasks'[k] = tasks[j]
        BY <1>2, <3>1
      <3> QED
        BY <3>1, <3>2 DEF Gone
    <2>3. /\ store' \in [Host -> [Name -> Body \cup {Absent}]]
          /\ IsFiniteSet(Stored(store', f.host))
          /\ \A g \in Host : store'[g] = store[g]
      BY <1>1 DEF StoreOK, Stored
    <2> HIDE DEF f
    <2>4. /\ cache' \in [Host -> Seq(Name)] /\ CacheIsStore'
          /\ \A g \in Host : IsFiniteSet(Stored(store', g))
      BY <1>1, <2>1, <2>2, <2>3, RefreshStep
    <2> QED
      BY <1>1, <1>2, <2>3, <2>4 DEF StoreOK
  <1>4. CASE f.result # "removed"
    <2>1. cache' = cache
      BY <1>4 DEF ForgetFinish
    <2>2. \A g \in Host, n \in Name : Gone(tasks, g, n) => Gone(tasks', g, n)
      <3> SUFFICES ASSUME NEW g \in Host, NEW n \in Name, Gone(tasks, g, n)
                   PROVE  Gone(tasks', g, n)
        OBVIOUS
      <3>1. PICK j \in DOMAIN tasks : /\ tasks[j].kind = "forget" /\ tasks[j].host = g
                                      /\ tasks[j].name = n /\ tasks[j].result = "removed"
        BY DEF Gone
      <3>2. PICK k \in DOMAIN tasks' : tasks'[k] = tasks[j]
        BY <1>2, <1>4, <3>1
      <3> QED
        BY <3>1, <3>2 DEF Gone
    <2>3. CacheIsStore'
      BY <1>1, <2>1, <2>2, CacheStays DEF StoreOK
    <2> QED
      BY <1>1, <1>2, <2>1, <2>3 DEF StoreOK, Stored
  <1> QED
    BY <1>3, <1>4

\* Tasks that are new, and a query that called back, leave the cache alone.
LEMMA TasksStep ==
    ASSUME StoreOK, CacheIsStore, NEW ts,
           \/ ts = tasks
           \/ \E i \in DOMAIN tasks : tasks[i].kind = "query" /\ ts = RemoveAt(tasks, i),
           tasks' = ts \/ \E x \in AllTasks : tasks' = Append(ts, x),
           UNCHANGED <<store, cache>>
    PROVE  StoreOK' /\ CacheIsStore'
  <1>1. /\ ts \in Seq(AllTasks)
        /\ \A h \in Host, n \in Name : Gone(tasks, h, n) => Gone(ts, h, n)
    <2>1. CASE ts = tasks
      BY <2>1 DEF StoreOK
    <2>2. ASSUME NEW i \in DOMAIN tasks, tasks[i].kind = "query", ts = RemoveAt(tasks, i)
          PROVE  /\ ts \in Seq(AllTasks)
                 /\ \A h \in Host, n \in Name : Gone(tasks, h, n) => Gone(ts, h, n)
      <3>1. /\ ts \in Seq(AllTasks)
            /\ \A j \in DOMAIN tasks : j # i => \E k \in DOMAIN ts : ts[k] = tasks[j]
        BY <2>2, RemoveOne DEF StoreOK
      <3>2. ASSUME NEW h \in Host, NEW n \in Name, Gone(tasks, h, n) PROVE Gone(ts, h, n)
        <4>1. PICK j \in DOMAIN tasks : /\ tasks[j].kind = "forget" /\ tasks[j].host = h
                                        /\ tasks[j].name = n /\ tasks[j].result = "removed"
          BY <3>2 DEF Gone
        <4>2. PICK k \in DOMAIN ts : ts[k] = tasks[j]
          BY <2>2, <3>1, <4>1
        <4> QED
          BY <4>1, <4>2 DEF Gone
      <3> QED
        BY <3>1, <3>2
    <2> QED
      BY <2>1, <2>2
  <1>2. /\ tasks' \in Seq(AllTasks)
        /\ \A h \in Host, n \in Name : Gone(ts, h, n) => Gone(tasks', h, n)
    <2>1. CASE tasks' = ts
      BY <1>1, <2>1
    <2>2. ASSUME NEW x \in AllTasks, tasks' = Append(ts, x)
          PROVE  /\ tasks' \in Seq(AllTasks)
                 /\ \A h \in Host, n \in Name : Gone(ts, h, n) => Gone(tasks', h, n)
      <3>1. /\ tasks' \in Seq(AllTasks) /\ \A k \in DOMAIN ts : k \in DOMAIN tasks' /\ tasks'[k] = ts[k]
        BY <1>1, <2>2, AppendProperties
      <3> QED
        BY <3>1 DEF Gone
    <2> QED
      BY <2>1, <2>2
  <1>3. \A h \in Host, n \in Name : Gone(tasks, h, n) => Gone(tasks', h, n)
    BY <1>1, <1>2
  <1>4. CacheIsStore'
    BY <1>3, CacheStays DEF StoreOK
  <1> QED
    BY <1>2, <1>4 DEF StoreOK, Stored

-----------------------------------------------------------------------------
(* The save prompt.                                                          *)

\* A save that is requested is pending and wanted, or nothing happens.
LEMMA RequestSaveStep ==
    ASSUME UIOK, SavesOK, NEW t \in Tab, NEW r \in Request, RequestSave(t, r)
    PROVE  SavesOK' /\ mode' \in [Tab -> {"n", "P", "F"}]
  <1>1. CASE r.host \in deny \/ ~enabled
    BY <1>1 DEF RequestSave, SavesOK, UIOK
  <1>2. CASE ~(r.host \in deny \/ ~enabled)
    <2>1. /\ pending' = [pending EXCEPT ![t] = {r}]
          /\ asked' = IF mode[t] = "P" THEN asked ELSE [asked EXCEPT ![t] = {r}]
          /\ mode' = [mode EXCEPT ![t] = "P"]
          /\ wanted' = [wanted EXCEPT ![t] = @ \cup {r}]
      BY <1>2 DEF RequestSave, Mode
    <2>2. /\ pending' \in [Tab -> SUBSET Request] /\ asked' \in [Tab -> SUBSET Request]
          /\ wanted' \in [Tab -> SUBSET Request]
          /\ mode' \in [Tab -> {"n", "P", "F"}]
      BY <2>1 DEF SavesOK, UIOK
    <2>3. ASSUME NEW u \in Tab
          PROVE  /\ pending'[u] = {} \/ \E x \in Request : pending'[u] = {x}
                 /\ mode'[u] = "P" => pending'[u] \subseteq wanted'[u]
      <3>1. CASE u = t
        BY <2>1, <3>1 DEF SavesOK
      <3>2. CASE u # t
        BY <2>1, <3>2 DEF SavesOK, UIOK
      <3> QED
        BY <3>1, <3>2
    <2> QED
      BY <2>2, <2>3 DEF SavesOK
  <1> QED
    BY <1>1, <1>2

\* A client that is in another mode than the prompt does not disturb the saves.
LEMMA ModeStep ==
    ASSUME UIOK, SavesOK, NEW t \in Tab, NEW m \in {"n", "F"}, mode' = [mode EXCEPT ![t] = m],
           UNCHANGED <<pending, asked, wanted>>
    PROVE  SavesOK' /\ mode' \in [Tab -> {"n", "P", "F"}]
  BY DEF SavesOK, UIOK

-----------------------------------------------------------------------------
(* The pages.                                                                *)

\* A page without promises.
LEMMA NewPageOK ==
    ASSUME NEW h \in Host, NEW f \in Field
    PROVE  NewPage(h, f) \in AllPages /\ PageOK(NewPage(h, f))
  BY DEF NewPage, AllPages, PageOK, Retries, Asks

\* A page of its parts.
LEMMA PageType ==
    ASSUME NEW h \in Host, NEW f \in Field, NEW ps \in SUBSET Promise, NEW n \in Nat,
           NEW a \in BOOLEAN, NEW b \in BOOLEAN
    PROVE  [host |-> h, field |-> f, promises |-> ps, next |-> n, scanned |-> a, submitted |-> b] \in AllPages
  BY DEF AllPages

\* What PageOK says but for the number of questions.
Promises(p) ==
    /\ \A x \in p.promises : x.why = "submit" => x.secret \in Secret
    /\ \A x, y \in p.promises : IsFill(x) /\ IsFill(y) => x = y
    /\ ~p.scanned => \A x \in p.promises : ~IsFill(x)

\* One question more.
LEMMA PageAsked ==
    ASSUME NEW p \in AllPages, Promises(p), NEW x \in Promise, x.why = "submit" => x.secret \in Secret,
           IsFill(x) => p.scanned /\ \A y \in p.promises : ~IsFill(y),
           p.next + 1 + (IF IsFill(x) THEN 1 ELSE Retries(p)) <= Asks(p), NEW q,
           q = [p EXCEPT !.next = @ + 1, !.promises = @ \cup {x}]
    PROVE  q \in AllPages /\ PageOK(q)
  <1>1. /\ q.host = p.host /\ q.field = p.field /\ q.promises = p.promises \cup {x} /\ q.next = p.next + 1
        /\ q.promises \subseteq Promise /\ p.next \in Nat
    BY DEF AllPages
  <1>2. q.scanned = p.scanned /\ q.submitted = p.submitted
    BY Zenon DEF AllPages
  <1>3. q \in AllPages
    <2> DEFINE more == p.promises \cup {x}
               next == p.next + 1
    <2>1. more \in SUBSET Promise /\ next \in Nat
      BY DEF AllPages
    <2>2. q = [p EXCEPT !.next = next, !.promises = more]
      OBVIOUS
    <2> HIDE DEF more, next
    <2>3. q = [host |-> p.host, field |-> p.field, promises |-> more, next |-> next,
               scanned |-> p.scanned, submitted |-> p.submitted]
      BY <2>2 DEF AllPages
    <2>4. p.host \in Host /\ p.field \in Field
      BY DEF AllPages
    <2>5. p.scanned \in BOOLEAN /\ p.submitted \in BOOLEAN
      BY DEF AllPages
    <2>6. ASSUME NEW a \in BOOLEAN, NEW b \in BOOLEAN, p.scanned = a, p.submitted = b
          PROVE  q \in AllPages
      <3>1. q = [host |-> p.host, field |-> p.field, promises |-> more, next |-> next,
                 scanned |-> a, submitted |-> b]
        BY <2>3, <2>6, Zenon
      <3> DEFINE h == p.host
                 f == p.field
      <3>2. h \in Host /\ f \in Field
        BY <2>4
      <3>3. q = [host |-> h, field |-> f, promises |-> more, next |-> next,
                 scanned |-> a, submitted |-> b]
        BY <3>1
      <3> HIDE DEF h, f
      <3>4. [host |-> h, field |-> f, promises |-> more, next |-> next,
             scanned |-> a, submitted |-> b] \in AllPages
        BY <2>1, <2>6, <3>2, PageType
      <3> QED
        BY <3>3, <3>4
    <2> QED
      BY <2>5, <2>6, Zenon
  <1>4. Asks(q) = Asks(p)
    BY <1>2 DEF Asks
  <1>5. Retries(q) = IF IsFill(x) THEN 1 ELSE Retries(p)
    BY <1>1 DEF Retries
  <1>6. q.next + Retries(q) <= Asks(q)
    BY <1>1, <1>4, <1>5
  <1> QED
    BY <1>1, <1>2, <1>3, <1>6 DEF PageOK, Promises

\* A promise that is resolved.
LEMMA PageResolved ==
    ASSUME NEW p \in AllPages, PageOK(p), NEW x \in p.promises, NEW q,
           q = [p EXCEPT !.promises = @ \ {x}]
    PROVE  /\ q \in AllPages /\ PageOK(q)
           /\ q.host = p.host /\ q.field = p.field
           /\ IsFill(x) => /\ \A y \in q.promises : ~IsFill(y)
                           /\ q.next + 1 <= Asks(q)
  <1>1. /\ q.host = p.host /\ q.field = p.field /\ q.promises = p.promises \ {x} /\ q.next = p.next
        /\ q.promises \subseteq Promise /\ p.next \in Nat
    BY DEF AllPages
  <1>2. q.scanned = p.scanned /\ q.submitted = p.submitted
    BY Zenon DEF AllPages
  <1>3. q \in AllPages
    <2> DEFINE left == p.promises \ {x}
    <2>1. left \in SUBSET Promise
      BY DEF AllPages
    <2>2. q = [p EXCEPT !.promises = left]
      OBVIOUS
    <2> HIDE DEF left
    <2> QED
      BY <2>1, <2>2 DEF AllPages
  <1>4. Asks(q) = Asks(p) /\ Asks(p) \in Nat
    BY <1>2 DEF Asks
  <1>5. /\ IsFill(x) => Retries(p) = 1 /\ \A y \in q.promises : ~IsFill(y)
        /\ Retries(q) <= Retries(p) /\ Retries(q) \in Nat /\ Retries(p) \in Nat
    <2>1. IsFill(x) => \A y \in q.promises : ~IsFill(y)
      BY <1>1 DEF PageOK
    <2>2. IsFill(x) => Retries(p) = 1
      BY DEF Retries
    <2>3. (\E y \in q.promises : IsFill(y)) => \E y \in p.promises : IsFill(y)
      BY <1>1
    <2>4. Retries(q) <= Retries(p) /\ Retries(q) \in Nat /\ Retries(p) \in Nat
      BY <2>3 DEF Retries
    <2> QED
      BY <2>1, <2>2, <2>4
  <1>6. q.next + Retries(q) <= Asks(q)
    <2>1. p.next + Retries(p) <= Asks(p)
      BY DEF PageOK
    <2> QED
      BY <1>1, <1>4, <1>5, <2>1
  <1>7. IsFill(x) => q.next + 1 <= Asks(q)
    <2>1. p.next + Retries(p) <= Asks(p)
      BY DEF PageOK
    <2> QED
      BY <1>1, <1>4, <1>5, <2>1
  <1>8. PageOK(q)
    BY <1>1, <1>2, <1>6 DEF PageOK
  <1> QED
    BY <1>1, <1>3, <1>5, <1>7, <1>8

\* A page of one tab changes, the others stay.
LEMMA OnePage ==
    ASSUME PagesOK, NEW t \in Tab, NEW q \in AllPages, PageOK(q), page' = [page EXCEPT ![t] = q]
    PROVE  PagesOK'
  BY DEF PagesOK

\* Ask: the page has a promise more and, if the handler took it, there is a task.
LEMMA AskStep ==
    ASSUME StoreOK, CacheIsStore, UIOK, PagesOK, UNCHANGED <<store, cache>>, NEW ts,
           \/ ts = tasks
           \/ \E i \in DOMAIN tasks : tasks[i].kind = "query" /\ ts = RemoveAt(tasks, i),
           NEW t \in Tab, NEW p \in AllPages, Promises(p),
           NEW why \in {"fill", "retry", "submit"}, NEW user \in Name,
           NEW secret \in Secret \cup {Absent}, NEW field \in Field \cup {Wildcard},
           why = "submit" => secret \in Secret,
           why = "fill" => p.scanned /\ \A y \in p.promises : ~IsFill(y),
           p.next + 1 + (IF why = "fill" THEN 1 ELSE Retries(p)) <= Asks(p),
           Ask(ts, t, p, why, user, secret, field)
    PROVE  StoreOK' /\ CacheIsStore' /\ PagesOK'
  <1> DEFINE x == [id |-> p.next, why |-> why, user |-> user, secret |-> secret, sent |-> enabled]
             q == [p EXCEPT !.next = @ + 1, !.promises = @ \cup {x}]
             who == IF user = NoUser THEN Wildcard ELSE user
             for == [tab |-> t, id |-> p.next]
             ask == Query(p.host, who, field, for)
  <1>1. page' = [page EXCEPT ![t] = q] /\ tasks' = IF enabled THEN Append(ts, ask) ELSE ts
    BY Zenon DEF Ask
  <1>2. p.next \in Nat /\ p.host \in Host
    BY DEF AllPages
  <1>3. x \in Promise
    BY <1>2 DEF Promise, UIOK
  <1>4. x.why = why /\ x.secret = secret
    OBVIOUS
  <1>5. ask \in AllTasks
    <2>1. for \in AllTargets /\ who \in Name \cup {Wildcard} /\ cache[p.host] \in Seq(Name)
      BY <1>2 DEF AllTargets, StoreOK
    <2>2. <<>> \in Seq(AllRecords)
      OBVIOUS
    <2> HIDE DEF for, who
    <2>3. ask \in AllQueries
      BY <1>2, <2>1, <2>2 DEF Query, AllQueries
    <2> QED
      BY <2>3 DEF AllTasks
  <1>6. StoreOK' /\ CacheIsStore'
    <2> HIDE DEF ask
    <2>1. tasks' = ts \/ \E y \in AllTasks : tasks' = Append(ts, y)
      BY <1>1, <1>5
    <2> QED
      BY <2>1, TasksStep
  <1> HIDE DEF x
  <1>7. q \in AllPages /\ PageOK(q)
    BY <1>3, <1>4, PageAsked DEF IsFill
  <1> HIDE DEF q
  <1> QED
    BY <1>1, <1>6, <1>7, OnePage

-----------------------------------------------------------------------------
(* The steps.                                                                *)

\* What a change of the store has behind it.
Answered ==
    \A h \in Host, n \in Name :
        store'[h][n] # store[h][n] /\ store'[h][n] # Absent =>
            \E t \in open : /\ mode[t] = "P" /\ mode'[t] = "n"
                            /\ \E r \in wanted[t] : /\ r.host = h
                                                    /\ r.body = store'[h][n]
Removed ==
    \A h \in Host, n \in Name :
        store[h][n] # Absent /\ store'[h][n] = Absent =>
            \E i \in DOMAIN tasks : /\ tasks[i].kind = "forget"
                                    /\ tasks[i].host = h /\ tasks[i].name = n

\* A step that leaves the store alone keeps both action properties.
LEMMA NothingStored ==
    ASSUME UNCHANGED store
    PROVE  Answered /\ Removed
  BY DEF Answered, Removed

\* An event that is counted stays within the bound.
LEMMA EventStep ==
    ASSUME UIOK, Event
    PROVE  events' \in 0 .. MaxEvents
  BY PassAssumption DEF UIOK, Event

\* Thread: Show and RemoveEntry.
LEMMA ThreadStep ==
    ASSUME Inv, Thread
    PROVE  Inv' /\ Answered /\ Removed
  <1>1. PICK i \in DOMAIN tasks : (Show(i) \/ RemoveEntry(i)) /\ UNCHANGED uiVars
    BY DEF Thread
  <1>2. UIOK' /\ SavesOK' /\ PagesOK' /\ FillOK'
    BY <1>1 DEF uiVars, Inv, UIOK, SavesOK, PagesOK, FillOK
  <1>3. CASE Show(i)
    BY <1>2, <1>3, ShowStep, NothingStored DEF Inv
  <1>4. CASE RemoveEntry(i)
    <2>1. /\ StoreOK' /\ CacheIsStore'
          /\ \A h \in Host, n \in Name : store'[h][n] # store[h][n] =>
                  /\ store'[h][n] = Absent
                  /\ tasks[i].kind = "forget" /\ tasks[i].host = h /\ tasks[i].name = n
      BY <1>4, RemoveEntryStep DEF Inv
    <2> QED
      BY <1>2, <2>1 DEF Inv, Answered, Removed
  <1> QED
    BY <1>1, <1>3, <1>4

\* PromptKey: what is pending is saved, or its host is left alone from now on.
LEMMA PromptKeyStep ==
    ASSUME Inv, NEW t \in Tab, NEW k \in {"y", "n", "esc"}, PromptKey(t, k)
    PROVE  Inv' /\ Answered /\ Removed
  <1>1. PICK r \in pending[t] :
            /\ IF k = "y" THEN Save(r.host, r.body) ELSE UNCHANGED <<store, cache>>
            /\ deny' = IF k = "n" THEN deny \cup {r.host} ELSE deny
    BY DEF PromptKey
  <1>2. /\ t \in open /\ mode[t] = "P"
        /\ pending' = [pending EXCEPT ![t] = {}]
        /\ mode' = [mode EXCEPT ![t] = "n"]
        /\ UNCHANGED <<tasks, enabled, open, asked, fill, page, wanted, events>>
    BY DEF PromptKey, Mode
  <1>3. r \in Request /\ r \in wanted[t]
    BY <1>2 DEF Inv, SavesOK
  <1>4. r.host \in Host /\ r.body \in Body
    BY <1>3 DEF Request
  <1>5. SavesOK'
    BY <1>2 DEF Inv, SavesOK, UIOK
  <1>6. UIOK' /\ PagesOK' /\ FillOK'
    BY <1>1, <1>2, <1>4 DEF Inv, UIOK, PagesOK, FillOK
  <1>7. CASE k = "y"
    <2>1. /\ StoreOK' /\ CacheIsStore'
          /\ \A g \in Host, n \in Name : store'[g][n] # store[g][n] =>
                 g = r.host /\ store'[g][n] = r.body
      <3> DEFINE h == r.host
                 b == r.body
      <3>1. Save(h, b) /\ tasks' = tasks /\ h \in Host /\ b \in Body
        BY <1>1, <1>2, <1>4, <1>7
      <3> HIDE DEF h, b
      <3>2. /\ StoreOK' /\ CacheIsStore'
            /\ \A g \in Host, n \in Name : store'[g][n] # store[g][n] =>
                   g = h /\ store'[g][n] = b
        BY <3>1, SaveStep DEF Inv
      <3> QED
        BY <3>2 DEF h, b
    <2>2. mode'[t] = "n"
      BY <1>2 DEF Inv, UIOK
    <2>3. Answered
      BY <1>2, <1>3, <2>1, <2>2 DEF Answered
    <2>4. Removed
      BY <1>4, <2>1, PassStoreAssumption DEF Removed
    <2> QED
      BY <1>5, <1>6, <2>1, <2>3, <2>4 DEF Inv
  <1>8. CASE k # "y"
    <2>1. UNCHANGED <<store, cache, tasks>>
      BY <1>1, <1>2, <1>8
    <2>2. StoreOK' /\ CacheIsStore'
      BY <2>1, TasksStep DEF Inv
    <2> QED
      BY <1>5, <1>6, <2>1, <2>2, NothingStored DEF Inv
  <1> QED
    BY <1>7, <1>8

\* Load, Open and Close: a page comes anew.
LEMMA PageStep ==
    ASSUME Inv, NEW t \in Tab, NEW h \in Host, NEW f \in Field,
           Load(t, h, f) \/ Open(t, h, f) \/ Close(t)
    PROVE  Inv' /\ Answered /\ Removed
  <1>1. UNCHANGED <<store, cache, tasks, enabled, pending, deny, fill>>
    BY DEF Load, Open, Close, storeVars
  <1>2. StoreOK' /\ CacheIsStore' /\ FillOK'
    BY <1>1, TasksStep DEF Inv, FillOK
  <1>3. events' \in 0 .. MaxEvents
    BY EventStep DEF Inv, UIOK, Load, Open, Close
  <1>4. PagesOK'
    <2>1. PICK g \in Host, e \in Field : page' = [page EXCEPT ![t] = NewPage(g, e)]
      <3>1. page[t].host \in Host /\ page[t].field \in Field
        BY DEF Inv, PagesOK, AllPages
      <3> QED
        BY <3>1 DEF Load, Open, Close
    <2> DEFINE q == NewPage(g, e)
    <2>2. q \in AllPages /\ PageOK(q)
      BY NewPageOK
    <2>3. page' = [page EXCEPT ![t] = q]
      BY <2>1
    <2> HIDE DEF q
    <2> QED
      BY <2>2, <2>3, OnePage DEF Inv
  <1>5. CASE Load(t, h, f) \/ Open(t, h, f)
    <2>1. UNCHANGED <<mode, asked, wanted>> /\ open' \subseteq Tab
      BY <1>5 DEF Load, Open, Inv, UIOK
    <2>2. UIOK' /\ SavesOK'
      BY <1>1, <1>3, <2>1 DEF Inv, UIOK, SavesOK
    <2> QED
      BY <1>1, <1>2, <1>4, <2>2, NothingStored DEF Inv
  <1>6. CASE Close(t)
    <2>1. /\ open' \subseteq Tab
          /\ mode' = [mode EXCEPT ![t] = "n"]
          /\ asked' = [asked EXCEPT ![t] = {}]
          /\ wanted' = [wanted EXCEPT ![t] = {}]
      BY <1>6 DEF Close, Mode, Inv, UIOK
    <2>2. SavesOK' /\ mode' \in [Tab -> {"n", "P", "F"}]
      BY <1>1, <2>1 DEF Inv, SavesOK, UIOK
    <2>3. UIOK'
      BY <1>1, <1>3, <2>1, <2>2 DEF Inv, UIOK
    <2> QED
      BY <1>1, <1>2, <1>4, <2>2, <2>3, NothingStored DEF Inv
  <1> QED
    BY <1>5, <1>6

\* Scan: the form of a page is looked for.
LEMMA ScanStep ==
    ASSUME Inv, NEW t \in Tab, Scan(t)
    PROVE  Inv' /\ Answered /\ Removed
  <1> DEFINE old == page[t]
             p == [old EXCEPT !.scanned = TRUE]
             q == [p EXCEPT !.next = @ + 1]
             only == {n \in Usernames(p.host) : Usernames(p.host) = {n}}
  <1>1. /\ ~old.scanned
        /\ UNCHANGED <<store, cache, enabled, open, mode, pending, asked, deny, fill, wanted>>
        /\ IF p.host \in HasUser
           THEN IF enabled
                THEN \E user \in IF only # {} THEN only ELSE {NoUser} :
                         Ask(tasks, t, q, "fill", user, Absent, p.field)
                ELSE page' = [page EXCEPT ![t] = q] /\ UNCHANGED tasks
           ELSE Ask(tasks, t, p, "fill", NoUser, Absent, p.field)
    BY Zenon DEF Scan
  <1>2. old \in AllPages /\ PageOK(old)
    BY DEF Inv, PagesOK
  <1>3. /\ p \in AllPages /\ q \in AllPages /\ p.next = old.next /\ q.next = old.next + 1
        /\ p.promises = old.promises /\ q.promises = old.promises
        /\ p.host = old.host /\ p.field = old.field /\ old.next \in Nat
    <2> HIDE DEF old
    <2>1. p \in AllPages
      BY <1>2 DEF AllPages
    <2>2. /\ p.next = old.next /\ p.promises = old.promises
          /\ p.host = old.host /\ p.field = old.field /\ old.next \in Nat
      BY <1>2 DEF AllPages
    <2> HIDE DEF p
    <2> DEFINE n == p.next + 1
    <2>3. n \in Nat /\ q = [p EXCEPT !.next = n]
      BY <2>1 DEF AllPages
    <2> HIDE DEF n, q
    <2>4. q \in AllPages
      BY <2>1, <2>3 DEF AllPages
    <2>5. q.next = n /\ q.promises = p.promises
      BY <2>1, <2>3 DEF AllPages
    <2> QED
      BY <2>1, <2>2, <2>4, <2>5 DEF n
  <1>4. /\ p.scanned /\ q.scanned
        /\ p.submitted = old.submitted /\ q.submitted = old.submitted
    <2> HIDE DEF old
    <2>1. p.scanned /\ p.submitted = old.submitted
      BY <1>2, Zenon DEF AllPages
    <2> HIDE DEF p
    <2>2. q.scanned = p.scanned /\ q.submitted = p.submitted
      BY <1>3, Zenon DEF AllPages
    <2> QED
      BY <2>1, <2>2
  <1>5. cache[p.host] \in Seq(Name)
    BY <1>3 DEF Inv, StoreOK, AllPages
  <1>6. only \subseteq Name
    BY <1>5 DEF Usernames, ToSet
  <1> HIDE DEF p, q, old, only
  <1>7. /\ \A x \in old.promises : ~IsFill(x)
        /\ old.next <= IF old.submitted THEN 1 ELSE 0
    BY <1>1, <1>2, <1>3 DEF PageOK, Retries, Asks
  <1>8. Promises(p) /\ Promises(q) /\ Retries(q) = 0
    BY <1>2, <1>3, <1>4, <1>7 DEF Promises, PageOK, Retries
  <1>9. p.next + 1 + 1 <= Asks(p) /\ q.next + 1 + 1 <= Asks(q)
    BY <1>3, <1>4, <1>7 DEF Asks
  <1>10. q \in AllPages /\ PageOK(q)
    BY <1>3, <1>8, <1>9 DEF PageOK, Promises, Asks
  <1>11. p.field \in Field \cup {Wildcard} /\ NoUser \in Name
    BY <1>3 DEF AllPages, Name
  <1>12. StoreOK' /\ CacheIsStore' /\ PagesOK'
    <2>1. ASSUME NEW user \in Name, Ask(tasks, t, q, "fill", user, Absent, p.field)
          PROVE  StoreOK' /\ CacheIsStore' /\ PagesOK'
      <3>1. "fill" \in {"fill", "retry", "submit"} /\ "fill" # "submit" /\ Absent \in Secret \cup {Absent}
        OBVIOUS
      <3> QED
        BY <1>1, <1>3, <1>4, <1>7, <1>8, <1>9, <1>11, <2>1, <3>1, AskStep DEF Inv
    <2>2. ASSUME Ask(tasks, t, p, "fill", NoUser, Absent, p.field)
          PROVE  StoreOK' /\ CacheIsStore' /\ PagesOK'
      <3>1. "fill" \in {"fill", "retry", "submit"} /\ "fill" # "submit" /\ Absent \in Secret \cup {Absent}
        OBVIOUS
      <3> QED
        BY <1>1, <1>3, <1>4, <1>7, <1>8, <1>9, <1>11, <2>2, <3>1, AskStep DEF Inv
    <2>3. ASSUME page' = [page EXCEPT ![t] = q], UNCHANGED tasks
          PROVE  StoreOK' /\ CacheIsStore' /\ PagesOK'
      BY <1>1, <1>10, <2>3, OnePage, TasksStep DEF Inv
    <2> QED
      BY <1>1, <1>6, <1>11, <2>1, <2>2, <2>3
  <1>13. events' \in 0 .. MaxEvents
    BY EventStep DEF Inv, Scan
  <1>14. UIOK' /\ SavesOK' /\ FillOK'
    BY <1>1, <1>13 DEF Inv, UIOK, SavesOK, FillOK
  <1> QED
    BY <1>1, <1>12, <1>14, NothingStored DEF Inv

\* Submit: the form of a page is submitted.
LEMMA SubmitStep ==
    ASSUME Inv, NEW t \in Tab, NEW user \in Name, NEW secret \in Secret, Submit(t, user, secret)
    PROVE  Inv' /\ Answered /\ Removed
  <1> DEFINE old == page[t]
             p == [old EXCEPT !.submitted = TRUE]
  <1>1. /\ ~old.submitted
        /\ UNCHANGED <<store, cache, enabled, open, mode, pending, asked, deny, fill, wanted>>
        /\ Ask(tasks, t, p, "submit", user, secret, old.field)
    BY Zenon DEF Submit
  <1>2. old \in AllPages /\ PageOK(old)
    BY DEF Inv, PagesOK
  <1> HIDE DEF old
  <1>3. p \in AllPages
    BY <1>2 DEF AllPages
  <1>4. p.next = old.next /\ p.promises = old.promises /\ old.next \in Nat /\ old.field \in Field
    BY <1>2 DEF AllPages
  <1>5. p.submitted /\ p.scanned = old.scanned
    BY <1>2, Zenon DEF AllPages
  <1> HIDE DEF p
  <1>6. Promises(p) /\ Retries(p) = Retries(old)
    BY <1>2, <1>4, <1>5 DEF Promises, PageOK, Retries
  <1>7. p.next + 1 + Retries(p) <= Asks(p)
    <2>1. Asks(p) = Asks(old) + 1 /\ Asks(old) \in Nat /\ Retries(old) \in Nat
      BY <1>1, <1>5 DEF Asks, Retries
    <2>2. old.next + Retries(old) <= Asks(old)
      BY <1>2 DEF PageOK
    <2> QED
      BY <1>4, <1>6, <2>1, <2>2
  <1>8. StoreOK' /\ CacheIsStore' /\ PagesOK'
    <2>1. "submit" \in {"fill", "retry", "submit"} /\ "fill" # "submit"
          /\ secret \in Secret \cup {Absent} /\ old.field \in Field \cup {Wildcard}
      BY <1>4
    <2> QED
      BY <1>1, <1>3, <1>6, <1>7, <2>1, AskStep DEF Inv
  <1>9. events' \in 0 .. MaxEvents
    BY EventStep DEF Inv, Submit
  <1>10. UIOK' /\ SavesOK' /\ FillOK'
    BY <1>1, <1>9 DEF Inv, UIOK, SavesOK, FillOK
  <1> QED
    BY <1>1, <1>8, <1>10, NothingStored DEF Inv

\* Resolve: the promise takes the answer, asks once more, or asks to save.
LEMMA ResolveStep ==
    ASSUME Inv, NEW i \in DOMAIN tasks, tasks[i].kind = "query", NEW ts, ts = RemoveAt(tasks, i),
           NEW t \in Tab, NEW pr \in page[t].promises, NEW ans \in Body \cup {Absent},
           UNCHANGED <<store, cache>>, Resolve(ts, t, pr, ans)
    PROVE  /\ StoreOK' /\ CacheIsStore' /\ PagesOK'
           /\ SavesOK' /\ mode' \in [Tab -> {"n", "P", "F"}]
  <1> DEFINE old == page[t]
             p == [old EXCEPT !.promises = @ \ {pr}]
             r == [host |-> p.host, isNew |-> ans = Absent,
                   body |-> [name |-> pr.user, field |-> p.field, secret |-> pr.secret]]
  <1>1. /\ IF pr.why = "fill" /\ ans = Absent
           THEN Ask(ts, t, p, "retry", pr.user, Absent, Wildcard)
           ELSE page' = [page EXCEPT ![t] = p] /\ tasks' = ts
        /\ IF pr.why = "submit" /\ ~Known(pr, ans) THEN RequestSave(t, r)
           ELSE UNCHANGED <<pending, asked, mode, wanted>>
    BY Zenon DEF Resolve
  <1>2. old \in AllPages /\ PageOK(old) /\ pr \in old.promises
    BY DEF Inv, PagesOK
  <1>3. pr \in Promise /\ pr.user \in Name /\ (pr.why = "submit" => pr.secret \in Secret)
    BY <1>2 DEF AllPages, Promise, PageOK
  <1> HIDE DEF old
  <1>4. /\ p \in AllPages /\ PageOK(p)
        /\ IsFill(pr) => (\A y \in p.promises : ~IsFill(y)) /\ p.next + 1 <= Asks(p)
    BY <1>2, PageResolved
  <1> HIDE DEF p
  <1>5. p.host \in Host /\ p.field \in Field /\ p.next \in Nat
    BY <1>4 DEF AllPages
  <1>6. StoreOK' /\ CacheIsStore' /\ PagesOK'
    <2>1. CASE pr.why = "fill" /\ ans = Absent
      <3>1. /\ Promises(p) /\ Retries(p) = 0 /\ p.next + 1 <= Asks(p)
        BY <1>4, <2>1 DEF Promises, PageOK, Retries, IsFill
      <3>2. p.next + 1 + Retries(p) <= Asks(p)
        BY <1>5, <3>1
      <3>3. "retry" \in {"fill", "retry", "submit"} /\ "retry" # "submit" /\ "retry" # "fill"
            /\ Absent \in Secret \cup {Absent} /\ Wildcard \in Field \cup {Wildcard}
        OBVIOUS
      <3> QED
        BY <1>1, <1>3, <1>4, <2>1, <3>1, <3>2, <3>3, AskStep DEF Inv
    <2>2. CASE ~(pr.why = "fill" /\ ans = Absent)
      <3>1. page' = [page EXCEPT ![t] = p] /\ tasks' = ts
        BY <1>1, <2>2
      <3> QED
        BY <1>4, <3>1, OnePage, TasksStep DEF Inv
    <2> QED
      BY <2>1, <2>2
  <1>7. SavesOK' /\ mode' \in [Tab -> {"n", "P", "F"}]
    <2>1. CASE pr.why = "submit" /\ ~Known(pr, ans)
      <3> DEFINE b == [name |-> pr.user, field |-> p.field, secret |-> pr.secret]
                 new == ans = Absent
                 h == p.host
      <3>1. b \in Body
        BY <1>3, <1>5, <2>1 DEF Body
      <3>2. new \in BOOLEAN /\ h \in Host
        BY <1>5
      <3>3. r = [host |-> h, isNew |-> new, body |-> b]
        OBVIOUS
      <3> HIDE DEF b, new, h, r
      <3>4. r \in Request
        BY <3>1, <3>2, <3>3 DEF Request
      <3>5. RequestSave(t, r)
        BY <1>1, <2>1
      <3> QED
        BY <3>4, <3>5, RequestSaveStep DEF Inv
    <2>2. CASE ~(pr.why = "submit" /\ ~Known(pr, ans))
      BY <1>1, <2>2 DEF Inv, SavesOK, UIOK
    <2> QED
      BY <2>1, <2>2
  <1> QED
    BY <1>6, <1>7

\* Reply: a query of a page calls back.
LEMMA ReplyStep ==
    ASSUME Inv, NEW i \in DOMAIN tasks, Reply(i)
    PROVE  Inv' /\ Answered /\ Removed
  <1> DEFINE q == tasks[i]
             t == q.for.tab
             prs == {pr \in page[t].promises : pr.id = q.for.id}
             ans == IF q.records = <<>> THEN Absent ELSE q.records[1].body
             ts == RemoveAt(tasks, i)
  <1>1. /\ q.kind = "query"
        /\ UNCHANGED <<store, cache, enabled, open, deny, fill, events>>
        /\ IF t \in open /\ prs # {}
           THEN \E pr \in prs : Resolve(ts, t, pr, ans)
           ELSE tasks' = ts /\ UNCHANGED <<page, pending, asked, mode, wanted>>
    BY Zenon DEF Reply
  <1>2. q \in AllQueries /\ t \in Tab
    BY <1>1, TaskTypes DEF Inv, StoreOK
  <1>3. ans \in Body \cup {Absent}
    <2> DEFINE rs == q.records
    <2>1. rs \in Seq(AllRecords)
      BY <1>2 DEF AllQueries
    <2>2. ans = IF rs = <<>> THEN Absent ELSE rs[1].body
      OBVIOUS
    <2> HIDE DEF rs, ans
    <2>3. rs # <<>> => rs[1] \in AllRecords
      BY <2>1
    <2> QED
      BY <2>2, <2>3 DEF AllRecords
  <1> HIDE DEF t, ans, ts
  <1>4. /\ StoreOK' /\ CacheIsStore' /\ PagesOK'
        /\ SavesOK' /\ mode' \in [Tab -> {"n", "P", "F"}]
    <2>1. ASSUME NEW pr \in page[t].promises, Resolve(ts, t, pr, ans)
          PROVE  /\ StoreOK' /\ CacheIsStore' /\ PagesOK'
                 /\ SavesOK' /\ mode' \in [Tab -> {"n", "P", "F"}]
      BY <1>1, <1>2, <1>3, <2>1, ResolveStep DEF ts
    <2>2. ASSUME tasks' = ts, UNCHANGED <<page, pending, asked, mode, wanted>>
          PROVE  /\ StoreOK' /\ CacheIsStore' /\ PagesOK'
                 /\ SavesOK' /\ mode' \in [Tab -> {"n", "P", "F"}]
      <3>1. StoreOK' /\ CacheIsStore'
        BY <1>1, <2>2, TasksStep DEF Inv, ts
      <3> QED
        BY <2>2, <3>1 DEF Inv, PagesOK, SavesOK, UIOK
    <2> QED
      BY <1>1, <2>1, <2>2
  <1>5. UIOK' /\ FillOK'
    BY <1>1, <1>4 DEF Inv, UIOK, FillOK
  <1> QED
    BY <1>1, <1>4, <1>5, NothingStored DEF Inv

\* Records: the records of :pass-fill are there, and several are for the picker.
LEMMA RecordsStep ==
    ASSUME Inv, NEW i \in DOMAIN tasks, Records(i)
    PROVE  Inv' /\ Answered /\ Removed
  <1> DEFINE q == tasks[i]
             t == q.for.tab
             c == [tab |-> t, records |-> q.records, built |-> mode[t] # "F",
                   needle |-> Wildcard, row |-> 1]
  <1>1. /\ q.kind = "query"
        /\ tasks' = RemoveAt(tasks, i)
        /\ UNCHANGED <<store, cache, enabled, open, pending, asked, deny, page, wanted, events>>
        /\ IF t \in open /\ Len(q.records) > 1
           THEN fill' = {c} /\ mode' = [mode EXCEPT ![t] = "F"]
           ELSE UNCHANGED <<fill, mode>>
    BY Zenon DEF Records, Mode
  <1>2. q \in AllQueries /\ t \in Tab
    BY <1>1, TaskTypes DEF Inv, StoreOK
  <1>3. StoreOK' /\ CacheIsStore'
    BY <1>1, TasksStep DEF Inv
  <1>4. SavesOK' /\ mode' \in [Tab -> {"n", "P", "F"}]
    <2>1. CASE mode' = [mode EXCEPT ![t] = "F"]
      <3> HIDE DEF t
      <3> QED
        BY <1>1, <1>2, <2>1, ModeStep DEF Inv
    <2>2. CASE UNCHANGED mode
      BY <1>1, <2>2 DEF Inv, SavesOK, UIOK
    <2> QED
      BY <1>1, <2>1, <2>2
  <1>5. FillOK'
    <2>1. CASE Len(q.records) > 1 /\ fill' = {c}
      <3> DEFINE rs == q.records
                 built == mode[t] # "F"
      <3>1. rs \in Seq(AllRecords) /\ Len(rs) > 1 /\ built \in BOOLEAN
        BY <1>2, <2>1 DEF AllQueries
      <3>2. c = [tab |-> t, records |-> rs, built |-> built, needle |-> Wildcard, row |-> 1]
        OBVIOUS
      <3> HIDE DEF q, t, rs, built, c
      <3>3. c \in AllPickers /\ c.row = 1 /\ c.records = rs /\ c.needle = Wildcard
        BY <1>2, <3>1, <3>2 DEF AllPickers
      <3>4. 1 \in DOMAIN rs
        BY <3>1
      <3>5. Rows(c) = DOMAIN rs
        BY <3>3 DEF Rows
      <3> QED
        BY <2>1, <3>3, <3>4, <3>5 DEF FillOK, PickerOK
    <2>2. CASE UNCHANGED fill
      BY <2>2 DEF Inv, FillOK
    <2> QED
      BY <1>1, <2>1, <2>2
  <1>6. UIOK' /\ PagesOK'
    BY <1>1, <1>4 DEF Inv, UIOK, PagesOK
  <1> QED
    BY <1>1, <1>3, <1>4, <1>5, <1>6, NothingStored DEF Inv

\* FillCommand and ForgetCommand: a task is begun.
LEMMA CommandStep ==
    ASSUME Inv, NEW t \in Tab, NEW h \in Host, NEW user \in User \cup {Wildcard}, NEW n \in Name,
           FillCommand(t, h, user) \/ ForgetCommand(t, h, n)
    PROVE  Inv' /\ Answered /\ Removed
  <1> DEFINE for == [tab |-> t]
             ask == Query(h, user, Wildcard, for)
             remove == Removal(h, n, for)
  <1>1. /\ tasks' = Append(tasks, ask) \/ tasks' = Append(tasks, remove)
        /\ UNCHANGED <<store, cache, enabled, open, mode, pending, asked, deny, fill, page, wanted>>
    BY DEF FillCommand, ForgetCommand
  <1>2. for \in [tab : Tab] /\ for \in AllTargets
    BY DEF AllTargets
  <1> HIDE DEF for
  <1>3. ask \in AllTasks
    <2>1. cache[h] \in Seq(Name) /\ user \in Name \cup {Wildcard} /\ <<>> \in Seq(AllRecords)
      BY DEF Inv, StoreOK, Name
    <2>2. ask \in AllQueries
      BY <1>2, <2>1 DEF Query, AllQueries
    <2> QED
      BY <2>2 DEF AllTasks
  <1>4. remove \in AllTasks
    BY <1>2 DEF Removal, AllRemovals, AllTasks
  <1> HIDE DEF ask, remove
  <1>5. StoreOK' /\ CacheIsStore'
    BY <1>1, <1>3, <1>4, TasksStep DEF Inv
  <1>6. events' \in 0 .. MaxEvents
    BY EventStep DEF Inv, FillCommand, ForgetCommand
  <1>7. UIOK' /\ SavesOK' /\ PagesOK' /\ FillOK'
    BY <1>1, <1>6 DEF Inv, UIOK, SavesOK, PagesOK, FillOK
  <1> QED
    BY <1>1, <1>5, <1>7, NothingStored DEF Inv

\* Forgotten and SetEnabled.
LEMMA OthersStep ==
    ASSUME Inv,
           (\E i \in DOMAIN tasks : Forgotten(i)) \/ (\E on \in BOOLEAN : SetEnabled(on))
    PROVE  Inv' /\ Answered /\ Removed
  <1>1. ASSUME NEW i \in DOMAIN tasks, Forgotten(i)
        PROVE  Inv' /\ Answered /\ Removed
    <2>1. StoreOK' /\ CacheIsStore' /\ UNCHANGED store
      BY <1>1, ForgottenStep DEF Inv, Forgotten
    <2>2. UIOK' /\ SavesOK' /\ PagesOK' /\ FillOK'
      BY <1>1 DEF Forgotten, uiVars, Inv, UIOK, SavesOK, PagesOK, FillOK
    <2> QED
      BY <2>1, <2>2, NothingStored DEF Inv
  <1>2. ASSUME NEW on \in BOOLEAN, SetEnabled(on)
        PROVE  Inv' /\ Answered /\ Removed
    <2>1. /\ UNCHANGED <<store, cache, tasks, open, mode, pending, asked, deny, fill, page, wanted>>
          /\ enabled' \in BOOLEAN
      BY <1>2 DEF SetEnabled, storeVars
    <2>2. StoreOK' /\ CacheIsStore'
      BY <2>1, TasksStep DEF Inv
    <2>3. events' \in 0 .. MaxEvents
      BY <1>2, EventStep DEF Inv, SetEnabled
    <2>4. UIOK' /\ SavesOK' /\ PagesOK' /\ FillOK'
      BY <2>1, <2>3 DEF Inv, UIOK, SavesOK, PagesOK, FillOK
    <2> QED
      BY <2>1, <2>2, <2>4, NothingStored DEF Inv
  <1> QED
    BY <1>1, <1>2

\* A picker whose selection moves to a row that is shown.
LEMMA MovedPicker ==
    ASSUME NEW c \in AllPickers, NEW i \in Rows(c)
    PROVE  /\ [c EXCEPT !.row = i] \in AllPickers
           /\ PickerOK([c EXCEPT !.row = i])
  <1> DEFINE d == [c EXCEPT !.row = i]
  <1>1. i \in DOMAIN c.records /\ i \in Nat
    BY DEF Rows, AllPickers
  <1>2. d \in AllPickers /\ d.row = i /\ d.records = c.records /\ d.needle = c.needle
    BY <1>1 DEF AllPickers
  <1> HIDE DEF d
  <1>3. Rows(d) = Rows(c)
    BY <1>2 DEF Rows
  <1>4. PickerOK(d)
    BY <1>1, <1>2, <1>3 DEF PickerOK
  <1> QED
    BY <1>2, <1>4 DEF d

\* PickerKey and Filter: the selection stays on a row that is shown.
LEMMA PickerStep ==
    ASSUME Inv, NEW t \in Tab,
           \/ \E k \in {"leave", "move"} : PickerKey(t, k)
           \/ \E needle \in Name \cup {Wildcard} : Filter(t, needle)
    PROVE  Inv' /\ Answered /\ Removed
  <1>1. ASSUME NEW k \in {"leave", "move"}, PickerKey(t, k)
        PROVE  /\ UNCHANGED <<storeVars, enabled, open, pending, asked, deny, page, wanted, events>>
               /\ mode' = mode \/ mode' = [mode EXCEPT ![t] = "n"]
               /\ FillOK'
    <2> DEFINE mine == {c \in fill : c.tab = t}
               left == [mode EXCEPT ![t] = "n"]
    <2>1. UNCHANGED <<storeVars, enabled, open, pending, asked, deny, page, wanted, events>>
      BY <1>1 DEF PickerKey
    <2>2. \/ mode' = left /\ (fill' = fill \/ fill' = {})
          \/ mode' = mode /\ fill' = fill
          \/ mode' = mode /\ \E c \in mine : \E i \in Rows(c) : fill' = {[c EXCEPT !.row = i]}
      <3>1. CASE mine = {}
        BY <1>1, <3>1, Zenon DEF PickerKey, Mode
      <3>2. CASE mine # {} /\ k = "leave"
        <4>1. PICK c \in mine :
                CASE k = "leave" -> Mode(t, "n") /\ fill' = {}
                  [] k = "move" -> /\ IF c.built /\ Rows(c) # {}
                                      THEN \E i \in Rows(c) : fill' = {[c EXCEPT !.row = i]}
                                      ELSE UNCHANGED fill
                                   /\ UNCHANGED mode
          BY <1>1, <3>2, Zenon DEF PickerKey
        <4> QED
          BY <3>2, <4>1 DEF Mode
      <3>3. CASE mine # {} /\ k = "move"
        <4>1. PICK c \in mine :
                CASE k = "leave" -> Mode(t, "n") /\ fill' = {}
                  [] k = "move" -> /\ IF c.built /\ Rows(c) # {}
                                      THEN \E i \in Rows(c) : fill' = {[c EXCEPT !.row = i]}
                                      ELSE UNCHANGED fill
                                   /\ UNCHANGED mode
          BY <1>1, <3>3, Zenon DEF PickerKey
        <4>2. mode' = mode /\ (fill' = fill \/ \E i \in Rows(c) : fill' = {[c EXCEPT !.row = i]})
          BY <3>3, <4>1
        <4> QED
          BY <4>2, Zenon
      <3> QED
        BY <3>1, <3>2, <3>3
    <2>3. ASSUME fill' = fill \/ fill' = {}
          PROVE  FillOK'
      BY <2>3 DEF Inv, FillOK
    <2>4. ASSUME NEW c \in mine, NEW i \in Rows(c), fill' = {[c EXCEPT !.row = i]}
          PROVE  FillOK'
      BY <2>4, MovedPicker DEF Inv, FillOK
    <2> HIDE DEF mine
    <2>5. FillOK'
      BY <2>2, <2>3, <2>4
    <2> QED
      BY <2>1, <2>2, <2>5
  <1>2. ASSUME NEW needle \in Name \cup {Wildcard}, Filter(t, needle)
        PROVE  /\ UNCHANGED <<storeVars, enabled, open, pending, asked, deny, page, wanted, events, mode>>
               /\ FillOK'
    <2>1. PICK c \in fill :
              LET d == [c EXCEPT !.needle = needle] IN
              IF d.row \in Rows(d) \/ Rows(d) = {} THEN fill' = {d}
              ELSE \E i \in Rows(d) : fill' = {[d EXCEPT !.row = i]}
      BY <1>2 DEF Filter
    <2>2. UNCHANGED <<storeVars, enabled, open, pending, asked, deny, page, wanted, events, mode>>
      BY <1>2 DEF Filter
    <2>3. c \in AllPickers /\ PickerOK(c)
      BY DEF Inv, FillOK
    <2> DEFINE d == [c EXCEPT !.needle = needle]
    <2>4. d \in AllPickers /\ d.row = c.row /\ d.records = c.records
      BY <2>3 DEF AllPickers
    <2>5. IF d.row \in Rows(d) \/ Rows(d) = {} THEN fill' = {d}
          ELSE \E i \in Rows(d) : fill' = {[d EXCEPT !.row = i]}
      BY <2>1
    <2> HIDE DEF d
    <2>6. CASE d.row \in Rows(d) \/ Rows(d) = {}
      <3>1. fill' = {d} /\ PickerOK(d)
        BY <2>3, <2>4, <2>5, <2>6 DEF PickerOK
      <3>2. FillOK'
        BY <2>4, <3>1 DEF FillOK
      <3> QED
        BY <2>2, <3>2
    <2>7. CASE ~(d.row \in Rows(d) \/ Rows(d) = {})
      <3>1. PICK i \in Rows(d) : fill' = {[d EXCEPT !.row = i]}
        BY <2>5, <2>7
      <3>2. [d EXCEPT !.row = i] \in AllPickers /\ PickerOK([d EXCEPT !.row = i])
        BY <2>4, MovedPicker
      <3>3. FillOK'
        BY <3>1, <3>2 DEF FillOK
      <3> QED
        BY <2>2, <3>3
    <2> QED
      BY <2>2, <2>6, <2>7
  <1>3. /\ UNCHANGED <<storeVars, enabled, open, pending, asked, deny, page, wanted, events>>
        /\ mode' = mode \/ mode' = [mode EXCEPT ![t] = "n"]
        /\ FillOK'
    BY <1>1, <1>2
  <1>4. SavesOK' /\ mode' \in [Tab -> {"n", "P", "F"}]
    <2>1. CASE mode' = [mode EXCEPT ![t] = "n"]
      BY <1>3, <2>1, ModeStep DEF Inv
    <2>2. CASE mode' = mode
      BY <1>3, <2>2 DEF Inv, SavesOK, UIOK
    <2> QED
      BY <1>3, <2>1, <2>2
  <1>5. StoreOK' /\ CacheIsStore' /\ UNCHANGED store
    BY <1>3, TasksStep DEF Inv, storeVars
  <1>6. UIOK' /\ PagesOK'
    BY <1>3, <1>4 DEF Inv, UIOK, PagesOK
  <1> QED
    BY <1>3, <1>4, <1>5, <1>6, NothingStored DEF Inv

-----------------------------------------------------------------------------
(* The theorems.                                                             *)

\* The entries that are there at first are finitely many of every host.
LEMMA FirstEntries ==
    ASSUME StoreInit, NEW h \in Host
    PROVE  /\ store \in [Host -> [Name -> Body \cup {Absent}]]
           /\ IsFiniteSet(Stored(store, h))
  <1>1. PICK secret \in Secret, f \in Field :
           store = [g \in Host |-> [n \in Name |->
               IF \E name \in Name : <<g, n, name>> \in Existing
               THEN LET name == CHOOSE x \in Name : <<g, n, x>> \in Existing IN
                    [name |-> name, secret |-> secret,
                     field |-> IF name = n THEN f ELSE NoUser]
               ELSE Absent]]
    BY DEF StoreInit
  <1>2. ASSUME NEW g \in Host, NEW n \in Name
        PROVE  /\ store[g][n] \in Body \cup {Absent}
               /\ store[g][n] # Absent => \E name \in Name : <<g, n, name>> \in Existing
    <2>1. CASE \E name \in Name : <<g, n, name>> \in Existing
      <3> DEFINE name == CHOOSE x \in Name : <<g, n, x>> \in Existing
                 field == IF name = n THEN f ELSE NoUser
      <3>1. name \in Name
        BY <2>1, Zenon
      <3>2. field \in Field \cup {NoUser}
        OBVIOUS
      <3>3. store[g][n] = [name |-> name, secret |-> secret, field |-> field]
        BY <1>1, <2>1
      <3> HIDE DEF name, field
      <3> QED
        BY <2>1, <3>1, <3>2, <3>3 DEF Body
    <2>2. CASE ~ \E name \in Name : <<g, n, name>> \in Existing
      BY <1>1, <2>2
    <2> QED
      BY <2>1, <2>2
  <1>3. store \in [Host -> [Name -> Body \cup {Absent}]]
    <2>1. \A g \in Host : store[g] \in [Name -> Body \cup {Absent}]
      BY <1>1, <1>2
    <2> QED
      BY <1>1, <2>1
  <1>4. IsFiniteSet(Stored(store, h))
    <2> DEFINE E == {e \in Existing : e[1] = h}
               second == [e \in E |-> e[2]]
               names == {second[e] : e \in E}
    <2>1. IsFiniteSet(E)
      BY PassStoreAssumption, FS_Subset
    <2>2. second \in Surjection(E, names)
      BY DEF Surjection
    <2> HIDE DEF E, second, names
    <2>3. IsFiniteSet(names)
      BY <2>1, <2>2, FS_Surjection
    <2>4. ASSUME NEW n \in Stored(store, h)
          PROVE  n \in names
      <3>1. PICK name \in Name : <<h, n, name>> \in Existing
        BY <1>2 DEF Stored
      <3>2. <<h, n, name>> \in E
        BY <3>1 DEF E
      <3> QED
        BY <3>2 DEF names, second
    <2> QED
      BY <2>3, <2>4, FS_Subset
  <1> QED
    BY <1>3, <1>4

\* The invariant holds at first.
LEMMA InitInv ==
    ASSUME Init
    PROVE  Inv
  <1>1. StoreInit
    BY DEF Init
  <1>2. /\ store \in [Host -> [Name -> Body \cup {Absent}]]
        /\ \A h \in Host : IsFiniteSet(Stored(store, h))
    <2>1. CASE Host = {}
      BY <1>1, <2>1 DEF StoreInit
    <2>2. CASE Host # {}
      BY <1>1, <2>2, FirstEntries
    <2> QED
      BY <2>1, <2>2
  <1>3. ASSUME NEW h \in Host
        PROVE  /\ cache[h] \in Seq(Name)
               /\ ToSet(cache[h]) = Stored(store, h)
               /\ IsInjective(cache[h])
    <2> DEFINE S == Stored(store, h)
    <2>1. cache[h] = SetToSeq(S) /\ IsFiniteSet(S)
      BY <1>1, <1>2 DEF StoreInit, Listing
    <2>2. S \subseteq Name
      BY DEF Stored
    <2> HIDE DEF S
    <2>3. cache[h] \in Seq(S) /\ ToSet(cache[h]) = S /\ IsInjective(cache[h])
      BY <2>1, ListOfSet
    <2> QED
      BY <2>2, <2>3, SeqMonotonic DEF S
  <1>4. StoreOK
    <2>1. cache = [h \in Host |-> Listing(store, h)] /\ tasks = <<>>
      BY <1>1 DEF StoreInit
    <2>2. cache \in [Host -> Seq(Name)]
      BY <1>3, <2>1
    <2>3. tasks \in Seq(AllTasks)
      BY <2>1
    <2> QED
      BY <1>2, <2>2, <2>3 DEF StoreOK
  <1>5. CacheIsStore
    BY <1>3 DEF CacheIsStore
  <1>6. UIOK
    BY PassAssumption DEF Init, UIOK
  <1>7. SavesOK
    BY DEF Init, SavesOK
  <1>8. PagesOK
    <2>1. PICK f \in Field : page \in [Tab -> {NewPage(h, f) : h \in Host}]
      BY DEF Init
    <2>2. \A t \in Tab : page[t] \in AllPages /\ PageOK(page[t])
      BY <2>1, NewPageOK
    <2> QED
      BY <2>1, <2>2 DEF PagesOK
  <1>9. FillOK
    BY DEF Init, FillOK
  <1> QED
    BY <1>4, <1>5, <1>6, <1>7, <1>8, <1>9 DEF Inv

\* Every step keeps the invariant, and both action properties hold of it.
LEMMA NextInv ==
    ASSUME Inv, [Next]_vars
    PROVE  Inv' /\ Answered /\ Removed
  <1>1. CASE Thread
    BY <1>1, ThreadStep
  <1>2. CASE Callback
    BY <1>2, ReplyStep, RecordsStep, OthersStep DEF Callback
  <1>3. CASE PageEvent
    <2>1. ASSUME NEW t \in Tab
          PROVE  page[t].host \in Host /\ page[t].field \in Field
      BY DEF Inv, PagesOK, AllPages
    <2>2. ASSUME NEW t \in Tab, Close(t)
          PROVE  Inv' /\ Answered /\ Removed
      BY <2>1, <2>2, PageStep
    <2> QED
      BY <1>3, <2>2, PageStep, ScanStep, SubmitStep DEF PageEvent
  <1>4. CASE UserEvent
    <2>1. ASSUME NEW t \in Tab, NEW h \in Host, NEW user \in User \cup {Wildcard},
                 FillCommand(t, h, user)
          PROVE  Inv' /\ Answered /\ Removed
      <3>1. NoUser \in Name
        BY DEF Name
      <3> QED
        BY <2>1, <3>1, CommandStep
    <2>2. ASSUME NEW t \in Tab, NEW h \in Host, NEW n \in Name, ForgetCommand(t, h, n)
          PROVE  Inv' /\ Answered /\ Removed
      BY <2>2, CommandStep
    <2> QED
      BY <1>4, <2>1, <2>2, PromptKeyStep, PickerStep, OthersStep DEF UserEvent
  <1>5. CASE UNCHANGED vars
    <2>1. /\ UNCHANGED <<store, cache, tasks, enabled, open, mode, pending, asked, deny, fill>>
          /\ UNCHANGED <<page, wanted, events>>
      BY <1>5 DEF vars, storeVars, uiVars
    <2>2. StoreOK' /\ CacheIsStore'
      BY <2>1, TasksStep DEF Inv
    <2> QED
      BY <2>1, <2>2, NothingStored DEF Inv, UIOK, SavesOK, PagesOK, FillOK
  <1> QED
    BY <1>1, <1>2, <1>3, <1>4, <1>5 DEF Next

\* The invariant holds in every state.
THEOREM Invariance == Spec => []Inv
  <1>1. Init => Inv
    BY InitInv
  <1>2. Inv /\ [Next]_vars => Inv'
    BY NextInv
  <1> QED
    BY <1>1, <1>2, PTL DEF Spec

\* The state has its types: a client has one save that is pending, and the
\* window one picker; a page asks at most four times.
THEOREM TypeCorrect == Spec => []TypeOK
  <1>1. ASSUME Inv
        PROVE  TypeOK
    <2>1. \A i \in DOMAIN tasks : /\ tasks[i].kind \in {"query", "forget"}
                                  /\ tasks[i].host \in Host /\ tasks[i].for.tab \in Tab
      <3>1. \A i \in DOMAIN tasks : tasks[i] \in AllTasks
        BY <1>1 DEF Inv, StoreOK
      <3> QED
        BY <3>1, TaskTypes
    <2>2. ASSUME NEW t \in Tab
          PROVE  /\ page[t].promises \subseteq Promise
                 /\ page[t].host \in Host /\ page[t].next \in 0 .. 4
      <3> DEFINE p == page[t]
      <3>1. p \in AllPages /\ PageOK(p)
        BY <1>1 DEF Inv, PagesOK
      <3> HIDE DEF p
      <3>2. p.promises \subseteq Promise /\ p.host \in Host /\ p.next \in Nat
        BY <3>1 DEF AllPages
      <3>3. p.next + Retries(p) <= Asks(p)
        BY <3>1 DEF PageOK
      <3>4. Retries(p) \in 0 .. 1 /\ Asks(p) \in 0 .. 4
        BY DEF Retries, Asks
      <3>5. p.next \in 0 .. 4
        BY <3>2, <3>3, <3>4
      <3> QED
        BY <3>2, <3>5 DEF p
    <2>3. ASSUME NEW t \in Tab
          PROVE  Cardinality(pending[t]) <= 1
      <3>1. CASE pending[t] = {}
        BY <3>1, FS_EmptySet
      <3>2. ASSUME NEW r \in Request, pending[t] = {r}
            PROVE  Cardinality(pending[t]) <= 1
        BY <3>2, FS_Singleton
      <3> QED
        BY <1>1, <3>1, <3>2 DEF Inv, SavesOK
    <2>4. /\ Cardinality(fill) <= 1
          /\ \A c \in fill : c.tab \in Tab /\ c.row \in DOMAIN c.records
      <3>1. CASE fill = {}
        BY <3>1, FS_EmptySet
      <3>2. ASSUME NEW c \in AllPickers, fill = {c}, PickerOK(c)
            PROVE  /\ Cardinality(fill) <= 1
                   /\ \A d \in fill : d.tab \in Tab /\ d.row \in DOMAIN d.records
        <4>1. Cardinality(fill) = 1
          BY <3>2, FS_Singleton
        <4>2. c.tab \in Tab /\ c.row \in DOMAIN c.records
          BY <3>2 DEF PickerOK, AllPickers
        <4> QED
          BY <3>2, <4>1, <4>2
      <3> QED
        BY <1>1, <3>1, <3>2 DEF Inv, FillOK
    <2> QED
      BY <1>1, <2>1, <2>2, <2>3, <2>4 DEF Inv, StoreOK, UIOK, SavesOK, TypeOK
  <1> QED
    BY <1>1, Invariance, PTL

\* The cache has the names of the store, whatever tasks are under way.
THEOREM CacheFollowsStore == Spec => []CacheIsStore
  <1>1. Inv => CacheIsStore
    BY DEF Inv
  <1> QED
    BY <1>1, Invariance, PTL

\* The first record of the name that the selected row shows is a row too.
LEMMA PickedRow ==
    ASSUME FillOK
    PROVE  PickedIsShown
  <1> SUFFICES ASSUME NEW c \in AllPickers, PickerOK(c), Rows(c) # {}
               PROVE  /\ Picked(c) \in Rows(c)
                      /\ c.records[Picked(c)].body.name = c.records[c.row].body.name
    BY DEF FillOK, PickedIsShown
  <1> DEFINE name == c.records[c.row].body.name
             same == {i \in DOMAIN c.records : c.records[i].body.name = name}
             First(i) == /\ c.records[i].body.name = name
                         /\ \A j \in 1 .. (i - 1) : c.records[j].body.name # name
  <1>1. DOMAIN c.records = 1 .. Len(c.records) /\ Len(c.records) \in Nat
    BY DEF AllPickers
  <1>2. c.row \in same /\ c.row \in Rows(c)
    BY DEF PickerOK
  <1>3. \E i \in DOMAIN c.records : First(i)
    <2>1. same \subseteq Nat /\ same # {}
      BY <1>1, <1>2
    <2> HIDE DEF same
    <2>2. PICK i \in same : \A j \in same : i <= j
      BY <2>1, LeastNumber
    <2>3. i \in DOMAIN c.records /\ i \in Nat /\ c.records[i].body.name = name
      BY <1>1, <2>2 DEF same
    <2>4. ASSUME NEW j \in 1 .. (i - 1)
          PROVE  c.records[j].body.name # name
      <3>1. j \in DOMAIN c.records /\ ~(i <= j)
        BY <1>1, <2>3
      <3> QED
        BY <2>2, <3>1 DEF same
    <2> QED
      BY <2>3, <2>4
  <1>4. Picked(c) = CHOOSE i \in DOMAIN c.records : First(i)
    BY DEF Picked
  <1> HIDE DEF First
  <1>5. Picked(c) \in DOMAIN c.records /\ First(Picked(c))
    BY <1>3, <1>4, Zenon
  <1>6. c.records[Picked(c)].body.name = name
    BY <1>5 DEF First
  <1>7. c.needle # Wildcard => name = c.needle
    BY <1>2 DEF Rows
  <1> QED
    BY <1>5, <1>6, <1>7 DEF Rows

\* What is saved is what the user was asked about, what goes is what the user
\* forgot, and what is filled is what the user picked.
THEOREM UserIsAsked == Spec => UserDecides
  <1>1. Inv => PickedIsShown
    BY PickedRow DEF Inv
  <1>2. Inv /\ [Next]_vars => [Answered]_vars /\ [Removed]_vars
    BY NextInv
  <1>3. [][Answered]_vars => SavedIsWanted
    BY PTL DEF SavedIsWanted, Answered
  <1>4. [][Removed]_vars => GoneIsForgotten
    BY PTL DEF GoneIsForgotten, Removed
  <1> QED
    BY <1>1, <1>2, <1>3, <1>4, Invariance, PTL DEF Spec, UserDecides

=============================================================================
