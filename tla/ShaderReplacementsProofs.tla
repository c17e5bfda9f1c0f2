------------------------ MODULE ShaderReplacementsProofs ------------------------
(***************************************************************************)
(* Proofs about ShaderReplacements, for every set of sessions, shaders and *)
(* ids.  The four places a replacement is known in are sequences; what the *)
(* recursive function that filters them computes is shown by induction,    *)
(* and from then on each of them is the set of ids it holds.  The          *)
(* invariant says how these sets are related between two operations and in *)
(* the middle of one.                                                      *)
(***************************************************************************)
EXTENDS ShaderReplacements, FiniteSetTheorems, WellFoundedInduction, TLAPS

\* An id is in the sequence once.
Once(q) == \A m, n \in DOMAIN q : q[m].id = q[n].id => m = n

Records == [id : Ids, session : ShaderSessions, shader : Shaders]
Saved   == [status : {"absent", "ready", "requires_restart"}, list : Seq(Entries)]
Natives == [ShaderSessions -> [Shaders -> Ids \cup {Nil, Stray}]]
Places  == {"down", "idle", "reapply", "close", "applied", "validate", "revert"}

(* The types, by what an action changes together.                           *)
JobOK ==
  /\ at \in Places
  /\ job \in [session : ShaderSessions \cup {Nil}, entry : Entries \cup {Nil}, todo : Seq(Entries)]

NativeOK ==
  /\ up \subseteq ShaderSessions
  /\ inForce \in Natives
  /\ \A s \in ShaderSessions \ up : inForce[s] = Captured
  /\ untracked \subseteq ShaderSessions \X Shaders

PatchesOK == patches \in Seq(Records) /\ Once(patches)

MetaOK ==
  /\ meta \in [ShaderSessions -> Seq(Entries)]
  /\ \A s \in ShaderSessions : Once(meta[s])

KeptOK ==
  /\ kept \in [ShaderSessions -> Saved]
  /\ \A s \in ShaderSessions : Once(kept[s].list)

HistoryOK == promised \cup reverted \subseteq ShaderSessions \X Ids

Types == JobOK /\ NativeOK /\ PatchesOK /\ MetaOK /\ KeptOK /\ HistoryOK

(* The four places as sets.                                                 *)

\* The engine: session and id of its records.
Held     == {<<e.session, e.id>> : e \in ToSet(patches)}
\* The metadata and the session record: the ids of a session.
Listed   == [s \in ShaderSessions |-> IdsOf(meta[s])]
Recorded == [s \in ShaderSessions |-> IdsOf(kept[s].list)]
\* What a recovery has still to apply.
ToApply  == IdsOf(job.todo)

(* The invariant                                                            *)

\* What the operation in progress has established.
JobInv ==
  /\ at \in {"reapply", "close", "applied", "validate", "revert"} => job.session \in ShaderSessions
  /\ at \in {"reapply", "applied", "validate", "revert"} => job.session \in up
  /\ at \in {"applied", "validate", "revert"} => job.entry \in Entries
  /\ at = "reapply" => ToApply \subseteq Recorded[job.session]
  /\ at \in {"applied", "validate"} =>
       /\ <<job.session, job.entry.id>> \in Held
       /\ \A s \in ShaderSessions : <<s, job.entry.id>> \notin promised
  /\ at = "validate" =>
       job.entry.id \in Listed[job.session] /\ job.entry.id \in Recorded[job.session]
  /\ at = "revert" => <<job.session, job.entry.id>> \notin Held \cup promised

\* An applied edit of a session that is held is in the engine and in the
\* metadata; of a session that is being recovered, in the engine or to come.
\* This is why a listing, which writes the metadata from the engine, and a
\* store, which writes the record from the metadata, lose none.
PromiseInv ==
  \A s \in ShaderSessions, i \in Ids : <<s, i>> \in promised =>
    IF at = "reapply" /\ s = job.session
      THEN <<s, i>> \in Held \/ i \in ToApply
      ELSE s \in up => <<s, i>> \in Held /\ i \in Listed[s]

RecordInv ==
  \A s \in ShaderSessions, i \in Ids : <<s, i>> \in promised => i \in Recorded[s]

RevertInv ==
  \A s \in ShaderSessions, i \in Ids : <<s, i>> \in reverted =>
    <<s, i>> \notin Held /\ i \notin Listed[s] /\ i \notin Recorded[s]

ForceInv ==
  \A s \in up, k \in Shaders :
    inForce[s][k] # Nil /\ <<s, k>> \notin untracked
      => [id |-> inForce[s][k], session |-> s, shader |-> k] \in ToSet(patches)

ShaderInv == Types /\ JobInv /\ PromiseInv /\ RecordInv /\ RevertInv /\ ForceInv

(* Names for terms the provers match better as a whole.                     *)
SetTo(s, k, x) == [inForce EXCEPT ![s][k] = x]
Replaced(q, e) == Append(Without(q, e.id), e)

---------------------------------------------------------------------------
(* Induction, and what the recursive function of Filter computes           *)

\* A set that has 0 and with a number the next one has them all.
LEMMA NatSetInduction ==
  ASSUME NEW P, 0 \in P, \A n \in Nat : n \in P => n + 1 \in P
  PROVE  Nat \subseteq P
<1>1. SUFFICES ASSUME Nat \ P # {} PROVE FALSE
  OBVIOUS
<1>2. PICK x \in Nat \ P : \A y \in Nat \ P : ~ (<<y, x>> \in OpToRel(<, Nat))
  BY <1>1, WFMin, NatLessThanWellFounded, Zenon
<1>3. \A y \in Nat \ P : ~ (y < x)
  BY <1>2, Zenon DEF OpToRel
<1>4. x # 0 /\ x - 1 \in Nat /\ x - 1 < x
  OBVIOUS
<1>5. x - 1 \in P
  BY <1>3, <1>4
<1>6. (x - 1) + 1 \in P
  BY <1>4, <1>5
<1> QED
  BY <1>6

\* The step of the recursive function of Filter.
Step(q, T, f, n) ==
  IF n = 0 THEN <<>> ELSE IF q[n] \in T THEN Append(f[n - 1], q[n]) ELSE f[n - 1]

\* The values of that function up to n.
Upto(q, T, S, n, f) ==
  f \in [0 .. n -> Seq(S)] /\ \A m \in 0 .. n : f[m] = Step(q, T, f, m)

\* The recursive function of Filter exists: by induction on the length of the
\* prefix it is defined for.
LEMMA FilterExists ==
  ASSUME NEW S, NEW T, NEW q \in Seq(S)
  PROVE  \A n \in Nat : n <= Len(q) => \E f : Upto(q, T, S, n, f)
<1> DEFINE Good(n) == n <= Len(q) => \E f : Upto(q, T, S, n, f)
           P == {n \in Nat : Good(n)}
<1>1. 0 \in P
  <2>1. [n \in 0 .. 0 |-> <<>>] \in [0 .. 0 -> Seq(S)]
    OBVIOUS
  <2>2. \A m \in 0 .. 0 : [n \in 0 .. 0 |-> <<>>][m] = Step(q, T, [n \in 0 .. 0 |-> <<>>], m)
    BY DEF Step
  <2> QED
    BY <2>1, <2>2 DEF Upto
<1>2. ASSUME NEW n \in Nat, n \in P PROVE n + 1 \in P
  <2>1. SUFFICES ASSUME n + 1 <= Len(q) PROVE \E f : Upto(q, T, S, n + 1, f)
    OBVIOUS
  <2>2. n <= Len(q)
    BY <2>1
  <2>3. PICK f : Upto(q, T, S, n, f)
    BY <1>2, <2>2
  <2>4. f \in [0 .. n -> Seq(S)] /\ \A m \in 0 .. n : f[m] = Step(q, T, f, m)
    BY <2>3 DEF Upto
  <2> DEFINE g == [m \in 0 .. n + 1 |-> IF m = n + 1 THEN Step(q, T, f, n + 1) ELSE f[m]]
  <2>5. g \in [0 .. n + 1 -> Seq(S)]
    <3>1. q[n + 1] \in S /\ f[n] \in Seq(S)
      BY <2>1, <2>4
    <3>2. Step(q, T, f, n + 1) \in Seq(S)
      BY <3>1 DEF Step
    <3> QED
      BY <2>4, <3>2
  <2>6. ASSUME NEW m \in 0 .. n + 1 PROVE g[m] = Step(q, T, g, m)
    <3>1. m # 0 => m - 1 \in 0 .. n /\ g[m - 1] = f[m - 1]
      OBVIOUS
    <3>2. Step(q, T, g, m) = Step(q, T, f, m)
      BY <3>1 DEF Step
    <3>3. m # n + 1 => m \in 0 .. n /\ g[m] = f[m]
      OBVIOUS
    <3>4. g[n + 1] = Step(q, T, f, n + 1)
      OBVIOUS
    <3> QED
      BY <2>4, <3>2, <3>3, <3>4
  <2>7. Upto(q, T, S, n + 1, g)
    BY <2>5, <2>6 DEF Upto
  <2> QED
    BY <2>7
<1>3. Nat \subseteq P
  BY <1>1, <1>2, NatSetInduction
<1> QED
  BY <1>3

\* Filter takes its entries from the last value of such a function.
LEMMA FilterIs ==
  ASSUME NEW S, NEW T, NEW q \in Seq(S)
  PROVE  \E f : Upto(q, T, S, Len(q), f) /\ Filter(q, T) = f[Len(q)]
<1>1. Len(q) \in Nat /\ Len(q) <= Len(q)
  OBVIOUS
<1>2. PICK f : Upto(q, T, S, Len(q), f)
  BY <1>1, FilterExists
<1>3. f \in [0 .. Len(q) -> Seq(S)] /\ \A m \in 0 .. Len(q) : f[m] = Step(q, T, f, m)
  BY <1>2 DEF Upto
<1> DEFINE Is(g) == g = [n \in 0 .. Len(q) |->
                          IF n = 0 THEN <<>>
                          ELSE IF q[n] \in T THEN Append(g[n - 1], q[n]) ELSE g[n - 1]]
           g == CHOOSE h : Is(h)
<1>4. Is(f)
  BY <1>3 DEF Step
<1>5. Is(g)
  BY <1>4
<1>6. Filter(q, T) = g[Len(q)]
  BY DEF Filter
<1>7. \A m \in 0 .. Len(q) : g[m] = Step(q, T, g, m)
  <2> HIDE DEF g
  <2> QED
    BY <1>5 DEF Step
<1> HIDE DEF g
\* both satisfy the same recursion, so they agree
<1> DEFINE P == {n \in Nat : n <= Len(q) => g[n] = f[n]}
<1>8. 0 \in P
  BY <1>3, <1>7 DEF Step
<1>9. ASSUME NEW n \in Nat, n \in P PROVE n + 1 \in P
  <2>1. SUFFICES ASSUME n + 1 <= Len(q) PROVE g[n + 1] = f[n + 1]
    OBVIOUS
  <2>2. g[n] = f[n]
    BY <1>9, <2>1
  <2>3. n + 1 \in 0 .. Len(q) /\ n + 1 # 0 /\ (n + 1) - 1 = n
    BY <2>1
  <2>4. Step(q, T, g, n + 1) = Step(q, T, f, n + 1)
    BY <2>2, <2>3 DEF Step
  <2> QED
    BY <1>3, <1>7, <2>3, <2>4
<1>10. Nat \subseteq P
  BY <1>8, <1>9, NatSetInduction
<1>11. Filter(q, T) = f[Len(q)]
  BY <1>6, <1>10
<1> QED
  BY <1>2, <1>11

\* What appending does to the members, the ids and their being there once.
LEMMA AppendFacts ==
  ASSUME NEW S, NEW q \in Seq(S), NEW e \in S
  PROVE  /\ Append(q, e) \in Seq(S)
         /\ ToSet(Append(q, e)) = ToSet(q) \cup {e}
         /\ Once(q) /\ e.id \notin IdsOf(q) => Once(Append(q, e))
<1>1. Append(q, e) \in Seq(S) /\ Len(Append(q, e)) = Len(q) + 1
  OBVIOUS
<1>2. DOMAIN Append(q, e) = 1 .. Len(q) + 1 /\ DOMAIN q = 1 .. Len(q) /\ Len(q) \in Nat
  OBVIOUS
<1>3. Append(q, e)[Len(q) + 1] = e /\ \A n \in 1 .. Len(q) : Append(q, e)[n] = q[n]
  OBVIOUS
<1>4. ToSet(Append(q, e)) = ToSet(q) \cup {e}
  BY <1>2, <1>3 DEF ToSet
<1>5. ASSUME Once(q), e.id \notin IdsOf(q)
      PROVE  Once(Append(q, e))
  <2> DEFINE r == Append(q, e)
  <2>1. SUFFICES ASSUME NEW m \in DOMAIN r, NEW n \in DOMAIN r, r[m].id = r[n].id
                 PROVE  m = n
    BY DEF Once
  <2>2. \A k \in DOMAIN q : q[k].id # e.id
    BY <1>5 DEF IdsOf
  <2>3. \A k \in DOMAIN r : k = Len(q) + 1 \/ k \in DOMAIN q
    BY <1>2
  <2> HIDE DEF r
  <2>4. r[Len(q) + 1] = e /\ \A k \in DOMAIN q : r[k] = q[k]
    BY <1>2, <1>3 DEF r
  <2> QED
    BY <1>5, <2>1, <2>2, <2>3, <2>4 DEF Once
<1> QED
  BY <1>1, <1>4, <1>5

\* Filter returns the members that are in the set, each as often as before.
LEMMA FilterFacts ==
  ASSUME NEW S, NEW T, NEW q \in Seq(S)
  PROVE  /\ Filter(q, T) \in Seq(S)
         /\ ToSet(Filter(q, T)) = ToSet(q) \cap T
         /\ Once(q) => Once(Filter(q, T))
<1>1. PICK f : Upto(q, T, S, Len(q), f) /\ Filter(q, T) = f[Len(q)]
  BY FilterIs
<1>2. /\ f \in [0 .. Len(q) -> Seq(S)] /\ Filter(q, T) = f[Len(q)]
      /\ \A m \in 0 .. Len(q) : f[m] = Step(q, T, f, m)
  BY <1>1 DEF Upto
<1> DEFINE Good(n) == /\ ToSet(f[n]) = {q[m] : m \in 1 .. n} \cap T
                      /\ Once(q) => Once(f[n])
           P == {n \in Nat : n <= Len(q) => Good(n)}
<1>3. DOMAIN q = 1 .. Len(q) /\ Len(q) \in Nat /\ \A n \in 1 .. Len(q) : q[n] \in S
  OBVIOUS
<1>4. 0 \in P
  <2>1. f[0] = <<>>
    BY <1>2, <1>3 DEF Step
  <2> QED
    BY <2>1 DEF ToSet, Once
<1>5. ASSUME NEW n \in Nat, n \in P PROVE n + 1 \in P
  <2>1. SUFFICES ASSUME n + 1 <= Len(q) PROVE Good(n + 1)
    OBVIOUS
  <2>2. Good(n) /\ f[n] \in Seq(S) /\ n + 1 \in DOMAIN q /\ q[n + 1] \in S
    <3>1. n <= Len(q) /\ n \in 0 .. Len(q) /\ n + 1 \in 1 .. Len(q)
      BY <1>3, <2>1
    <3>2. Good(n)
      BY <1>5, <3>1
    <3> HIDE DEF Good
    <3> QED
      BY <1>2, <1>3, <3>1, <3>2
  <2>3. f[n + 1] = IF q[n + 1] \in T THEN Append(f[n], q[n + 1]) ELSE f[n]
    <3>1. n + 1 \in 0 .. Len(q) /\ n + 1 # 0 /\ (n + 1) - 1 = n
      BY <1>3, <2>1
    <3>2. f[n + 1] = Step(q, T, f, n + 1)
      BY <1>2, <3>1
    <3> QED
      BY <3>1, <3>2 DEF Step
  <2>4. {q[m] : m \in 1 .. n + 1} = {q[m] : m \in 1 .. n} \cup {q[n + 1]}
    <3>1. 1 .. n + 1 = (1 .. n) \cup {n + 1}
      OBVIOUS
    <3> QED
      BY <3>1
  <2>5. CASE q[n + 1] \notin T
    BY <2>2, <2>3, <2>4, <2>5
  <2>6. CASE q[n + 1] \in T
    <3>1. ToSet(f[n + 1]) = ToSet(f[n]) \cup {q[n + 1]}
      BY <2>2, <2>3, <2>6, AppendFacts
    <3>2. ASSUME Once(q) PROVE q[n + 1].id \notin IdsOf(f[n])
      <4>1. SUFFICES ASSUME NEW k \in DOMAIN f[n], f[n][k].id = q[n + 1].id PROVE FALSE
        BY DEF IdsOf
      <4>2. f[n][k] \in ToSet(f[n])
        BY DEF ToSet
      <4>3. PICK m \in 1 .. n : f[n][k] = q[m]
        BY <2>2, <4>2
      <4>4. m \in DOMAIN q /\ m # n + 1
        BY <1>3, <2>1
      <4> QED
        BY <2>2, <3>2, <4>1, <4>3, <4>4 DEF Once
    <3>3. Once(q) => Once(f[n + 1])
      BY <2>2, <2>3, <2>6, <3>2, AppendFacts
    <3> QED
      BY <2>2, <2>4, <2>6, <3>1, <3>3
  <2> QED
    BY <2>5, <2>6
<1>6. Nat \subseteq P
  BY <1>4, <1>5, NatSetInduction
<1>7. Good(Len(q))
  <2>1. Len(q) \in P /\ Len(q) <= Len(q)
    BY <1>3, <1>6
  <2> HIDE DEF Good
  <2> QED
    BY <2>1
<1>8. {q[m] : m \in 1 .. Len(q)} = ToSet(q)
  BY <1>3 DEF ToSet
<1>9. f[Len(q)] \in Seq(S)
  BY <1>2, <1>3
<1> QED
  BY <1>2, <1>7, <1>8, <1>9

\* The ids are those of the members.
LEMMA IdsFacts ==
  ASSUME NEW S, NEW q \in Seq(S)
  PROVE  /\ IdsOf(q) = {e.id : e \in ToSet(q)}
         /\ ToSet(q) \subseteq S
         /\ Once(q) => \A d, e \in ToSet(q) : d.id = e.id => d = e
<1>1. DOMAIN q = 1 .. Len(q) /\ \A n \in 1 .. Len(q) : q[n] \in S
  OBVIOUS
<1> QED
  BY <1>1 DEF IdsOf, ToSet, Once

\* Removing an id removes its entry and leaves the others.
LEMMA WithoutFacts ==
  ASSUME NEW S, NEW q \in Seq(S), NEW i
  PROVE  /\ Without(q, i) \in Seq(S)
         /\ ToSet(Without(q, i)) = {e \in ToSet(q) : e.id # i}
         /\ Once(q) => Once(Without(q, i))
<1> DEFINE T == {e \in ToSet(q) : e.id # i}
<1>1. Without(q, i) = Filter(q, T)
  BY DEF Without
<1>2. ToSet(q) \cap T = T
  OBVIOUS
<1> QED
  BY <1>1, <1>2, FilterFacts

\* An assignment leaves the entries of other ids and enters the new one.
LEMMA PutFacts ==
  ASSUME NEW S, NEW q \in Seq(S), NEW e \in S, Once(q)
  PROVE  /\ Put(q, e) \in Seq(S)
         /\ ToSet(Put(q, e)) = {d \in ToSet(q) : d.id # e.id} \cup {e}
         /\ Once(Put(q, e))
<1>1. DOMAIN q = 1 .. Len(q) /\ Len(q) \in Nat /\ \A n \in 1 .. Len(q) : q[n] \in S
  OBVIOUS
<1>2. CASE e.id \notin IdsOf(q)
  <2>1. Put(q, e) = Append(q, e)
    BY <1>2 DEF Put
  <2>2. {d \in ToSet(q) : d.id # e.id} = ToSet(q)
    BY <1>2, IdsFacts
  <2> QED
    BY <1>2, <2>1, <2>2, AppendFacts
<1>3. CASE e.id \in IdsOf(q)
  <2> DEFINE r == [n \in DOMAIN q |-> IF q[n].id = e.id THEN e ELSE q[n]]
  <2>1. Put(q, e) = r
    BY <1>3 DEF Put
  <2>2. r \in Seq(S) /\ DOMAIN r = DOMAIN q
    BY <1>1
  <2>3. PICK k \in DOMAIN q : q[k].id = e.id
    BY <1>3 DEF IdsOf
  <2>4. \A n \in DOMAIN q : r[n] = IF q[n].id = e.id THEN e ELSE q[n]
    OBVIOUS
  <2> HIDE DEF r
  <2>5. ToSet(r) = {d \in ToSet(q) : d.id # e.id} \cup {e}
    BY <2>2, <2>3, <2>4 DEF ToSet
  <2>6. \A n \in DOMAIN q : r[n].id = q[n].id
    BY <2>4
  <2>7. Once(r)
    BY <2>2, <2>6 DEF Once
  <2> QED
    BY <2>1, <2>2, <2>5, <2>7
<1> QED
  BY <1>2, <1>3

\* The first entry and the others.
LEMMA TailFacts ==
  ASSUME NEW S, NEW q \in Seq(S), q # <<>>
  PROVE  /\ Head(q) \in S /\ Tail(q) \in Seq(S)
         /\ ToSet(q) = {Head(q)} \cup ToSet(Tail(q))
<1>1. DOMAIN q = 1 .. Len(q) /\ Len(q) \in Nat /\ Len(q) # 0
  OBVIOUS
<1>2. Head(q) = q[1] /\ q[1] \in S /\ Tail(q) \in Seq(S)
  BY <1>1
<1>3. DOMAIN Tail(q) = 1 .. Len(q) - 1 /\ \A n \in 1 .. Len(q) - 1 : Tail(q)[n] = q[n + 1]
  BY <1>1
<1>4. ASSUME NEW n \in DOMAIN q PROVE q[n] \in {Head(q)} \cup ToSet(Tail(q))
  <2>1. CASE n = 1
    BY <1>2, <2>1
  <2>2. CASE n # 1
    <3>1. n - 1 \in DOMAIN Tail(q) /\ Tail(q)[n - 1] = q[n]
      BY <1>1, <1>3, <2>2
    <3> QED
      BY <3>1 DEF ToSet
  <2> QED
    BY <2>1, <2>2
<1>5. ASSUME NEW n \in DOMAIN Tail(q) PROVE Tail(q)[n] \in ToSet(q)
  <2>1. n + 1 \in DOMAIN q /\ Tail(q)[n] = q[n + 1]
    BY <1>1, <1>3
  <2> QED
    BY <2>1 DEF ToSet
<1>6. Head(q) \in ToSet(q)
  BY <1>1, <1>2 DEF ToSet
<1>7. \A x \in ToSet(Tail(q)) : x \in ToSet(q)
  BY <1>5 DEF ToSet
<1>8. \A x \in ToSet(q) : x \in {Head(q)} \cup ToSet(Tail(q))
  BY <1>4 DEF ToSet
<1> QED
  BY <1>2, <1>6, <1>7, <1>8

\* An id that is there once is counted once.
LEMMA OnceIsUnique ==
  ASSUME NEW S, NEW q \in Seq(S), Once(q)
  PROVE  Unique(q)
<1>1. DOMAIN q = 1 .. Len(q) /\ Len(q) \in Nat
  OBVIOUS
<1> DEFINE f == [n \in 1 .. Len(q) |-> q[n].id]
<1>2. f \in Bijection(1 .. Len(q), IdsOf(q))
  <2>1. f \in [1 .. Len(q) -> IdsOf(q)]
    BY <1>1 DEF IdsOf
  <2>2. \A m, n \in 1 .. Len(q) : f[m] = f[n] => m = n
    BY <1>1 DEF Once
  <2>3. \A i \in IdsOf(q) : \E n \in 1 .. Len(q) : f[n] = i
    BY <1>1 DEF IdsOf
  <2> HIDE DEF f
  <2> QED
    BY <2>1, <2>2, <2>3 DEF Bijection, Injection, IsInjective, Surjection
<1>3. ExistsBijection(1 .. Len(q), IdsOf(q))
  BY <1>2 DEF ExistsBijection
<1>4. Cardinality(IdsOf(q)) = Len(q)
  BY <1>1, <1>3, FS_CountingElements
<1> QED
  BY <1>4 DEF Unique

---------------------------------------------------------------------------
(* From sequences to sets of ids                                           *)

\* What the sequences are to the sets of ids.
LEMMA EmptyFacts ==
  ASSUME NEW S
  PROVE  <<>> \in Seq(S) /\ Once(<<>>) /\ IdsOf(<<>>) = {} /\ ToSet(<<>>) = {}
BY DEF Once, IdsOf, ToSet

\* A sequence without ids is empty.
LEMMA EmptyIds ==
  ASSUME NEW S, NEW q \in Seq(S), IdsOf(q) = {}
  PROVE  q = <<>>
<1>1. DOMAIN q = 1 .. Len(q) /\ Len(q) \in Nat
  OBVIOUS
<1>2. Len(q) = 0
  <2>1. ASSUME Len(q) # 0 PROVE FALSE
    <3>1. q[1].id \in IdsOf(q)
      BY <1>1, <2>1 DEF IdsOf
    <3> QED
      BY <3>1
  <2> QED
    BY <2>1
<1> QED
  BY <1>2

\* A session's list after an entry was replaced by a new one at its end.
LEMMA ReplaceFacts ==
  ASSUME NEW S, NEW q \in Seq(S), NEW e \in S, Once(q), NEW r, r = Replaced(q, e)
  PROVE  r \in Seq(S) /\ Once(r) /\ IdsOf(r) = IdsOf(q) \cup {e.id}
<1> DEFINE w == Without(q, e.id)
<1>1. w \in Seq(S) /\ ToSet(w) = {d \in ToSet(q) : d.id # e.id} /\ Once(w)
  BY WithoutFacts
<1> HIDE DEF w
<1>2. IdsOf(w) = {d.id : d \in ToSet(w)}
  BY <1>1, IdsFacts
<1>3. e.id \notin IdsOf(w)
  BY <1>1, <1>2
<1>4. r \in Seq(S) /\ ToSet(r) = ToSet(w) \cup {e} /\ Once(r)
  <2>1. r = Append(w, e)
    BY DEF w, Replaced
  <2> QED
    BY <1>1, <1>3, <2>1, AppendFacts
<1>5. IdsOf(r) = {d.id : d \in ToSet(r)}
  BY <1>4, IdsFacts
<1>6. IdsOf(q) = {d.id : d \in ToSet(q)}
  BY IdsFacts
<1>7. IdsOf(r) = IdsOf(q) \cup {e.id}
  BY <1>1, <1>4, <1>5, <1>6
<1> QED
  BY <1>4, <1>7

\* Removing an id removes it from the ids.
LEMMA WithoutIds ==
  ASSUME NEW S, NEW q \in Seq(S), NEW i
  PROVE  IdsOf(Without(q, i)) = IdsOf(q) \ {i}
<1>1. Without(q, i) \in Seq(S) /\ ToSet(Without(q, i)) = {d \in ToSet(q) : d.id # i}
  BY WithoutFacts
<1>2. IdsOf(Without(q, i)) = {d.id : d \in ToSet(Without(q, i))}
  BY <1>1, IdsFacts
<1>3. IdsOf(q) = {d.id : d \in ToSet(q)}
  BY IdsFacts
<1> QED
  BY <1>1, <1>2, <1>3

\* The engine knows what it holds.
LEMMA KnownIsHeld ==
  /\ \A s, i : Known(s, i) <=> <<s, i>> \in Held
  /\ \A s, i : Known(s, i)' <=> <<s, i>> \in Held'
<1>1. ASSUME NEW s, NEW i PROVE Known(s, i) <=> <<s, i>> \in Held
  BY DEF Known, Held, ToSet
<1>2. ASSUME NEW s, NEW i PROVE Known(s, i)' <=> <<s, i>> \in Held'
  BY DEF Known, Held, ToSet
<1> QED
  BY <1>1, <1>2

\* A record of the engine is of one session and one shader.
LEMMA HeldFacts ==
  ASSUME Types
  PROVE  /\ Held \subseteq ShaderSessions \X Ids
         /\ \A s, z, i : <<s, i>> \in Held /\ <<z, i>> \in Held => s = z
         /\ \A s, i : <<s, i>> \in Held =>
              /\ ShaderOf(i) \in Shaders
              /\ \A e \in ToSet(patches) :
                   e.id = i => e = [id |-> i, session |-> s, shader |-> ShaderOf(i)]
<1>1. /\ ToSet(patches) \subseteq Records
      /\ \A d, e \in ToSet(patches) : d.id = e.id => d = e
  BY IdsFacts DEF Types, PatchesOK
<1>2. Held \subseteq ShaderSessions \X Ids
  BY <1>1 DEF Held, Records
<1>3. \A s, z, i : <<s, i>> \in Held /\ <<z, i>> \in Held => s = z
  BY <1>1 DEF Held
<1>4. ASSUME NEW s, NEW i, <<s, i>> \in Held
      PROVE  /\ ShaderOf(i) \in Shaders
             /\ \A e \in ToSet(patches) :
                  e.id = i => e = [id |-> i, session |-> s, shader |-> ShaderOf(i)]
  <2>1. PICK e \in ToSet(patches) : e.id = i /\ e.session = s
    BY <1>4 DEF Held
  <2>2. (CHOOSE d \in ToSet(patches) : d.id = i) = e
    BY <1>1, <2>1
  <2>3. ShaderOf(i) = e.shader
    BY <2>2 DEF ShaderOf
  <2>4. /\ e \in Records /\ e = [id |-> i, session |-> s, shader |-> e.shader]
        /\ e.shader \in Shaders
    BY <1>1, <2>1 DEF Records
  <2> QED
    BY <1>1, <2>1, <2>3, <2>4
<1> QED
  BY <1>2, <1>3, <1>4

---------------------------------------------------------------------------
(* The steps of the engine                                                 *)

\* A shader given back, or left with a target that nobody knows.
LEMMA SetFacts ==
  ASSUME Types, NEW s \in up, NEW k \in Shaders, NEW x \in Ids \cup {Nil, Stray},
         NEW f, f = SetTo(s, k, x)
  PROVE  /\ f \in Natives
         /\ f[s][k] = x
         /\ \A z \in ShaderSessions, y \in Shaders : z # s \/ y # k => f[z][y] = inForce[z][y]
         /\ \A z \in ShaderSessions \ up : f[z] = Captured
<1>1. /\ s \in ShaderSessions /\ inForce \in Natives
      /\ \A z \in ShaderSessions \ up : inForce[z] = Captured
  BY DEF Types, NativeOK
<1>2. f = [inForce EXCEPT ![s] = [inForce[s] EXCEPT ![k] = x]]
  BY <1>1 DEF Natives, SetTo
<1>3. [inForce[s] EXCEPT ![k] = x] \in [Shaders -> Ids \cup {Nil, Stray}]
  BY <1>1 DEF Natives
<1>4. /\ f \in Natives /\ f[s] = [inForce[s] EXCEPT ![k] = x]
      /\ \A z \in ShaderSessions \ {s} : f[z] = inForce[z]
  BY <1>1, <1>2, <1>3 DEF Natives
<1>5. \A y \in Shaders : f[s][y] = IF y = k THEN x ELSE inForce[s][y]
  BY <1>1, <1>4 DEF Natives
<1> QED
  BY <1>1, <1>4, <1>5

\* An applied patch takes its id over from whoever had it, and what that one had
\* in force is given up.
LEMMA ApplyDoneFacts ==
  ASSUME Types, NEW s \in up, NEW i \in Ids, NEW k \in Shaders, ApplyDone(s, i, k)
  PROVE  /\ PatchesOK'
         /\ Held' = {p \in Held : p[2] # i} \cup {<<s, i>>}
         /\ up' = up => NativeOK'
         /\ ForceInv /\ up' = up => ForceInv'
<1> DEFINE r == [id |-> i, session |-> s, shader |-> k]
           robbed == {p \in ShaderSessions \X Shaders : inForce[p[1]][p[2]] = i} \ {<<s, k>>}
<1>1. /\ s \in ShaderSessions /\ inForce \in Natives
      /\ \A z \in ShaderSessions \ up : inForce[z] = Captured
      /\ patches \in Seq(Records) /\ Once(patches) /\ r \in Records
      /\ untracked \subseteq ShaderSessions \X Shaders
  BY DEF Types, NativeOK, PatchesOK, Records
<1>2. /\ patches' = Put(patches, r)
      /\ untracked' = (untracked \ {<<s, k>>}) \cup robbed
      /\ inForce' = [z \in ShaderSessions |-> [x \in Shaders |->
                       IF z = s /\ x = k THEN i
                       ELSE IF <<z, x>> \in robbed THEN Stray ELSE inForce[z][x]]]
  BY DEF ApplyDone
<1>3. /\ patches' \in Seq(Records) /\ Once(patches')
      /\ ToSet(patches') = {d \in ToSet(patches) : d.id # i} \cup {r}
  <2>1. r.id = i
    OBVIOUS
  <2> HIDE DEF r
  <2> QED
    BY <1>1, <1>2, <2>1, PutFacts
<1>4. Held' = {p \in Held : p[2] # i} \cup {<<s, i>>}
  <2>1. r.id = i /\ r.session = s
    OBVIOUS
  <2> HIDE DEF r
  <2>2. Held' = {<<e.session, e.id>> : e \in {d \in ToSet(patches) : d.id # i} \cup {r}}
    BY <1>3 DEF Held
  <2>3. \A e \in ToSet(patches) : <<e.session, e.id>>[2] = e.id
    OBVIOUS
  <2> QED
    BY <2>1, <2>2, <2>3 DEF Held
<1>5. inForce' \in Natives
  BY <1>1, <1>2 DEF Natives
<1>6. ASSUME NEW z \in ShaderSessions \ up PROVE inForce'[z] = Captured
  <2>1. \A x \in Shaders : inForce[z][x] = Nil /\ Nil # i
    BY <1>1, NilAssumption DEF Captured
  <2>2. \A x \in Shaders : <<z, x>> \notin robbed
    BY <2>1
  <2>3. \A x \in Shaders : inForce'[z][x] = Nil
    BY <1>2, <2>1, <2>2
  <2>4. inForce'[z] = [x \in Shaders |-> inForce'[z][x]]
    BY <1>5 DEF Natives
  <2> QED
    BY <2>3, <2>4 DEF Captured
<1>7. untracked' \subseteq ShaderSessions \X Shaders
  BY <1>1, <1>2
<1>8. ASSUME ForceInv, up' = up PROVE ForceInv'
  <2>1. SUFFICES ASSUME NEW z \in up, NEW x \in Shaders,
                        inForce'[z][x] # Nil, <<z, x>> \notin untracked'
                 PROVE  [id |-> inForce'[z][x], session |-> z, shader |-> x] \in ToSet(patches')
    BY <1>8 DEF ForceInv
  <2>2. z \in ShaderSessions
    BY DEF Types, NativeOK
  <2>3. CASE z = s /\ x = k
    BY <1>2, <1>3, <2>2, <2>3
  <2>4. CASE ~(z = s /\ x = k)
    <3>1. <<z, x>> \notin robbed /\ <<z, x>> \notin untracked
      BY <1>2, <2>1, <2>4
    <3>2. inForce'[z][x] = inForce[z][x]
      BY <1>2, <2>2, <2>4, <3>1
    <3>3. inForce[z][x] # i
      BY <2>2, <2>4, <3>1
    <3>4. [id |-> inForce[z][x], session |-> z, shader |-> x] \in ToSet(patches)
      BY <1>8, <2>1, <3>1, <3>2 DEF ForceInv
    <3> QED
      BY <1>3, <3>2, <3>3, <3>4
  <2> QED
    BY <2>3, <2>4
<1>9. PatchesOK' /\ (up' = up => NativeOK')
  BY <1>1, <1>3, <1>5, <1>6, <1>7 DEF PatchesOK, NativeOK, Types
<1> QED
  BY <1>4, <1>8, <1>9

\* What is given back leaves the others as they are.
LEMMA RemovedFacts ==
  ASSUME Types, NEW s \in up, NEW k \in Shaders,
         inForce' = Removed(s, k), untracked' = untracked \ {<<s, k>>}
  PROVE  /\ inForce' \in Natives
         /\ \A z \in ShaderSessions \ up : inForce'[z] = Captured
         /\ untracked' \subseteq ShaderSessions \X Shaders
         /\ \A z \in up, y \in Shaders :
              inForce'[z][y] # Nil /\ <<z, y>> \notin untracked' =>
                /\ <<z, y>> # <<s, k>>
                /\ inForce'[z][y] = inForce[z][y] /\ <<z, y>> \notin untracked
<1>1. up \subseteq ShaderSessions /\ untracked \subseteq ShaderSessions \X Shaders
  BY DEF Types, NativeOK
<1>2. inForce' = SetTo(s, k, Nil) /\ Nil \in Ids \cup {Nil, Stray}
  BY DEF Removed, SetTo
<1>3. /\ inForce' \in Natives /\ inForce'[s][k] = Nil
      /\ \A z \in ShaderSessions, y \in Shaders :
           z # s \/ y # k => inForce'[z][y] = inForce[z][y]
      /\ \A z \in ShaderSessions \ up : inForce'[z] = Captured
  BY <1>2, SetFacts
<1> QED
  BY <1>1, <1>3

\* A reverted patch leaves nothing of its id, in the engine or in force.
LEMMA RevertDoneFacts ==
  ASSUME Types, NEW s \in up, NEW i, <<s, i>> \in Held, RevertDone(s, i)
  PROVE  /\ PatchesOK'
         /\ Held' = Held \ {<<s, i>>}
         /\ up' = up => NativeOK'
         /\ ForceInv /\ up' = up => ForceInv'
<1> DEFINE k == ShaderOf(i)
<1>1. /\ k \in Shaders
      /\ \A e \in ToSet(patches) : e.id = i => e = [id |-> i, session |-> s, shader |-> k]
      /\ \A z : <<z, i>> \in Held => z = s
      /\ Held \subseteq ShaderSessions \X Ids
  BY HeldFacts
<1> HIDE DEF k
<1>2. /\ patches' = Without(patches, i) /\ inForce' = Removed(s, k)
      /\ untracked' = untracked \ {<<s, k>>}
  BY DEF RevertDone, k
<1>3. /\ patches' \in Seq(Records) /\ Once(patches')
      /\ ToSet(patches') = {e \in ToSet(patches) : e.id # i}
  BY <1>2, WithoutFacts DEF Types, PatchesOK
<1>4. Held' = Held \ {<<s, i>>}
  BY <1>1, <1>3 DEF Held
<1>5. /\ inForce' \in Natives
      /\ \A z \in ShaderSessions \ up : inForce'[z] = Captured
      /\ untracked' \subseteq ShaderSessions \X Shaders
      /\ \A z \in up, y \in Shaders :
           inForce'[z][y] # Nil /\ <<z, y>> \notin untracked' =>
             /\ <<z, y>> # <<s, k>>
             /\ inForce'[z][y] = inForce[z][y] /\ <<z, y>> \notin untracked
  BY <1>1, <1>2, RemovedFacts
<1>6. ASSUME ForceInv, up' = up PROVE ForceInv'
  <2>1. SUFFICES ASSUME NEW z \in up, NEW x \in Shaders,
                        inForce'[z][x] # Nil, <<z, x>> \notin untracked'
                 PROVE  [id |-> inForce'[z][x], session |-> z, shader |-> x] \in ToSet(patches')
    BY <1>6 DEF ForceInv
  <2>2. /\ <<z, x>> # <<s, k>>
        /\ inForce'[z][x] = inForce[z][x] /\ <<z, x>> \notin untracked
    BY <1>5, <2>1
  <2>3. [id |-> inForce[z][x], session |-> z, shader |-> x] \in ToSet(patches)
    BY <1>6, <2>1, <2>2 DEF ForceInv
  <2>4. inForce[z][x] # i
    <3> DEFINE e == [id |-> inForce[z][x], session |-> z, shader |-> x]
    <3>1. e \in ToSet(patches) /\ e.id = inForce[z][x] /\ e.session = z /\ e.shader = x
      BY <2>3
    <3> HIDE DEF e
    <3> QED
      BY <1>1, <2>2, <3>1
  <2> QED
    BY <1>3, <2>2, <2>3, <2>4
<1>7. PatchesOK' /\ (up' = up => NativeOK')
  BY <1>3, <1>5 DEF PatchesOK, NativeOK, Types
<1> QED
  BY <1>4, <1>6, <1>7

\* A revert that raises leaves the record, whatever became of what was in force.
LEMMA RevertRaisesFacts ==
  ASSUME Types, NEW s \in up, NEW i, <<s, i>> \in Held, RevertRaises(s, i)
  PROVE  /\ patches' = patches
         /\ up' = up => NativeOK'
         /\ ForceInv /\ up' = up => ForceInv'
<1> DEFINE k == ShaderOf(i)
<1>1. k \in Shaders /\ patches' = patches
  BY HeldFacts DEF RevertRaises
<1> HIDE DEF k
<1>2. CASE UNCHANGED <<inForce, untracked>>
  BY <1>1, <1>2 DEF Types, NativeOK, ForceInv
<1>3. CASE inForce' = Removed(s, k) /\ untracked' = untracked \ {<<s, k>>}
  <2>1. /\ inForce' \in Natives
        /\ \A z \in ShaderSessions \ up : inForce'[z] = Captured
        /\ untracked' \subseteq ShaderSessions \X Shaders
        /\ \A z \in up, y \in Shaders :
             inForce'[z][y] # Nil /\ <<z, y>> \notin untracked' =>
               /\ <<z, y>> # <<s, k>>
               /\ inForce'[z][y] = inForce[z][y] /\ <<z, y>> \notin untracked
    BY <1>1, <1>3, RemovedFacts
  <2> QED
    BY <1>1, <2>1 DEF ForceInv, NativeOK, Types
<1> QED
  BY <1>1, <1>2, <1>3 DEF RevertRaises, k

\* The records of other sessions stay.
LEMMA RevertAllFacts ==
  ASSUME Types, NEW S, RevertAll(S)
  PROVE  /\ PatchesOK'
         /\ Held' \subseteq Held
         /\ \A p \in Held : p[1] \notin S => p \in Held'
         /\ \A e \in ToSet(patches) : e.session \notin S => e \in ToSet(patches')
<1>1. PICK stuck : patches' = Filter(patches, {e \in ToSet(patches) :
                                                 e.session \notin S \/ e.id \in stuck})
  BY DEF RevertAll
<1> DEFINE T == {e \in ToSet(patches) : e.session \notin S \/ e.id \in stuck}
<1>2. patches' \in Seq(Records) /\ Once(patches') /\ ToSet(patches') = ToSet(patches) \cap T
  <2> HIDE DEF T
  <2>1. patches' = Filter(patches, T)
    BY <1>1 DEF T
  <2> QED
    BY <2>1, FilterFacts DEF Types, PatchesOK
<1>3. ToSet(patches') = T
  BY <1>2
<1> QED
  BY <1>2, <1>3 DEF Held, PatchesOK

\* Sessions that are closed have nothing in force, the others what they had.
LEMMA CloseDownFacts ==
  ASSUME Types, NEW S, CloseDown(S)
  PROVE  /\ NativeOK'
         /\ ForceInv /\ (\A e \in ToSet(patches) : e.session \notin S => e \in ToSet(patches'))
              => ForceInv'
<1>1. /\ up \subseteq ShaderSessions /\ inForce \in Natives
      /\ \A z \in ShaderSessions \ up : inForce[z] = Captured
      /\ untracked \subseteq ShaderSessions \X Shaders
  BY DEF Types, NativeOK
<1>2. /\ up' = up \ S
      /\ inForce' = [z \in ShaderSessions |-> IF z \in S THEN Captured ELSE inForce[z]]
      /\ untracked' = {p \in untracked : p[1] \notin S}
  BY DEF CloseDown
<1>3. Captured \in [Shaders -> Ids \cup {Nil, Stray}]
  BY DEF Captured
<1>4. inForce' \in Natives /\ \A z \in ShaderSessions \ up' : inForce'[z] = Captured
  BY <1>1, <1>2, <1>3 DEF Natives
<1>5. ASSUME ForceInv, \A e \in ToSet(patches) : e.session \notin S => e \in ToSet(patches')
      PROVE  ForceInv'
  BY <1>1, <1>2, <1>5 DEF ForceInv
<1> QED
  BY <1>1, <1>2, <1>4, <1>5 DEF NativeOK

\* An entry is what it is made of.
LEMMA EntryFacts ==
  ASSUME NEW i \in Ids, NEW k \in Shaders
  PROVE  /\ Entry(i, k, TRUE) \in Entries /\ Entry(i, k, TRUE).id = i
         /\ Entry(i, k, FALSE) \in Entries /\ Entry(i, k, FALSE).id = i
BY DEF Entry, Entries

\* list_replacements lists what the engine has.
LEMMA ListingFacts ==
  ASSUME Types, NEW s \in ShaderSessions
  PROVE  /\ Listing(s) \in Seq(Entries) /\ Once(Listing(s))
         /\ IdsOf(Listing(s)) = {i \in Ids : <<s, i>> \in Held}
<1> DEFINE own == PatchesOf(s)
           T == {e \in ToSet(patches) : e.session = s}
           Described(e) == IF e.id \in IdsOf(meta[s])
                             THEN CHOOSE x \in ToSet(meta[s]) : x.id = e.id
                             ELSE Entry(e.id, e.shader, FALSE)
<1>1. own = Filter(patches, T) /\ Listing(s) = [n \in DOMAIN own |-> Described(own[n])]
  BY DEF PatchesOf, Listing
<1>2. own \in Seq(Records) /\ Once(own) /\ ToSet(own) = T
  BY <1>1, FilterFacts DEF Types, PatchesOK
<1>3. ToSet(patches) \subseteq Records
  BY IdsFacts DEF Types, PatchesOK
<1>4. ASSUME NEW e \in Records PROVE Described(e) \in Entries /\ Described(e).id = e.id
  <2>1. CASE e.id \in IdsOf(meta[s])
    <3>1. meta[s] \in Seq(Entries)
      BY DEF Types, MetaOK
    <3>2. ToSet(meta[s]) \subseteq Entries /\ IdsOf(meta[s]) = {d.id : d \in ToSet(meta[s])}
      BY <3>1, IdsFacts
    <3>3. \E x \in ToSet(meta[s]) : x.id = e.id
      BY <2>1, <3>2
    <3>4. PICK x \in ToSet(meta[s]) : x.id = e.id /\ Described(e) = x
      BY <2>1, <3>3
    <3> QED
      BY <3>2, <3>4
  <2>2. CASE e.id \notin IdsOf(meta[s])
    <3>1. Described(e) = Entry(e.id, e.shader, FALSE)
      BY <2>2
    <3>2. e.id \in Ids /\ e.shader \in Shaders
      BY DEF Records
    <3>3. Entry(e.id, e.shader, FALSE) \in Entries /\ Entry(e.id, e.shader, FALSE).id = e.id
      BY <3>2, EntryFacts
    <3> HIDE DEF Described
    <3> QED
      BY <3>1, <3>3
  <2> QED
    BY <2>1, <2>2
<1> HIDE DEF Described, own
<1> DEFINE q == Listing(s)
<1>5. DOMAIN own = 1 .. Len(own) /\ Len(own) \in Nat /\ \A n \in DOMAIN own : own[n] \in Records
  BY <1>2
<1>6. q = [n \in 1 .. Len(own) |-> Described(own[n])]
  BY <1>1, <1>5
<1>7. \A n \in 1 .. Len(own) : q[n] \in Entries /\ q[n].id = own[n].id
  BY <1>4, <1>5, <1>6
<1>8. q \in Seq(Entries) /\ DOMAIN q = DOMAIN own
  BY <1>5, <1>6, <1>7
<1> HIDE DEF q
<1>9. Once(q)
  BY <1>2, <1>5, <1>7, <1>8 DEF Once
<1>10. IdsOf(q) = IdsOf(own)
  BY <1>5, <1>7, <1>8 DEF IdsOf
<1>11. IdsOf(own) = {e.id : e \in T}
  <2>1. IdsOf(own) = {e.id : e \in ToSet(own)}
    BY <1>2, IdsFacts
  <2> QED
    BY <1>2, <2>1
<1>12. {e.id : e \in T} = {i \in Ids : <<s, i>> \in Held}
  BY <1>3 DEF Held, Records
<1> QED
  BY <1>8, <1>9, <1>10, <1>11, <1>12 DEF q

---------------------------------------------------------------------------
(* What a step does to the lists                                           *)

\* What a step leaves alone is as good as before.
LEMMA Stays ==
  ASSUME Types
  PROVE  /\ UNCHANGED patches => PatchesOK' /\ Held' = Held
         /\ UNCHANGED meta => MetaOK' /\ Listed' = Listed
         /\ UNCHANGED kept => KeptOK' /\ Recorded' = Recorded
         /\ UNCHANGED <<native, untracked>> => NativeOK'
         /\ UNCHANGED job => ToApply' = ToApply
         /\ UNCHANGED <<native, patches, untracked>> /\ ForceInv => ForceInv'
         /\ job' = NoJob /\ at' \in Places => JobOK'
<1>1. UNCHANGED <<native, untracked>> => NativeOK'
  BY DEF Types, NativeOK, native
<1>2. UNCHANGED <<native, patches, untracked>> /\ ForceInv => ForceInv'
  BY DEF ForceInv, native
<1>3. job' = NoJob /\ at' \in Places => JobOK'
  BY EmptyFacts DEF NoJob, JobOK
<1>4. /\ UNCHANGED patches => PatchesOK' /\ Held' = Held
      /\ UNCHANGED meta => MetaOK' /\ Listed' = Listed
      /\ UNCHANGED kept => KeptOK' /\ Recorded' = Recorded
      /\ UNCHANGED job => ToApply' = ToApply
  BY DEF Types, PatchesOK, MetaOK, KeptOK, Held, Listed, Recorded, ToApply
<1> QED
  BY <1>1, <1>2, <1>3, <1>4

\* The metadata of a session, set.
LEMMA MetaSet ==
  ASSUME Types, NEW s \in ShaderSessions, NEW q \in Seq(Entries), Once(q),
         meta' = [meta EXCEPT ![s] = q]
  PROVE  MetaOK' /\ Listed' = [Listed EXCEPT ![s] = IdsOf(q)]
BY DEF Types, MetaOK, Listed

\* The record of a session, set.
LEMMA KeptSet ==
  ASSUME Types, NEW s \in ShaderSessions, NEW r \in Saved, Once(r.list),
         kept' = [kept EXCEPT ![s] = r]
  PROVE  KeptOK' /\ Recorded' = [Recorded EXCEPT ![s] = IdsOf(r.list)]
BY DEF Types, KeptOK, Recorded

\* The replacements of the record, set.
LEMMA KeptListSet ==
  ASSUME Types, NEW s \in ShaderSessions, NEW q \in Seq(Entries), Once(q),
         kept' = [kept EXCEPT ![s].list = q]
  PROVE  KeptOK' /\ Recorded' = [Recorded EXCEPT ![s] = IdsOf(q)]
<1> DEFINE r == [kept[s] EXCEPT !.list = q]
<1>1. kept[s] \in Saved
  BY DEF Types, KeptOK
<1>2. r \in Saved /\ r.list = q
  BY <1>1 DEF Saved
<1>3. kept' = [kept EXCEPT ![s] = r]
  BY DEF Types, KeptOK
<1> HIDE DEF r
<1> QED
  BY <1>2, <1>3, KeptSet

\* Its status, set.
LEMMA KeptStatusSet ==
  ASSUME Types, NEW s \in ShaderSessions, kept' = [kept EXCEPT ![s].status = "requires_restart"]
  PROVE  KeptOK' /\ Recorded' = Recorded
<1> DEFINE r == [kept[s] EXCEPT !.status = "requires_restart"]
<1>1. kept[s] \in Saved /\ Once(kept[s].list)
  BY DEF Types, KeptOK
<1>2. r \in Saved /\ r.list = kept[s].list
  BY <1>1 DEF Saved
<1>3. kept' = [kept EXCEPT ![s] = r]
  BY DEF Types, KeptOK
<1> HIDE DEF r
<1>4. KeptOK' /\ Recorded' = [Recorded EXCEPT ![s] = IdsOf(r.list)]
  BY <1>1, <1>2, <1>3, KeptSet
<1> QED
  BY <1>2, <1>4 DEF Recorded

\* No records.
LEMMA AbsentFacts ==
  /\ Absent \in Saved /\ Absent.list = <<>>
  /\ [status |-> "ready", list |-> <<>>] \in Saved
BY EmptyFacts DEF Absent, Saved

\* Without records nothing is recorded.
LEMMA AllAbsent ==
  ASSUME kept' = [s \in ShaderSessions |-> Absent]
  PROVE  KeptOK' /\ Recorded' = [s \in ShaderSessions |-> {}]
BY AbsentFacts, EmptyFacts DEF KeptOK, Recorded

\* Without metadata nothing is listed.
LEMMA NoMeta ==
  ASSUME meta' = [s \in ShaderSessions |-> <<>>]
  PROVE  MetaOK' /\ Listed' = [s \in ShaderSessions |-> {}]
BY EmptyFacts DEF MetaOK, Listed

\* What the lists are to the sets.
LEMMA ListFacts ==
  ASSUME Types, NEW s \in ShaderSessions
  PROVE  /\ meta[s] \in Seq(Entries) /\ Once(meta[s]) /\ Listed[s] = IdsOf(meta[s])
         /\ kept[s] \in Saved /\ kept[s].list \in Seq(Entries)
         /\ Once(kept[s].list) /\ Recorded[s] = IdsOf(kept[s].list)
BY DEF Types, MetaOK, KeptOK, Listed, Recorded, Saved

\* The sets hold ids.
LEMMA ListTypes ==
  ASSUME Types
  PROVE  /\ Listed \in [ShaderSessions -> SUBSET Ids]
         /\ Recorded \in [ShaderSessions -> SUBSET Ids]
         /\ ToApply \subseteq Ids
<1>1. ASSUME NEW q \in Seq(Entries) PROVE IdsOf(q) \subseteq Ids
  <2>1. IdsOf(q) = {e.id : e \in ToSet(q)} /\ ToSet(q) \subseteq Entries
    BY IdsFacts
  <2> QED
    BY <2>1 DEF Entries
<1>2. job.todo \in Seq(Entries)
  BY DEF Types, JobOK
<1>3. \A s \in ShaderSessions : IdsOf(meta[s]) \subseteq Ids /\ IdsOf(kept[s].list) \subseteq Ids
  BY <1>1, ListFacts
<1> QED
  BY <1>1, <1>2, <1>3 DEF Listed, Recorded, ToApply

---------------------------------------------------------------------------
(* The steps of the worker                                                 *)

\* The captured shaders are in force before any edit.
LEMMA CapturedFacts ==
  /\ Captured \in [Shaders -> Ids \cup {Nil, Stray}] /\ \A k \in Shaders : Captured[k] = Nil
BY DEF Captured

\* What is in force after a shader was given back can be reverted if it could before.
LEMMA RemovedForce ==
  ASSUME Types, ForceInv, NEW s \in up, NEW k \in Shaders,
         inForce' = Removed(s, k), untracked' = untracked \ {<<s, k>>}, UNCHANGED <<up, patches>>
  PROVE  NativeOK' /\ ForceInv'
BY RemovedFacts DEF Types, NativeOK, ForceInv

\* A lost worker takes everything but the records and what was said.
LEMMA Lost ==
  ASSUME ShaderInv, ShaderWorkerLost
  PROVE  ShaderInv'
<1>1. Types /\ JobInv /\ PromiseInv /\ RecordInv /\ RevertInv /\ ForceInv
  BY DEF ShaderInv
<1>2. at' = "down" /\ job' = NoJob /\ JobOK' /\ up' = {} /\ UNCHANGED <<promised, reverted>>
  BY <1>1, Stays DEF ShaderWorkerLost, Go, Places
<1>3. NativeOK'
  BY <1>1, CapturedFacts DEF ShaderWorkerLost, NativeOK, Natives
<1>4. PatchesOK' /\ Held' = {}
  BY EmptyFacts DEF ShaderWorkerLost, PatchesOK, Held
<1>5. MetaOK' /\ Listed' = [s \in ShaderSessions |-> {}]
  BY NoMeta DEF ShaderWorkerLost
<1>6. KeptOK' /\ Recorded' = Recorded
  BY <1>1, Stays DEF ShaderWorkerLost
<1>7. HistoryOK'
  BY <1>1, <1>2 DEF Types, HistoryOK
<1>8. Types'
  BY <1>1, <1>2, <1>3, <1>4, <1>5, <1>6, <1>7 DEF Types
<1>9. JobInv'
  BY <1>1, <1>2, <1>3, <1>4, <1>5, <1>6, <1>7, ListTypes, HeldFacts
     DEF JobInv, PromiseInv, RevertInv
<1>10. PromiseInv'
  BY <1>1, <1>2, <1>3, <1>4, <1>5, <1>6, <1>7, ListTypes, HeldFacts
     DEF PromiseInv, JobInv, RecordInv
<1>11. RecordInv'
  BY <1>1, <1>2, <1>3, <1>4, <1>5, <1>6, <1>7, ListTypes, HeldFacts
     DEF RecordInv, JobInv, PromiseInv
<1>12. RevertInv'
  BY <1>1, <1>2, <1>3, <1>4, <1>5, <1>6, <1>7, ListTypes, HeldFacts DEF RevertInv, JobInv
<1>13. ForceInv'
  BY <1>1, <1>2 DEF ForceInv
<1> QED
  BY <1>8, <1>9, <1>10, <1>11, <1>12, <1>13 DEF ShaderInv

\* The quarantine of a record keeps its replacements.
LEMMA Started ==
  ASSUME ShaderInv, ShaderWorkerStart
  PROVE  ShaderInv'
<1>1. Types /\ JobInv /\ PromiseInv /\ RecordInv /\ RevertInv /\ ForceInv
  BY DEF ShaderInv
<1>2. at = "down" /\ at' = "idle" /\ job' = NoJob /\ JobOK' /\ UNCHANGED <<promised, reverted>>
      /\ UNCHANGED <<native, patches, untracked, up>>
  BY <1>1, Stays DEF ShaderWorkerStart, Rest, Places, history, native
<1>3. NativeOK' /\ PatchesOK' /\ Held' = Held /\ MetaOK' /\ Listed' = Listed /\ UNCHANGED meta
  BY <1>1, <1>2, Stays DEF ShaderWorkerStart
<1>4. KeptOK' /\ Recorded' = Recorded
  <2>1. CASE UNCHANGED kept
    BY <1>1, <2>1, Stays
  <2>2. CASE kept' = [s \in ShaderSessions |-> IF s \in KeptSessions
                       THEN [kept[s] EXCEPT !.status = "requires_restart"] ELSE Absent]
    <3>1. ASSUME NEW s \in ShaderSessions
          PROVE  kept'[s] \in Saved /\ kept'[s].list = kept[s].list
      <4>1. kept[s] \in Saved
        BY <1>1, ListFacts
      <4>2. CASE s \in KeptSessions
        <5>1. kept'[s] = [kept[s] EXCEPT !.status = "requires_restart"]
          BY <2>2, <4>2
        <5> QED
          BY <4>1, <5>1 DEF Saved
      <4>3. CASE s \notin KeptSessions
        <5>1. kept'[s] = Absent /\ kept[s] = Absent
          BY <2>2, <4>3 DEF KeptSessions
        <5> QED
          BY <5>1, AbsentFacts
      <4> QED
        BY <4>2, <4>3
    <3>2. kept' = [s \in ShaderSessions |-> kept'[s]]
      BY <2>2
    <3> QED
      BY <1>1, <3>1, <3>2 DEF KeptOK, Recorded, Types
  <2> QED
    BY <2>1, <2>2 DEF ShaderWorkerStart
<1>5. HistoryOK'
  BY <1>1, <1>2 DEF Types, HistoryOK
<1>6. Types'
  BY <1>1, <1>2, <1>3, <1>4, <1>5 DEF Types
<1>7. JobInv'
  BY <1>1, <1>2, <1>3, <1>4, <1>5, ListTypes, HeldFacts DEF JobInv, PromiseInv, RevertInv
<1>8. PromiseInv'
  BY <1>1, <1>2, <1>3, <1>4, <1>5, ListTypes, HeldFacts DEF PromiseInv, JobInv, RecordInv
<1>9. RecordInv'
  BY <1>1, <1>2, <1>3, <1>4, <1>5, ListTypes, HeldFacts DEF RecordInv, JobInv, PromiseInv
<1>10. RevertInv'
  BY <1>1, <1>2, <1>3, <1>4, <1>5, ListTypes, HeldFacts DEF RevertInv, JobInv
<1>11. ForceInv'
  BY <1>1, <1>2, Stays
<1> QED
  BY <1>6, <1>7, <1>8, <1>9, <1>10, <1>11 DEF ShaderInv

\* A session that is opened has no replacements, in force or in its lists.
LEMMA Opened ==
  ASSUME ShaderInv, NEW s \in ShaderSessions, OpenSession(s)
  PROVE  ShaderInv'
<1>1. Types /\ JobInv /\ PromiseInv /\ RecordInv /\ RevertInv /\ ForceInv
  BY DEF ShaderInv
<1>2. at = "idle" /\ UNCHANGED <<at, job, inForce, patches, meta, untracked, promised, reverted>>
      /\ up' = up \cup {s}
  BY <1>1 DEF OpenSession, history
<1>3. NativeOK'
  BY <1>1, <1>2 DEF Types, NativeOK
<1>4. PatchesOK' /\ Held' = Held /\ MetaOK' /\ Listed' = Listed /\ ToApply' = ToApply
  BY <1>1, <1>2, Stays
<1>5. KeptOK' /\ Recorded' = [Recorded EXCEPT ![s] = {}] /\ Listed[s] = {} /\ Recorded[s] = {}
  <2>1. /\ kept' = [kept EXCEPT ![s] = [status |-> "ready", list |-> <<>>]] /\ meta[s] = <<>>
        /\ kept[s] = Absent
    BY DEF OpenSession
  <2>2. KeptOK' /\ Recorded' = [Recorded EXCEPT ![s] = {}]
    BY <1>1, <2>1, KeptSet, AbsentFacts, EmptyFacts
  <2> QED
    BY <1>1, <2>1, <2>2, ListFacts, AbsentFacts, EmptyFacts
<1>6. JobOK' /\ HistoryOK'
  BY <1>1, <1>2 DEF Types, JobOK, HistoryOK
<1>7. Types'
  BY <1>1, <1>2, <1>3, <1>4, <1>5, <1>6 DEF Types
<1>8. JobInv'
  BY <1>1, <1>2, <1>3, <1>4, <1>5, <1>6, ListTypes, HeldFacts DEF JobInv, PromiseInv, RevertInv
<1>9. PromiseInv'
  BY <1>1, <1>2, <1>3, <1>4, <1>5, <1>6, ListTypes, HeldFacts DEF PromiseInv, JobInv, RecordInv
<1>10. RecordInv'
  BY <1>1, <1>2, <1>3, <1>4, <1>5, <1>6, ListTypes, HeldFacts DEF RecordInv, JobInv, PromiseInv
<1>11. RevertInv'
  BY <1>1, <1>2, <1>3, <1>4, <1>5, <1>6, ListTypes, HeldFacts DEF RevertInv, JobInv
<1>12. ForceInv'
  <2>1. ASSUME s \notin up PROVE inForce[s] = Captured
    BY <1>1, <2>1 DEF Types, NativeOK
  <2> QED
    BY <1>1, <1>2, <2>1 DEF ForceInv, Captured
<1> QED
  BY <1>7, <1>8, <1>9, <1>10, <1>11, <1>12 DEF ShaderInv

\* The health of a replay is in the status of its record.
LEMMA Fatal ==
  ASSUME ShaderInv, NEW s \in ShaderSessions, FatalReplay(s)
  PROVE  ShaderInv'
<1>1. Types /\ JobInv /\ PromiseInv /\ RecordInv /\ RevertInv /\ ForceInv
  BY DEF ShaderInv
<1>2. UNCHANGED <<at, job, up, native, patches, meta, untracked, promised, reverted>>
  BY <1>1 DEF FatalReplay, history, native
<1>3. NativeOK' /\ PatchesOK' /\ Held' = Held /\ MetaOK' /\ Listed' = Listed /\ ToApply' = ToApply
  BY <1>1, <1>2, Stays
<1>4. KeptOK' /\ Recorded' = Recorded
  BY <1>1, KeptStatusSet DEF FatalReplay
<1>5. JobOK' /\ HistoryOK'
  BY <1>1, <1>2 DEF Types, JobOK, HistoryOK
<1>6. Types'
  BY <1>1, <1>2, <1>3, <1>4, <1>5 DEF Types
<1>7. JobInv'
  BY <1>1, <1>2, <1>3, <1>4, <1>5, ListTypes, HeldFacts DEF JobInv, PromiseInv, RevertInv
<1>8. PromiseInv'
  BY <1>1, <1>2, <1>3, <1>4, <1>5, ListTypes, HeldFacts DEF PromiseInv, JobInv, RecordInv
<1>9. RecordInv'
  BY <1>1, <1>2, <1>3, <1>4, <1>5, ListTypes, HeldFacts DEF RecordInv, JobInv, PromiseInv
<1>10. RevertInv'
  BY <1>1, <1>2, <1>3, <1>4, <1>5, ListTypes, HeldFacts DEF RevertInv, JobInv
<1>11. ForceInv'
  BY <1>1, <1>2, Stays
<1> QED
  BY <1>6, <1>7, <1>8, <1>9, <1>10, <1>11 DEF ShaderInv

\* A recovery starts with what the record says.
LEMMA Recovers ==
  ASSUME ShaderInv, NEW s \in ShaderSessions, RecoverSession(s)
  PROVE  ShaderInv'
<1>1. Types /\ JobInv /\ PromiseInv /\ RecordInv /\ RevertInv /\ ForceInv
  BY DEF ShaderInv
<1>2. /\ UNCHANGED <<inForce, patches, meta, kept, untracked, promised, reverted>>
      /\ s \notin up /\ up' = up \cup {s} /\ at = "idle" /\ at' = "reapply"
  BY <1>1 DEF RecoverSession, history, Go
<1>3. JobOK' /\ job'.session = s /\ ToApply' = Recorded[s]
  <2>1. job' = [session |-> s, entry |-> Nil, todo |-> kept[s].list]
    BY DEF RecoverSession, Go
  <2>2. kept[s].list \in Seq(Entries) /\ Recorded[s] = IdsOf(kept[s].list)
    BY <1>1, ListFacts
  <2> QED
    BY <1>2, <2>1, <2>2 DEF JobOK, ToApply, Places
<1>4. NativeOK'
  BY <1>1, <1>2 DEF Types, NativeOK
<1>5. PatchesOK' /\ Held' = Held /\ MetaOK' /\ Listed' = Listed /\ KeptOK' /\ Recorded' = Recorded
  BY <1>1, <1>2, Stays
<1>6. HistoryOK'
  BY <1>1, <1>2 DEF Types, HistoryOK
<1>7. Types'
  BY <1>1, <1>2, <1>3, <1>4, <1>5, <1>6 DEF Types
<1>8. JobInv'
  BY <1>1, <1>2, <1>3, <1>4, <1>5, <1>6, ListTypes, HeldFacts DEF JobInv, PromiseInv, RevertInv
<1>9. PromiseInv'
  BY <1>1, <1>2, <1>3, <1>4, <1>5, <1>6, ListTypes, HeldFacts DEF PromiseInv, JobInv, RecordInv
<1>10. RecordInv'
  BY <1>1, <1>2, <1>3, <1>4, <1>5, <1>6, ListTypes, HeldFacts DEF RecordInv, JobInv, PromiseInv
<1>11. RevertInv'
  BY <1>1, <1>2, <1>3, <1>4, <1>5, <1>6, ListTypes, HeldFacts DEF RevertInv, JobInv
<1>12. ForceInv'
  <2>1. inForce[s] = Captured
    BY <1>1, <1>2 DEF Types, NativeOK
  <2> QED
    BY <1>1, <1>2, <2>1 DEF ForceInv, Captured
<1> QED
  BY <1>7, <1>8, <1>9, <1>10, <1>11, <1>12 DEF ShaderInv

\* What is applied again is in the record, so it was not reverted.
LEMMA Reapplied ==
  ASSUME ShaderInv, Reapply
  PROVE  ShaderInv'
<1>1. Types /\ JobInv /\ PromiseInv /\ RecordInv /\ RevertInv /\ ForceInv
  BY DEF ShaderInv
<1>2. at = "reapply" /\ job.session \in ShaderSessions /\ job.session \in up /\ at' = "reapply"
  BY <1>1 DEF Reapply, Go, JobInv
<1>3. PICK e \in Entries : /\ e = Head(job.todo) /\ ToApply = {e.id} \cup ToApply' /\ e.id \in Ids
                           /\ e.shader \in Shaders
        /\ JobOK' /\ job'.session = job.session
  <2>1. job.todo \in Seq(Entries) /\ job.todo # <<>> /\ job' = [job EXCEPT !.todo = Tail(@)]
    BY <1>1 DEF Types, JobOK, Reapply, Go
  <2>2. /\ Head(job.todo) \in Entries /\ Tail(job.todo) \in Seq(Entries)
        /\ ToSet(job.todo) = {Head(job.todo)} \cup ToSet(Tail(job.todo))
    BY <2>1, TailFacts
  <2>3. job' = [job EXCEPT !.todo = Tail(job.todo)]
    BY <2>1
  <2>4. job'.todo = Tail(job.todo) /\ JobOK' /\ job'.session = job.session
    BY <1>1, <1>2, <2>2, <2>3 DEF Types, JobOK
  <2>5. IdsOf(job.todo) = {e.id : e \in ToSet(job.todo)}
    BY <2>1, IdsFacts
  <2>6. IdsOf(Tail(job.todo)) = {e.id : e \in ToSet(Tail(job.todo))}
    BY <2>2, IdsFacts
  <2>7. ToApply = {Head(job.todo).id} \cup ToApply'
    BY <2>2, <2>4, <2>5, <2>6 DEF ToApply
  <2>8. Head(job.todo).id \in Ids /\ Head(job.todo).shader \in Shaders
    BY <2>2 DEF Entries
  <2> QED
    BY <2>2, <2>4, <2>7, <2>8
<1>4. /\ ApplyDone(job.session, e.id, e.shader) /\ UNCHANGED <<up, meta, kept, reverted>>
      /\ promised' = {p \in promised : p[1] = job.session \/ p[2] # e.id}
  BY <1>3 DEF Reapply
<1>5. /\ PatchesOK' /\ NativeOK' /\ ForceInv'
      /\ Held' = {p \in Held : p[2] # e.id} \cup {<<job.session, e.id>>}
  BY <1>1, <1>2, <1>3, <1>4, ApplyDoneFacts
<1>6. MetaOK' /\ Listed' = Listed /\ KeptOK' /\ Recorded' = Recorded
  BY <1>1, <1>4, Stays
<1>7. HistoryOK'
  BY <1>1, <1>4 DEF Types, HistoryOK
<1>8. Types'
  BY <1>1, <1>2, <1>3, <1>4, <1>5, <1>6, <1>7 DEF Types
<1>9. JobInv'
  BY <1>1, <1>2, <1>3, <1>4, <1>5, <1>6, <1>7, ListTypes, HeldFacts
     DEF JobInv, PromiseInv, RevertInv
<1>10. PromiseInv'
  BY <1>1, <1>2, <1>3, <1>4, <1>5, <1>6, <1>7, ListTypes, HeldFacts
     DEF PromiseInv, JobInv, RecordInv
<1>11. RecordInv'
  BY <1>1, <1>2, <1>3, <1>4, <1>5, <1>6, <1>7, ListTypes, HeldFacts
     DEF RecordInv, JobInv, PromiseInv
<1>12. RevertInv'
  BY <1>1, <1>2, <1>3, <1>4, <1>5, <1>6, <1>7, ListTypes, HeldFacts DEF RevertInv, JobInv
<1>13. ForceInv'
  BY <1>1, <1>5
<1> QED
  BY <1>8, <1>9, <1>10, <1>11, <1>12, <1>13 DEF ShaderInv

\* At the end the lists of the record and of the runtime are the same.
LEMMA RecoveryEnds ==
  ASSUME ShaderInv, ReapplyEnd
  PROVE  ShaderInv'
<1>1. Types /\ JobInv /\ PromiseInv /\ RecordInv /\ RevertInv /\ ForceInv
  BY DEF ShaderInv
<1>2. /\ at = "reapply" /\ job.session \in ShaderSessions /\ job.session \in up
      /\ at' = "idle" /\ job' = NoJob
      /\ UNCHANGED <<native, patches, untracked, up, promised, reverted>>
      /\ JobOK' /\ ToApply = {}
  <2>1. /\ at' = "idle" /\ job' = NoJob
        /\ UNCHANGED <<native, patches, untracked, up, promised, reverted>>
    BY DEF ReapplyEnd, Rest, native, history
  <2>2. job.todo = <<>>
    BY DEF ReapplyEnd
  <2> QED
    BY <1>1, <2>1, <2>2, Stays, EmptyFacts DEF ReapplyEnd, JobInv, Places, ToApply
<1>3. PICK s \in ShaderSessions : s = job.session
  BY <1>2
<1>4. LET q == IF kept[s].list = <<>> THEN meta[s] ELSE kept[s].list IN
        /\ MetaOK' /\ Listed' = [Listed EXCEPT ![s] = IdsOf(q)]
        /\ KeptOK' /\ Recorded' = [Recorded EXCEPT ![s] = IdsOf(q)]
  <2> DEFINE q == IF kept[s].list = <<>> THEN meta[s] ELSE kept[s].list
  <2>1. q \in Seq(Entries) /\ Once(q)
    BY <1>1, ListFacts
  <2>2. kept' = [kept EXCEPT ![s] = [status |-> "ready", list |-> q]]
    BY <1>3 DEF ReapplyEnd
  <2>3. meta' = [meta EXCEPT ![s] = q]
    <3>1. CASE kept[s].list = <<>>
      <4>1. meta' = meta
        BY <1>3, <3>1 DEF ReapplyEnd, ReapplyKnown
      <4>2. [meta EXCEPT ![s] = meta[s]] = meta
        BY <1>1 DEF Types, MetaOK
      <4> QED
        BY <3>1, <4>1, <4>2
    <3>2. CASE kept[s].list # <<>>
      BY <1>3, <3>2 DEF ReapplyEnd, ReapplyKnown
    <3> QED
      BY <3>1, <3>2
  <2> HIDE DEF q
  <2> DEFINE r == [status |-> "ready", list |-> q]
  <2>4. r \in Saved /\ r.list = q
    BY <2>1 DEF Saved
  <2>5. kept' = [kept EXCEPT ![s] = r]
    BY <2>2
  <2> HIDE DEF r
  <2>6. KeptOK' /\ Recorded' = [Recorded EXCEPT ![s] = IdsOf(q)]
    BY <1>1, <2>1, <2>4, <2>5, KeptSet
  <2>7. MetaOK' /\ Listed' = [Listed EXCEPT ![s] = IdsOf(q)]
    BY <1>1, <2>1, <2>3, MetaSet
  <2> QED
    BY <2>6, <2>7 DEF q
<1>5. /\ MetaOK' /\ KeptOK'
      /\ Recorded[s] = {} =>
           Listed' = Listed /\ Recorded' = [Recorded EXCEPT ![s] = Listed[s]]
      /\ Recorded[s] # {} =>
           Recorded' = Recorded /\ Listed' = [Listed EXCEPT ![s] = Recorded[s]]
  <2>1. /\ kept[s].list \in Seq(Entries) /\ Listed[s] = IdsOf(meta[s])
        /\ Recorded[s] = IdsOf(kept[s].list)
        /\ Listed \in [ShaderSessions -> SUBSET Ids]
        /\ Recorded \in [ShaderSessions -> SUBSET Ids]
    BY <1>1, ListFacts, ListTypes
  <2>2. Recorded[s] = {} <=> kept[s].list = <<>>
    BY <2>1, EmptyIds, EmptyFacts
  <2> QED
    BY <1>4, <2>1, <2>2
<1>6. NativeOK' /\ PatchesOK' /\ Held' = Held
  BY <1>1, <1>2, Stays
<1>7. HistoryOK'
  BY <1>1, <1>2 DEF Types, HistoryOK
<1>8. Types'
  BY <1>1, <1>2, <1>3, <1>4, <1>5, <1>6, <1>7 DEF Types
<1>9. JobInv'
  BY <1>1, <1>2, <1>3, <1>4, <1>5, <1>6, <1>7, ListTypes, HeldFacts
     DEF JobInv, PromiseInv, RevertInv
<1>10. PromiseInv'
  BY <1>1, <1>2, <1>3, <1>4, <1>5, <1>6, <1>7, ListTypes, HeldFacts
     DEF PromiseInv, JobInv, RecordInv
<1>11. RecordInv'
  BY <1>1, <1>2, <1>3, <1>4, <1>5, <1>6, <1>7, ListTypes, HeldFacts
     DEF RecordInv, JobInv, PromiseInv
<1>12. RevertInv'
  BY <1>1, <1>2, <1>3, <1>4, <1>5, <1>6, <1>7, ListTypes, HeldFacts DEF RevertInv, JobInv
<1>13. ForceInv'
  BY <1>1, <1>2, Stays
<1> QED
  BY <1>8, <1>9, <1>10, <1>11, <1>12, <1>13 DEF ShaderInv

\* A recovery that fails closes its session and keeps its record.
LEMMA RecoveryFails ==
  ASSUME ShaderInv, ReapplyFails
  PROVE  ShaderInv'
<1>1. Types /\ JobInv /\ PromiseInv /\ RecordInv /\ RevertInv /\ ForceInv
  BY DEF ShaderInv
<1>2. /\ at = "reapply" /\ job.session \in ShaderSessions /\ at' = "idle" /\ job' = NoJob
      /\ JobOK'
      /\ up' = up \ {job.session} /\ UNCHANGED <<patches, meta, kept, promised, reverted>>
  BY <1>1, Stays DEF ReapplyFails, Rest, JobInv, Places
<1>3. PICK s \in ShaderSessions : s = job.session /\ CloseDown({s})
  <2>1. CloseDown({job.session})
    <3>1. /\ inForce' = [inForce EXCEPT ![job.session] = Captured]
          /\ untracked' = {p \in untracked : p[1] # job.session}
      BY DEF ReapplyFails
    <3>2. inForce' = [s \in ShaderSessions |-> IF s \in {job.session} THEN Captured ELSE inForce[s]]
      BY <1>1, <1>2, <3>1 DEF Types, NativeOK, Natives
    <3> QED
      BY <1>2, <3>1, <3>2 DEF CloseDown
  <2> QED
    BY <1>2, <2>1
<1>4. NativeOK' /\ ForceInv'
  BY <1>1, <1>2, <1>3, CloseDownFacts
<1>5. PatchesOK' /\ Held' = Held /\ MetaOK' /\ Listed' = Listed /\ KeptOK' /\ Recorded' = Recorded
  BY <1>1, <1>2, Stays
<1>6. HistoryOK'
  BY <1>1, <1>2 DEF Types, HistoryOK
<1>7. Types'
  BY <1>1, <1>2, <1>3, <1>4, <1>5, <1>6 DEF Types
<1>8. JobInv'
  BY <1>1, <1>2, <1>3, <1>4, <1>5, <1>6, ListTypes, HeldFacts DEF JobInv, PromiseInv, RevertInv
<1>9. PromiseInv'
  BY <1>1, <1>2, <1>3, <1>4, <1>5, <1>6, ListTypes, HeldFacts DEF PromiseInv, JobInv, RecordInv
<1>10. RecordInv'
  BY <1>1, <1>2, <1>3, <1>4, <1>5, <1>6, ListTypes, HeldFacts DEF RecordInv, JobInv, PromiseInv
<1>11. RevertInv'
  BY <1>1, <1>2, <1>3, <1>4, <1>5, <1>6, ListTypes, HeldFacts DEF RevertInv, JobInv
<1>12. ForceInv'
  BY <1>1, <1>4
<1> QED
  BY <1>7, <1>8, <1>9, <1>10, <1>11, <1>12 DEF ShaderInv

\* A close reverts what it can and forgets the metadata.
LEMMA Closes ==
  ASSUME ShaderInv, NEW s \in ShaderSessions, CloseSession(s)
  PROVE  ShaderInv'
<1>1. Types /\ JobInv /\ PromiseInv /\ RecordInv /\ RevertInv /\ ForceInv
  BY DEF ShaderInv
<1>2. /\ at = "idle" /\ at' = "close" /\ job' = [NoJob EXCEPT !.session = s]
      /\ meta' = [meta EXCEPT ![s] = <<>>] /\ UNCHANGED <<kept, promised, reverted>>
      /\ RevertAll({s}) /\ CloseDown({s}) /\ up' = up \ {s}
  BY DEF CloseSession, Go, CloseDown
<1>3. JobOK' /\ job'.session = s /\ ToApply' = {}
  <2>1. job' = [session |-> s, entry |-> Nil, todo |-> <<>>]
    BY <1>2 DEF NoJob
  <2>2. <<>> \in Seq(Entries) /\ IdsOf(<<>>) = {}
    BY EmptyFacts
  <2>3. job'.session = s /\ job'.todo = <<>>
    BY <2>1
  <2>4. at' = "close"
    BY <1>2
  <2>5. JobOK'
    BY <2>1, <2>2, <2>4 DEF JobOK, Places
  <2> QED
    BY <2>2, <2>3, <2>5 DEF ToApply
<1>4. /\ PatchesOK' /\ Held' \subseteq Held /\ \A p \in Held : p[1] # s => p \in Held'
      /\ \A e \in ToSet(patches) : e.session \notin {s} => e \in ToSet(patches')
  BY <1>1, <1>2, RevertAllFacts
<1>5. NativeOK' /\ ForceInv'
  BY <1>1, <1>2, <1>4, CloseDownFacts
<1>6. MetaOK' /\ Listed' = [Listed EXCEPT ![s] = {}]
  BY <1>1, <1>2, MetaSet, EmptyFacts
<1>7. KeptOK' /\ Recorded' = Recorded
  BY <1>1, <1>2, Stays
<1>8. HistoryOK'
  BY <1>1, <1>2 DEF Types, HistoryOK
<1>9. Types'
  BY <1>1, <1>2, <1>3, <1>4, <1>5, <1>6, <1>7, <1>8 DEF Types
<1>10. JobInv'
  BY <1>1, <1>2, <1>3, <1>4, <1>5, <1>6, <1>7, <1>8, ListTypes, HeldFacts
     DEF JobInv, PromiseInv, RevertInv
<1>11. PromiseInv'
  BY <1>1, <1>2, <1>3, <1>4, <1>5, <1>6, <1>7, <1>8, ListTypes, HeldFacts
     DEF PromiseInv, JobInv, RecordInv
<1>12. RecordInv'
  BY <1>1, <1>2, <1>3, <1>4, <1>5, <1>6, <1>7, <1>8, ListTypes, HeldFacts
     DEF RecordInv, JobInv, PromiseInv
<1>13. RevertInv'
  BY <1>1, <1>2, <1>3, <1>4, <1>5, <1>6, <1>7, <1>8, ListTypes, HeldFacts DEF RevertInv, JobInv
<1>14. ForceInv'
  BY <1>1, <1>5
<1> QED
  BY <1>9, <1>10, <1>11, <1>12, <1>13, <1>14 DEF ShaderInv

\* What was said of a session ends with its record.
LEMMA Closed ==
  ASSUME ShaderInv, CloseKept
  PROVE  ShaderInv'
<1>1. Types /\ JobInv /\ PromiseInv /\ RecordInv /\ RevertInv /\ ForceInv
  BY DEF ShaderInv
<1>2. PICK s \in ShaderSessions : s = job.session
  BY <1>1 DEF CloseKept, JobInv
<1>3. /\ at = "close" /\ at' = "idle" /\ job' = NoJob /\ JobOK'
      /\ UNCHANGED <<native, patches, meta, untracked, up>>
      /\ promised' = {p \in promised : p[1] # s} /\ reverted' = {p \in reverted : p[1] # s}
      /\ kept' = [kept EXCEPT ![s] = Absent]
  BY <1>1, <1>2, Stays DEF CloseKept, Rest, Settled, Places, native
<1>4. KeptOK' /\ Recorded' = [Recorded EXCEPT ![s] = {}]
  BY <1>1, <1>3, KeptSet, AbsentFacts, EmptyFacts
<1>5. NativeOK' /\ PatchesOK' /\ Held' = Held /\ MetaOK' /\ Listed' = Listed
  BY <1>1, <1>3, Stays
<1>6. HistoryOK'
  BY <1>1, <1>3 DEF Types, HistoryOK
<1>7. Types'
  BY <1>1, <1>2, <1>3, <1>4, <1>5, <1>6 DEF Types
<1>8. JobInv'
  BY <1>1, <1>2, <1>3, <1>4, <1>5, <1>6, ListTypes, HeldFacts DEF JobInv, PromiseInv, RevertInv
<1>9. PromiseInv'
  BY <1>1, <1>2, <1>3, <1>4, <1>5, <1>6, ListTypes, HeldFacts DEF PromiseInv, JobInv, RecordInv
<1>10. RecordInv'
  BY <1>1, <1>2, <1>3, <1>4, <1>5, <1>6, ListTypes, HeldFacts DEF RecordInv, JobInv, PromiseInv
<1>11. RevertInv'
  BY <1>1, <1>2, <1>3, <1>4, <1>5, <1>6, ListTypes, HeldFacts DEF RevertInv, JobInv
<1>12. ForceInv'
  BY <1>1, <1>3, Stays
<1> QED
  BY <1>7, <1>8, <1>9, <1>10, <1>11, <1>12 DEF ShaderInv

\* A session that is not held loses its metadata only.
LEMMA UnheldClosed ==
  ASSUME ShaderInv, NEW s \in ShaderSessions, CloseUnheld(s)
  PROVE  ShaderInv'
<1>1. Types /\ JobInv /\ PromiseInv /\ RecordInv /\ RevertInv /\ ForceInv
  BY DEF ShaderInv
<1>2. /\ at = "idle" /\ s \notin up /\ meta' = [meta EXCEPT ![s] = <<>>]
      /\ UNCHANGED <<at, job, up, native, patches, kept, untracked, promised, reverted>>
  BY DEF CloseUnheld, native, history
<1>3. MetaOK' /\ Listed' = [Listed EXCEPT ![s] = {}]
  BY <1>1, <1>2, MetaSet, EmptyFacts
<1>4. /\ NativeOK' /\ PatchesOK' /\ Held' = Held /\ KeptOK' /\ Recorded' = Recorded
      /\ ToApply' = ToApply
  BY <1>1, <1>2, Stays
<1>5. JobOK' /\ HistoryOK'
  BY <1>1, <1>2 DEF Types, JobOK, HistoryOK
<1>6. Types'
  BY <1>1, <1>2, <1>3, <1>4, <1>5 DEF Types
<1>7. JobInv'
  BY <1>1, <1>2, <1>3, <1>4, <1>5, ListTypes, HeldFacts DEF JobInv, PromiseInv, RevertInv
<1>8. PromiseInv'
  BY <1>1, <1>2, <1>3, <1>4, <1>5, ListTypes, HeldFacts DEF PromiseInv, JobInv, RecordInv
<1>9. RecordInv'
  BY <1>1, <1>2, <1>3, <1>4, <1>5, ListTypes, HeldFacts DEF RecordInv, JobInv, PromiseInv
<1>10. RevertInv'
  BY <1>1, <1>2, <1>3, <1>4, <1>5, ListTypes, HeldFacts DEF RevertInv, JobInv
<1>11. ForceInv'
  BY <1>1, <1>2, Stays
<1> QED
  BY <1>6, <1>7, <1>8, <1>9, <1>10, <1>11 DEF ShaderInv

\* A capture that is closed takes the records of its sessions along.
LEMMA CaptureClosed ==
  ASSUME ShaderInv, NEW s \in ShaderSessions, CloseCapture(s)
  PROVE  ShaderInv'
<1>1. Types /\ JobInv /\ PromiseInv /\ RecordInv /\ RevertInv /\ ForceInv
  BY DEF ShaderInv
<1>2. /\ at = "idle" /\ s \notin up /\ kept' = [kept EXCEPT ![s] = Absent]
      /\ UNCHANGED <<at, job, up, native, patches, meta, untracked>>
      /\ promised' = {p \in promised : p[1] # s} /\ reverted' = {p \in reverted : p[1] # s}
  BY DEF CloseCapture, native, Settled
<1>3. KeptOK' /\ Recorded' = [Recorded EXCEPT ![s] = {}]
  BY <1>1, <1>2, KeptSet, AbsentFacts, EmptyFacts
<1>4. NativeOK' /\ PatchesOK' /\ Held' = Held /\ MetaOK' /\ Listed' = Listed /\ ToApply' = ToApply
  BY <1>1, <1>2, Stays
<1>5. JobOK' /\ HistoryOK'
  BY <1>1, <1>2 DEF Types, JobOK, HistoryOK
<1>6. Types'
  BY <1>1, <1>2, <1>3, <1>4, <1>5 DEF Types
<1>7. JobInv'
  BY <1>1, <1>2, <1>3, <1>4, <1>5, ListTypes, HeldFacts DEF JobInv, PromiseInv, RevertInv
<1>8. PromiseInv'
  BY <1>1, <1>2, <1>3, <1>4, <1>5, ListTypes, HeldFacts DEF PromiseInv, JobInv, RecordInv
<1>9. RecordInv'
  BY <1>1, <1>2, <1>3, <1>4, <1>5, ListTypes, HeldFacts DEF RecordInv, JobInv, PromiseInv
<1>10. RevertInv'
  BY <1>1, <1>2, <1>3, <1>4, <1>5, ListTypes, HeldFacts DEF RevertInv, JobInv
<1>11. ForceInv'
  BY <1>1, <1>2, Stays
<1> QED
  BY <1>6, <1>7, <1>8, <1>9, <1>10, <1>11 DEF ShaderInv

\* A clear leaves no controller, and the records or none of them.
LEMMA Cleared ==
  ASSUME ShaderInv, ClearContext
  PROVE  ShaderInv'
<1>1. Types /\ JobInv /\ PromiseInv /\ RecordInv /\ RevertInv /\ ForceInv
  BY DEF ShaderInv
<1>2. /\ at = "idle" /\ UNCHANGED <<at, job, patches, meta>> /\ CloseDown(up) /\ up' = {}
      /\ \/ kept' = [s \in ShaderSessions |-> Absent] /\ promised' = {} /\ reverted' = {}
         \/ UNCHANGED <<kept, promised, reverted>>
  BY DEF ClearContext, CloseDown
<1>3. NativeOK' /\ ForceInv'
  BY <1>1, <1>2, CloseDownFacts
<1>4. PatchesOK' /\ Held' = Held /\ MetaOK' /\ Listed' = Listed /\ ToApply' = ToApply
  BY <1>1, <1>2, Stays
<1>5. /\ KeptOK'
      /\ \/ Recorded' = [s \in ShaderSessions |-> {}] /\ promised' = {} /\ reverted' = {}
         \/ Recorded' = Recorded /\ UNCHANGED <<promised, reverted>>
  BY <1>1, <1>2, AllAbsent, Stays
<1>6. JobOK' /\ HistoryOK'
  BY <1>1, <1>2 DEF Types, JobOK, HistoryOK
<1>7. Types'
  BY <1>1, <1>2, <1>3, <1>4, <1>5, <1>6 DEF Types
<1>8. JobInv'
  BY <1>1, <1>2, <1>3, <1>4, <1>5, <1>6, ListTypes, HeldFacts DEF JobInv, PromiseInv, RevertInv
<1>9. PromiseInv'
  BY <1>1, <1>2, <1>3, <1>4, <1>5, <1>6, ListTypes, HeldFacts DEF PromiseInv, JobInv, RecordInv
<1>10. RecordInv'
  BY <1>1, <1>2, <1>3, <1>4, <1>5, <1>6, ListTypes, HeldFacts DEF RecordInv, JobInv, PromiseInv
<1>11. RevertInv'
  BY <1>1, <1>2, <1>3, <1>4, <1>5, <1>6, ListTypes, HeldFacts DEF RevertInv, JobInv
<1>12. ForceInv'
  BY <1>1, <1>3
<1> QED
  BY <1>7, <1>8, <1>9, <1>10, <1>11, <1>12 DEF ShaderInv

\* A shutdown of the core takes sessions, metadata and records.
LEMMA ShutDown ==
  ASSUME ShaderInv, CoreShutdown
  PROVE  ShaderInv'
<1>1. Types /\ JobInv /\ PromiseInv /\ RecordInv /\ RevertInv /\ ForceInv
  BY DEF ShaderInv
<1>2. /\ at = "idle" /\ UNCHANGED <<at, job>> /\ RevertAll(up) /\ CloseDown(up) /\ up' = {}
      /\ meta' = [s \in ShaderSessions |-> <<>>] /\ kept' = [s \in ShaderSessions |-> Absent]
      /\ promised' = {} /\ reverted' = {}
  BY DEF CoreShutdown, CloseDown
<1>3. /\ PatchesOK' /\ Held' \subseteq Held /\ ToApply' = ToApply
      /\ \A e \in ToSet(patches) : e.session \notin up => e \in ToSet(patches')
  BY <1>1, <1>2, RevertAllFacts, Stays
<1>4. NativeOK' /\ ForceInv'
  BY <1>1, <1>2, <1>3, CloseDownFacts
<1>5. KeptOK' /\ MetaOK'
  BY <1>2, AllAbsent, NoMeta
<1>6. JobOK' /\ HistoryOK'
  BY <1>1, <1>2 DEF Types, JobOK, HistoryOK
<1>7. Types'
  BY <1>1, <1>2, <1>3, <1>4, <1>5, <1>6 DEF Types
<1>8. JobInv'
  BY <1>1, <1>2, <1>3, <1>4, <1>5, <1>6, ListTypes, HeldFacts DEF JobInv, PromiseInv, RevertInv
<1>9. PromiseInv'
  BY <1>1, <1>2, <1>3, <1>4, <1>5, <1>6, ListTypes, HeldFacts DEF PromiseInv, JobInv, RecordInv
<1>10. RecordInv'
  BY <1>1, <1>2, <1>3, <1>4, <1>5, <1>6, ListTypes, HeldFacts DEF RecordInv, JobInv, PromiseInv
<1>11. RevertInv'
  BY <1>1, <1>2, <1>3, <1>4, <1>5, <1>6, ListTypes, HeldFacts DEF RevertInv, JobInv
<1>12. ForceInv'
  BY <1>1, <1>4
<1> QED
  BY <1>7, <1>8, <1>9, <1>10, <1>11, <1>12 DEF ShaderInv

\* An edit that fails changes what is in force at most, and says so.
LEMMA EditFailed ==
  ASSUME ShaderInv, NEW s \in ShaderSessions, NEW k \in Shaders, EditFails(s, k)
  PROVE  ShaderInv'
<1>1. Types /\ JobInv /\ PromiseInv /\ RecordInv /\ RevertInv /\ ForceInv
  BY DEF ShaderInv
<1>2. /\ at = "idle" /\ s \in up
      /\ UNCHANGED <<at, job, up, patches, meta, kept, promised, reverted>>
  BY DEF EditFails, Editable, ApplyRefused, ApplyRolledBack, ApplyLeft
<1>3. NativeOK' /\ ForceInv'
  <2>1. CASE ApplyRefused
    BY <1>1, <1>2, <2>1, Stays DEF ApplyRefused, native
  <2>2. CASE ApplyRolledBack(s, k)
    <3>1. inForce' = Removed(s, k) /\ untracked' = untracked \ {<<s, k>>}
      BY <2>2 DEF ApplyRolledBack
    <3> QED
      BY <1>1, <1>2, <3>1, RemovedForce
  <2>3. CASE ApplyLeft(s, k)
    <3>1. inForce' = SetTo(s, k, Stray) /\ untracked' = untracked \cup {<<s, k>>}
      BY <2>3 DEF ApplyLeft, SetTo
    <3>2. /\ inForce' \in Natives /\ inForce'[s][k] = Stray
          /\ \A z \in ShaderSessions, y \in Shaders :
               z # s \/ y # k => inForce'[z][y] = inForce[z][y]
          /\ \A z \in ShaderSessions \ up : inForce'[z] = Captured
      BY <1>1, <1>2, <3>1, SetFacts
    <3> QED
      BY <1>1, <1>2, <3>1, <3>2 DEF Types, NativeOK, ForceInv
  <2> QED
    BY <2>1, <2>2, <2>3 DEF EditFails
<1>4. /\ PatchesOK' /\ Held' = Held /\ MetaOK' /\ Listed' = Listed /\ KeptOK'
      /\ Recorded' = Recorded /\ ToApply' = ToApply
  BY <1>1, <1>2, Stays
<1>5. JobOK' /\ HistoryOK'
  BY <1>1, <1>2 DEF Types, JobOK, HistoryOK
<1>6. Types'
  BY <1>1, <1>2, <1>3, <1>4, <1>5 DEF Types
<1>7. JobInv'
  BY <1>1, <1>2, <1>3, <1>4, <1>5, ListTypes, HeldFacts DEF JobInv, PromiseInv, RevertInv
<1>8. PromiseInv'
  BY <1>1, <1>2, <1>3, <1>4, <1>5, ListTypes, HeldFacts DEF PromiseInv, JobInv, RecordInv
<1>9. RecordInv'
  BY <1>1, <1>2, <1>3, <1>4, <1>5, ListTypes, HeldFacts DEF RecordInv, JobInv, PromiseInv
<1>10. RevertInv'
  BY <1>1, <1>2, <1>3, <1>4, <1>5, ListTypes, HeldFacts DEF RevertInv, JobInv
<1>11. ForceInv'
  BY <1>1, <1>3
<1> QED
  BY <1>6, <1>7, <1>8, <1>9, <1>10, <1>11 DEF ShaderInv

\* An edit takes its id over, and ends what was said of it.
LEMMA Edited ==
  ASSUME ShaderInv, NEW s \in ShaderSessions, NEW i \in Ids, NEW k \in Shaders, Edit(s, i, k)
  PROVE  ShaderInv'
<1>1. Types /\ JobInv /\ PromiseInv /\ RecordInv /\ RevertInv /\ ForceInv
  BY DEF ShaderInv
<1>2. /\ at = "idle" /\ at' = "applied" /\ s \in up /\ ApplyDone(s, i, k)
      /\ UNCHANGED <<up, meta, kept>>
      /\ promised' = {p \in promised : p[2] # i} /\ reverted' = reverted \ {<<s, i>>}
  BY DEF Edit, Editable, Go, Reopened
<1>3. /\ JobOK' /\ job'.session = s /\ job'.entry \in Entries /\ job'.entry.id = i
  <2>1. job' = [session |-> s, entry |-> Entry(i, k, TRUE), todo |-> <<>>]
    BY DEF Edit, Go
  <2>2. Entry(i, k, TRUE) \in Entries /\ Entry(i, k, TRUE).id = i
    BY EntryFacts
  <2> QED
    BY <1>2, <2>1, <2>2, EmptyFacts DEF JobOK, Places
<1>4. /\ PatchesOK' /\ NativeOK' /\ ForceInv'
      /\ Held' = {p \in Held : p[2] # i} \cup {<<s, i>>}
  BY <1>1, <1>2, ApplyDoneFacts
<1>5. MetaOK' /\ Listed' = Listed /\ KeptOK' /\ Recorded' = Recorded
  BY <1>1, <1>2, Stays
<1>6. HistoryOK'
  BY <1>1, <1>2 DEF Types, HistoryOK
<1>7. Types'
  BY <1>1, <1>2, <1>3, <1>4, <1>5, <1>6 DEF Types
<1>8. JobInv'
  BY <1>1, <1>2, <1>3, <1>4, <1>5, <1>6, ListTypes, HeldFacts DEF JobInv, PromiseInv, RevertInv
<1>9. PromiseInv'
  BY <1>1, <1>2, <1>3, <1>4, <1>5, <1>6, ListTypes, HeldFacts DEF PromiseInv, JobInv, RecordInv
<1>10. RecordInv'
  BY <1>1, <1>2, <1>3, <1>4, <1>5, <1>6, ListTypes, HeldFacts DEF RecordInv, JobInv, PromiseInv
<1>11. RevertInv'
  BY <1>1, <1>2, <1>3, <1>4, <1>5, <1>6, ListTypes, HeldFacts DEF RevertInv, JobInv
<1>12. ForceInv'
  BY <1>1, <1>4
<1> QED
  BY <1>7, <1>8, <1>9, <1>10, <1>11, <1>12 DEF ShaderInv

\* Without its artifact an edit is not recorded, and nothing is said of it.
LEMMA ArtifactFailed ==
  ASSUME ShaderInv, EditArtifactFails
  PROVE  ShaderInv'
<1>1. Types /\ JobInv /\ PromiseInv /\ RecordInv /\ RevertInv /\ ForceInv
  BY DEF ShaderInv
<1>2. /\ at = "applied" /\ at' = "idle" /\ job' = NoJob /\ JobOK'
      /\ UNCHANGED <<up, native, patches, meta, kept, untracked, promised, reverted>>
  BY <1>1, Stays DEF EditArtifactFails, Rest, Places, native, history
<1>3. /\ NativeOK' /\ PatchesOK' /\ Held' = Held /\ MetaOK' /\ Listed' = Listed /\ KeptOK'
      /\ Recorded' = Recorded
  BY <1>1, <1>2, Stays
<1>4. HistoryOK'
  BY <1>1, <1>2 DEF Types, HistoryOK
<1>5. Types'
  BY <1>1, <1>2, <1>3, <1>4 DEF Types
<1>6. JobInv'
  BY <1>1, <1>2, <1>3, <1>4, ListTypes, HeldFacts DEF JobInv, PromiseInv, RevertInv
<1>7. PromiseInv'
  BY <1>1, <1>2, <1>3, <1>4, ListTypes, HeldFacts DEF PromiseInv, JobInv, RecordInv
<1>8. RecordInv'
  BY <1>1, <1>2, <1>3, <1>4, ListTypes, HeldFacts DEF RecordInv, JobInv, PromiseInv
<1>9. RevertInv'
  BY <1>1, <1>2, <1>3, <1>4, ListTypes, HeldFacts DEF RevertInv, JobInv
<1>10. ForceInv'
  BY <1>1, <1>2, Stays
<1> QED
  BY <1>5, <1>6, <1>7, <1>8, <1>9, <1>10 DEF ShaderInv

\* The lists of the runtime and of the record are set at once.
LEMMA Stored ==
  ASSUME ShaderInv, EditStore
  PROVE  ShaderInv'
<1>1. Types /\ JobInv /\ PromiseInv /\ RecordInv /\ RevertInv /\ ForceInv
  BY DEF ShaderInv
<1>2. /\ at = "applied" /\ at' = "validate"
      /\ UNCHANGED <<job, up, native, patches, untracked, promised, reverted>>
  BY DEF EditStore, Go, native, history
<1>3. PICK s \in ShaderSessions, e \in Entries : s = job.session /\ e = job.entry /\ s \in up
  BY <1>1, <1>2 DEF JobInv
<1>4. /\ MetaOK' /\ Listed' = [Listed EXCEPT ![s] = Listed[s] \cup {e.id}]
      /\ KeptOK' /\ Recorded' = [Recorded EXCEPT ![s] = Listed[s] \cup {e.id}]
  <2> DEFINE q == Append(Without(meta[s], e.id), e)
  <2>1. meta' = [meta EXCEPT ![s] = q] /\ kept' = [kept EXCEPT ![s].list = q]
    BY <1>3 DEF EditStore
  <2>2. meta[s] \in Seq(Entries) /\ Once(meta[s]) /\ Listed[s] = IdsOf(meta[s])
    BY <1>1, ListFacts
  <2>3. q = Replaced(meta[s], e)
    BY DEF Replaced
  <2> HIDE DEF q
  <2>4. q \in Seq(Entries) /\ Once(q) /\ IdsOf(q) = IdsOf(meta[s]) \cup {e.id}
    BY <2>2, <2>3, ReplaceFacts
  <2>5. KeptOK' /\ Recorded' = [Recorded EXCEPT ![s] = IdsOf(q)]
    BY <1>1, <2>1, <2>4, KeptListSet
  <2>6. MetaOK' /\ Listed' = [Listed EXCEPT ![s] = IdsOf(q)]
    BY <1>1, <2>1, <2>4, MetaSet
  <2> QED
    BY <2>2, <2>4, <2>5, <2>6
<1>5. NativeOK' /\ PatchesOK' /\ Held' = Held /\ ToApply' = ToApply
  BY <1>1, <1>2, Stays
<1>6. JobOK' /\ HistoryOK'
  BY <1>1, <1>2 DEF Types, JobOK, HistoryOK, Places
<1>7. Types'
  BY <1>1, <1>2, <1>3, <1>4, <1>5, <1>6 DEF Types
<1>8. JobInv'
  BY <1>1, <1>2, <1>3, <1>4, <1>5, <1>6, ListTypes, HeldFacts DEF JobInv, PromiseInv, RevertInv
<1>9. PromiseInv'
  BY <1>1, <1>2, <1>3, <1>4, <1>5, <1>6, ListTypes, HeldFacts DEF PromiseInv, JobInv, RecordInv
<1>10. RecordInv'
  BY <1>1, <1>2, <1>3, <1>4, <1>5, <1>6, ListTypes, HeldFacts DEF RecordInv, JobInv, PromiseInv
<1>11. RevertInv'
  BY <1>1, <1>2, <1>3, <1>4, <1>5, <1>6, ListTypes, HeldFacts DEF RevertInv, JobInv
<1>12. ForceInv'
  BY <1>1, <1>2, Stays
<1> QED
  BY <1>7, <1>8, <1>9, <1>10, <1>11, <1>12 DEF ShaderInv

\* An edit is answered when engine, runtime and record have it.
LEMMA Answered ==
  ASSUME ShaderInv, EditValid
  PROVE  ShaderInv'
<1>1. Types /\ JobInv /\ PromiseInv /\ RecordInv /\ RevertInv /\ ForceInv
  BY DEF ShaderInv
<1>2. /\ at = "validate" /\ at' = "idle" /\ job' = NoJob /\ JobOK'
      /\ UNCHANGED <<up, native, patches, meta, kept, untracked, reverted>>
  BY <1>1, Stays DEF EditValid, Rest, Places, native
<1>3. PICK s \in ShaderSessions, j \in Ids : /\ s = job.session /\ j = job.entry.id /\ s \in up
        /\ promised' = promised \cup {<<s, j>>}
  BY <1>1, <1>2 DEF JobInv, Entries, EditValid
<1>4. /\ NativeOK' /\ PatchesOK' /\ Held' = Held /\ MetaOK' /\ Listed' = Listed /\ KeptOK'
      /\ Recorded' = Recorded
  BY <1>1, <1>2, Stays
<1>5. HistoryOK'
  BY <1>1, <1>2, <1>3 DEF Types, HistoryOK
<1>6. Types'
  BY <1>1, <1>2, <1>3, <1>4, <1>5 DEF Types
<1>7. JobInv'
  BY <1>1, <1>2, <1>3, <1>4, <1>5, ListTypes, HeldFacts DEF JobInv, PromiseInv, RevertInv
<1>8. PromiseInv'
  BY <1>1, <1>2, <1>3, <1>4, <1>5, ListTypes, HeldFacts DEF PromiseInv, JobInv, RecordInv
<1>9. RecordInv'
  BY <1>1, <1>2, <1>3, <1>4, <1>5, ListTypes, HeldFacts DEF RecordInv, JobInv, PromiseInv
<1>10. RevertInv'
  BY <1>1, <1>2, <1>3, <1>4, <1>5, ListTypes, HeldFacts DEF RevertInv, JobInv
<1>11. ForceInv'
  BY <1>1, <1>2, Stays
<1> QED
  BY <1>6, <1>7, <1>8, <1>9, <1>10, <1>11 DEF ShaderInv

\* What is taken back is of no list, and was not answered.
LEMMA Invalidated ==
  ASSUME ShaderInv, EditInvalid
  PROVE  ShaderInv'
<1>1. Types /\ JobInv /\ PromiseInv /\ RecordInv /\ RevertInv /\ ForceInv
  BY DEF ShaderInv
<1>2. /\ at = "validate" /\ at' = "idle" /\ job' = NoJob /\ JobOK'
      /\ UNCHANGED <<up, promised, reverted>>
  BY <1>1, Stays DEF EditInvalid, Rest, Places
<1>3. PICK s \in ShaderSessions, j \in Ids : /\ s = job.session /\ j = job.entry.id /\ s \in up
                                             /\ <<s, j>> \in Held
  BY <1>1, <1>2 DEF JobInv, Entries
<1>4. /\ PatchesOK' /\ NativeOK' /\ ForceInv'
      /\ Held' = Held \/ Held' = Held \ {<<s, j>>}
  <2>1. RevertDone(s, j) \/ RevertRaises(s, j)
    BY <1>3 DEF EditInvalid
  <2>2. CASE RevertDone(s, j)
    BY <1>1, <1>2, <1>3, <2>2, RevertDoneFacts
  <2>3. CASE RevertRaises(s, j)
    BY <1>1, <1>2, <1>3, <2>3, RevertRaisesFacts, Stays
  <2> QED
    BY <2>1, <2>2, <2>3
<1>5. /\ MetaOK' /\ Listed' = [Listed EXCEPT ![s] = Listed[s] \ {j}]
      /\ KeptOK' /\ Recorded' = [Recorded EXCEPT ![s] = Listed[s] \ {j}]
  <2> DEFINE q == Without(meta[s], j)
  <2>1. meta' = [meta EXCEPT ![s] = q] /\ kept' = [kept EXCEPT ![s].list = q]
    BY <1>3 DEF EditInvalid
  <2>2. meta[s] \in Seq(Entries) /\ Once(meta[s]) /\ Listed[s] = IdsOf(meta[s])
    BY <1>1, ListFacts
  <2>3. q \in Seq(Entries) /\ Once(q) /\ IdsOf(q) = IdsOf(meta[s]) \ {j}
    BY <2>2, WithoutFacts, WithoutIds
  <2> HIDE DEF q
  <2>4. KeptOK' /\ Recorded' = [Recorded EXCEPT ![s] = IdsOf(q)]
    BY <1>1, <2>1, <2>3, KeptListSet
  <2>5. MetaOK' /\ Listed' = [Listed EXCEPT ![s] = IdsOf(q)]
    BY <1>1, <2>1, <2>3, MetaSet
  <2> QED
    BY <2>2, <2>3, <2>4, <2>5
<1>6. HistoryOK'
  BY <1>1, <1>2 DEF Types, HistoryOK
<1>7. Types'
  BY <1>1, <1>2, <1>3, <1>4, <1>5, <1>6 DEF Types
<1>8. JobInv'
  BY <1>1, <1>2, <1>3, <1>4, <1>5, <1>6, ListTypes, HeldFacts DEF JobInv, PromiseInv, RevertInv
<1>9. PromiseInv'
  BY <1>1, <1>2, <1>3, <1>4, <1>5, <1>6, ListTypes, HeldFacts DEF PromiseInv, JobInv, RecordInv
<1>10. RecordInv'
  BY <1>1, <1>2, <1>3, <1>4, <1>5, <1>6, ListTypes, HeldFacts DEF RecordInv, JobInv, PromiseInv
<1>11. RevertInv'
  BY <1>1, <1>2, <1>3, <1>4, <1>5, <1>6, ListTypes, HeldFacts DEF RevertInv, JobInv
<1>12. ForceInv'
  BY <1>1, <1>4
<1> QED
  BY <1>7, <1>8, <1>9, <1>10, <1>11, <1>12 DEF ShaderInv

\* A listing lists what the engine has: no less than was answered.
LEMMA ListedAgain ==
  ASSUME ShaderInv, NEW s \in ShaderSessions, List(s)
  PROVE  ShaderInv'
<1>1. Types /\ JobInv /\ PromiseInv /\ RecordInv /\ RevertInv /\ ForceInv
  BY DEF ShaderInv
<1>2. /\ at = "idle" /\ s \in up /\ meta' = [meta EXCEPT ![s] = Listing(s)]
      /\ UNCHANGED <<at, job, up, native, patches, kept, untracked, promised, reverted>>
  BY DEF List, Editable, native, history
<1>3. MetaOK' /\ Listed' = [Listed EXCEPT ![s] = {j \in Ids : <<s, j>> \in Held}]
  BY <1>1, <1>2, MetaSet, ListingFacts
<1>4. /\ NativeOK' /\ PatchesOK' /\ Held' = Held /\ KeptOK' /\ Recorded' = Recorded
      /\ ToApply' = ToApply
  BY <1>1, <1>2, Stays
<1>5. JobOK' /\ HistoryOK'
  BY <1>1, <1>2 DEF Types, JobOK, HistoryOK
<1>6. Types'
  BY <1>1, <1>2, <1>3, <1>4, <1>5 DEF Types
<1>7. JobInv'
  BY <1>1, <1>2, <1>3, <1>4, <1>5, ListTypes, HeldFacts DEF JobInv, PromiseInv, RevertInv
<1>8. PromiseInv'
  BY <1>1, <1>2, <1>3, <1>4, <1>5, ListTypes, HeldFacts DEF PromiseInv, JobInv, RecordInv
<1>9. RecordInv'
  BY <1>1, <1>2, <1>3, <1>4, <1>5, ListTypes, HeldFacts DEF RecordInv, JobInv, PromiseInv
<1>10. RevertInv'
  BY <1>1, <1>2, <1>3, <1>4, <1>5, ListTypes, HeldFacts DEF RevertInv, JobInv
<1>11. ForceInv'
  BY <1>1, <1>2, Stays
<1> QED
  BY <1>6, <1>7, <1>8, <1>9, <1>10, <1>11 DEF ShaderInv

\* A revert that fails lists like a listing.
LEMMA RevertFailed ==
  ASSUME ShaderInv, NEW s \in ShaderSessions, NEW i \in Ids, RevertFails(s, i)
  PROVE  ShaderInv'
<1>1. Types /\ JobInv /\ PromiseInv /\ RecordInv /\ RevertInv /\ ForceInv
  BY DEF ShaderInv
<1>2. /\ at = "idle" /\ s \in up /\ meta' = [meta EXCEPT ![s] = Listing(s)]
      /\ UNCHANGED <<at, job, up, kept, reverted>> /\ promised' = promised \ {<<s, i>>}
  BY DEF RevertFails, Editable
<1>3. MetaOK' /\ Listed' = [Listed EXCEPT ![s] = {j \in Ids : <<s, j>> \in Held}]
  BY <1>1, <1>2, MetaSet, ListingFacts
<1>4. /\ UNCHANGED patches /\ PatchesOK' /\ Held' = Held /\ NativeOK' /\ ForceInv'
  <2>1. CASE <<s, i>> \in Held
    <3>1. RevertRaises(s, i)
      BY <2>1, KnownIsHeld DEF RevertFails
    <3> QED
      BY <1>1, <1>2, <2>1, <3>1, RevertRaisesFacts, Stays
  <2>2. CASE <<s, i>> \notin Held
    <3>1. UNCHANGED <<inForce, patches, untracked>>
      BY <2>2, KnownIsHeld DEF RevertFails
    <3> QED
      BY <1>1, <1>2, <3>1, Stays DEF native
  <2> QED
    BY <2>1, <2>2
<1>5. KeptOK' /\ Recorded' = Recorded /\ ToApply' = ToApply
  BY <1>1, <1>2, Stays
<1>6. JobOK' /\ HistoryOK'
  BY <1>1, <1>2 DEF Types, JobOK, HistoryOK
<1>7. Types'
  BY <1>1, <1>2, <1>3, <1>4, <1>5, <1>6 DEF Types
<1>8. JobInv'
  BY <1>1, <1>2, <1>3, <1>4, <1>5, <1>6, ListTypes, HeldFacts DEF JobInv, PromiseInv, RevertInv
<1>9. PromiseInv'
  BY <1>1, <1>2, <1>3, <1>4, <1>5, <1>6, ListTypes, HeldFacts DEF PromiseInv, JobInv, RecordInv
<1>10. RecordInv'
  BY <1>1, <1>2, <1>3, <1>4, <1>5, <1>6, ListTypes, HeldFacts DEF RecordInv, JobInv, PromiseInv
<1>11. RevertInv'
  BY <1>1, <1>2, <1>3, <1>4, <1>5, <1>6, ListTypes, HeldFacts DEF RevertInv, JobInv
<1>12. ForceInv'
  BY <1>1, <1>4
<1> QED
  BY <1>7, <1>8, <1>9, <1>10, <1>11, <1>12 DEF ShaderInv

\* A revert lists what the engine had, and takes the record away.
LEMMA Reverted ==
  ASSUME ShaderInv, NEW s \in ShaderSessions, NEW i \in Ids, Revert(s, i)
  PROVE  ShaderInv'
<1>1. Types /\ JobInv /\ PromiseInv /\ RecordInv /\ RevertInv /\ ForceInv
  BY DEF ShaderInv
<1>2. /\ at = "idle" /\ at' = "revert" /\ s \in up /\ meta' = [meta EXCEPT ![s] = Listing(s)]
      /\ UNCHANGED <<up, kept, reverted>> /\ promised' = promised \ {<<s, i>>}
      /\ RevertDone(s, i) /\ <<s, i>> \in Held
  BY KnownIsHeld DEF Revert, Editable, Go
<1>3. MetaOK' /\ Listed' = [Listed EXCEPT ![s] = {j \in Ids : <<s, j>> \in Held}]
  BY <1>1, <1>2, MetaSet, ListingFacts
<1>4. /\ PatchesOK' /\ NativeOK' /\ ForceInv' /\ Held' = Held \ {<<s, i>>}
  BY <1>1, <1>2, RevertDoneFacts
<1>5. /\ JobOK' /\ job'.session = s /\ job'.entry \in Entries /\ job'.entry.id = i
  <2>1. job' = [session |-> s, entry |-> Entry(i, ShaderOf(i), TRUE), todo |-> <<>>]
    BY DEF Revert, Go
  <2>2. ShaderOf(i) \in Shaders
    BY <1>1, <1>2, HeldFacts
  <2>3. Entry(i, ShaderOf(i), TRUE) \in Entries /\ Entry(i, ShaderOf(i), TRUE).id = i
    BY <2>2, EntryFacts
  <2> QED
    BY <1>2, <2>1, <2>3, EmptyFacts DEF JobOK, Places
<1>6. KeptOK' /\ Recorded' = Recorded
  BY <1>1, <1>2, Stays
<1>7. HistoryOK'
  BY <1>1, <1>2 DEF Types, HistoryOK
<1>8. Types'
  BY <1>1, <1>2, <1>3, <1>4, <1>5, <1>6, <1>7 DEF Types
<1>9. JobInv'
  BY <1>1, <1>2, <1>3, <1>4, <1>5, <1>6, <1>7, ListTypes, HeldFacts
     DEF JobInv, PromiseInv, RevertInv
<1>10. PromiseInv'
  BY <1>1, <1>2, <1>3, <1>4, <1>5, <1>6, <1>7, ListTypes, HeldFacts
     DEF PromiseInv, JobInv, RecordInv
<1>11. RecordInv'
  BY <1>1, <1>2, <1>3, <1>4, <1>5, <1>6, <1>7, ListTypes, HeldFacts
     DEF RecordInv, JobInv, PromiseInv
<1>12. RevertInv'
  BY <1>1, <1>2, <1>3, <1>4, <1>5, <1>6, <1>7, ListTypes, HeldFacts DEF RevertInv, JobInv
<1>13. ForceInv'
  BY <1>1, <1>4
<1> QED
  BY <1>8, <1>9, <1>10, <1>11, <1>12, <1>13 DEF ShaderInv

\* What was reverted leaves the list of the runtime and the record.
LEMMA RevertStored ==
  ASSUME ShaderInv, RevertStore
  PROVE  ShaderInv'
<1>1. Types /\ JobInv /\ PromiseInv /\ RecordInv /\ RevertInv /\ ForceInv
  BY DEF ShaderInv
<1>2. /\ at = "revert" /\ at' = "idle" /\ job' = NoJob /\ JobOK'
      /\ UNCHANGED <<up, native, patches, untracked, promised>>
  BY <1>1, Stays DEF RevertStore, Rest, Places, native
<1>3. PICK s \in ShaderSessions, j \in Ids : /\ s = job.session /\ j = job.entry.id /\ s \in up
                                             /\ reverted' = reverted \cup {<<s, j>>}
  BY <1>1, <1>2 DEF JobInv, Entries, RevertStore
<1>4. /\ MetaOK' /\ Listed' = [Listed EXCEPT ![s] = Listed[s] \ {j}]
      /\ KeptOK' /\ Recorded' = [Recorded EXCEPT ![s] = Listed[s] \ {j}]
  <2> DEFINE q == Without(meta[s], j)
  <2>1. meta' = [meta EXCEPT ![s] = q] /\ kept' = [kept EXCEPT ![s].list = q]
    BY <1>3 DEF RevertStore, RevertedRecord
  <2>2. meta[s] \in Seq(Entries) /\ Once(meta[s]) /\ Listed[s] = IdsOf(meta[s])
    BY <1>1, ListFacts
  <2>3. q \in Seq(Entries) /\ Once(q) /\ IdsOf(q) = IdsOf(meta[s]) \ {j}
    BY <2>2, WithoutFacts, WithoutIds
  <2> HIDE DEF q
  <2>4. KeptOK' /\ Recorded' = [Recorded EXCEPT ![s] = IdsOf(q)]
    BY <1>1, <2>1, <2>3, KeptListSet
  <2>5. MetaOK' /\ Listed' = [Listed EXCEPT ![s] = IdsOf(q)]
    BY <1>1, <2>1, <2>3, MetaSet
  <2> QED
    BY <2>2, <2>3, <2>4, <2>5
<1>5. NativeOK' /\ PatchesOK' /\ Held' = Held
  BY <1>1, <1>2, Stays
<1>6. HistoryOK'
  BY <1>1, <1>2, <1>3 DEF Types, HistoryOK
<1>7. Types'
  BY <1>1, <1>2, <1>3, <1>4, <1>5, <1>6 DEF Types
<1>8. JobInv'
  BY <1>1, <1>2, <1>3, <1>4, <1>5, <1>6, ListTypes, HeldFacts DEF JobInv, PromiseInv, RevertInv
<1>9. PromiseInv'
  BY <1>1, <1>2, <1>3, <1>4, <1>5, <1>6, ListTypes, HeldFacts DEF PromiseInv, JobInv, RecordInv
<1>10. RecordInv'
  BY <1>1, <1>2, <1>3, <1>4, <1>5, <1>6, ListTypes, HeldFacts DEF RecordInv, JobInv, PromiseInv
<1>11. RevertInv'
  BY <1>1, <1>2, <1>3, <1>4, <1>5, <1>6, ListTypes, HeldFacts DEF RevertInv, JobInv
<1>12. ForceInv'
  BY <1>1, <1>2, Stays
<1> QED
  BY <1>7, <1>8, <1>9, <1>10, <1>11, <1>12 DEF ShaderInv

---------------------------------------------------------------------------
\* Nothing is there at first.
LEMMA ShaderInitInv == ShaderInit => ShaderInv
<1> SUFFICES ASSUME ShaderInit PROVE ShaderInv
  OBVIOUS
<1>1. /\ at = "idle" /\ job = NoJob /\ up = {} /\ inForce = [s \in ShaderSessions |-> Captured]
      /\ patches = <<>> /\ meta = [s \in ShaderSessions |-> <<>>]
      /\ kept = [s \in ShaderSessions |-> Absent]
      /\ untracked = {} /\ promised = {} /\ reverted = {}
  BY DEF ShaderInit
<1>2. JobOK /\ PatchesOK /\ MetaOK /\ HistoryOK
  BY <1>1, EmptyFacts DEF JobOK, NoJob, Places, PatchesOK, MetaOK, HistoryOK
<1>3. KeptOK
  BY <1>1, EmptyFacts, AbsentFacts DEF KeptOK
<1>4. NativeOK
  BY <1>1, CapturedFacts DEF NativeOK, Natives
<1> QED
  BY <1>1, <1>2, <1>3, <1>4
     DEF ShaderInv, Types, JobInv, PromiseInv, RecordInv, RevertInv, ForceInv

\* Every step keeps it.
LEMMA ShaderStepInv == ShaderInv /\ [ShaderNext]_shaderVars => ShaderInv'
<1> SUFFICES ASSUME ShaderInv, [ShaderNext]_shaderVars PROVE ShaderInv'
  OBVIOUS
<1>1. ASSUME NEW s \in ShaderSessions, SessionStep(s) PROVE ShaderInv'
  BY <1>1, Opened, Fatal, Recovers, Closes, UnheldClosed, CaptureClosed, ListedAgain, EditFailed
     DEF SessionStep
<1>2. ASSUME NEW s \in ShaderSessions, NEW i \in Ids, ShaderStep(s, i) PROVE ShaderInv'
  BY <1>2, Edited, RevertFailed, Reverted DEF ShaderStep
<1>3. CASE UNCHANGED shaderVars
  <2>1. /\ UNCHANGED <<at, job, up, native, patches, meta, kept, untracked, promised, reverted>>
    BY <1>3 DEF shaderVars, native, history
  <2>2. Types /\ JobInv /\ PromiseInv /\ RecordInv /\ RevertInv /\ ForceInv
    BY DEF ShaderInv
  <2>3. /\ PatchesOK' /\ MetaOK' /\ KeptOK' /\ NativeOK' /\ ForceInv'
        /\ Held' = Held /\ Listed' = Listed /\ Recorded' = Recorded /\ ToApply' = ToApply
    BY <2>1, <2>2, Stays
  <2>4. JobOK' /\ HistoryOK'
    BY <2>1, <2>2 DEF Types, JobOK, HistoryOK
  <2>5. JobInv' /\ PromiseInv' /\ RecordInv' /\ RevertInv'
    BY <2>1, <2>2, <2>3 DEF JobInv, PromiseInv, RecordInv, RevertInv
  <2> QED
    BY <2>3, <2>4, <2>5 DEF ShaderInv, Types
<1> QED
  BY <1>1, <1>2, <1>3, Lost, Started, Reapplied, RecoveryEnds, RecoveryFails, Closed, Cleared,
     ShutDown, ArtifactFailed, Stored, Answered, Invalidated, RevertStored DEF ShaderNext

\* The invariant in every reachable state.
THEOREM ShadersAreInOrder == ShaderSpec => []ShaderInv
BY ShaderInitInv, ShaderStepInv, PTL DEF ShaderSpec

\* Types, and an id once in the engine, in the metadata of a session and in its
\* record, for every set of sessions, shaders and ids (patch_engine.py 1381-1420).
THEOREM ShaderTypes == ShaderSpec => []ShaderTypeOK
<1>1. ShaderInv => ShaderTypeOK
  <2> SUFFICES ASSUME ShaderInv PROVE ShaderTypeOK
    OBVIOUS
  <2>1. Types
    BY DEF ShaderInv
  <2>2. ToSet(patches) \subseteq Records /\ Unique(patches)
    BY <2>1, IdsFacts, OnceIsUnique DEF Types, PatchesOK
  <2>3. ASSUME NEW s \in ShaderSessions
        PROVE  /\ ToSet(meta[s]) \cup ToSet(kept[s].list) \subseteq Entries
               /\ Unique(meta[s]) /\ Unique(kept[s].list)
               /\ kept[s].status \in {"absent", "ready", "requires_restart"}
    <3>1. /\ meta[s] \in Seq(Entries) /\ Once(meta[s]) /\ kept[s] \in Saved
          /\ kept[s].list \in Seq(Entries) /\ Once(kept[s].list)
      BY <2>1, ListFacts
    <3>2. kept[s].status \in {"absent", "ready", "requires_restart"}
      BY <3>1 DEF Saved
    <3>3. ToSet(meta[s]) \subseteq Entries /\ ToSet(kept[s].list) \subseteq Entries
      BY <3>1, IdsFacts
    <3> QED
      BY <3>1, <3>2, <3>3, OnceIsUnique
  <2>4. /\ job.session \in ShaderSessions \cup {Nil} /\ job.entry \in Entries \cup {Nil}
        /\ job.todo \in Seq(Entries) /\ at \in Places
    BY <2>1 DEF Types, JobOK
  <2>5. ToSet(job.todo) \subseteq Entries
    BY <2>4, IdsFacts
  <2>6. /\ up \subseteq ShaderSessions /\ untracked \subseteq ShaderSessions \X Shaders
        /\ inForce \in [ShaderSessions -> [Shaders -> Ids \cup {Nil, Stray}]]
        /\ \A s \in ShaderSessions : s \notin up => inForce[s] = Captured
    BY <2>1 DEF Types, NativeOK, Natives
  <2>7. promised \cup reverted \subseteq ShaderSessions \X Ids
    BY <2>1 DEF Types, HistoryOK
  <2> QED
    BY <2>2, <2>3, <2>4, <2>5, <2>6, <2>7 DEF ShaderTypeOK, Places, Records
<1> QED
  BY <1>1, ShadersAreInOrder, PTL

\* Every replacement in force can be reverted, through every order of edits,
\* failures, recoveries and losses (docs/session-model.md 112).
THEOREM ForceIsRevertible == ShaderSpec => []InForceIsRevertible
<1>1. ShaderInv => InForceIsRevertible
  BY DEF ShaderInv, ForceInv, InForceIsRevertible
<1> QED
  BY <1>1, ShadersAreInOrder, PTL

\* What was reverted is in no list that a recovery, a listing or an edit reads,
\* over any losses of the worker (server_runtime.py 10990-11005).
THEOREM RevertedAreGone == ShaderSpec => []RevertedStaysReverted
<1>1. ShaderInv => RevertedStaysReverted
  <2> SUFFICES ASSUME ShaderInv, NEW p \in reverted
               PROVE  /\ ~ Known(p[1], p[2])
                      /\ p[2] \notin IdsOf(meta[p[1]]) \cup IdsOf(kept[p[1]].list)
    BY DEF RevertedStaysReverted
  <2>1. Types /\ RevertInv
    BY DEF ShaderInv
  <2>2. PICK s \in ShaderSessions, i \in Ids : p = <<s, i>>
    BY <2>1 DEF Types, HistoryOK
  <2>3. p[1] = s /\ p[2] = i
    BY <2>2
  <2>4. <<s, i>> \notin Held /\ i \notin Listed[s] /\ i \notin Recorded[s]
    BY <2>1, <2>2 DEF RevertInv
  <2>5. ~ Known(s, i)
    BY <2>4, KnownIsHeld
  <2>6. i \notin IdsOf(meta[s]) /\ i \notin IdsOf(kept[s].list)
    BY <2>1, <2>4, ListFacts
  <2> QED
    BY <2>3, <2>5, <2>6
<1> QED
  BY <1>1, ShadersAreInOrder, PTL

\* What was answered "applied" is in the record a recovery reads, until it is
\* reverted, applied again or its session ends.
THEOREM AppliedAreRecorded == ShaderSpec => []AppliedStaysRecorded
<1>1. ShaderInv => AppliedStaysRecorded
  <2> SUFFICES ASSUME ShaderInv, NEW p \in promised PROVE p[2] \in IdsOf(kept[p[1]].list)
    BY DEF AppliedStaysRecorded
  <2>1. Types /\ RecordInv
    BY DEF ShaderInv
  <2>2. PICK s \in ShaderSessions, i \in Ids : p = <<s, i>>
    BY <2>1 DEF Types, HistoryOK
  <2>3. p[1] = s /\ p[2] = i
    BY <2>2
  <2>4. i \in Recorded[s]
    BY <2>1, <2>2 DEF RecordInv
  <2> QED
    BY <2>1, <2>3, <2>4, ListFacts
<1> QED
  BY <1>1, ShadersAreInOrder, PTL
===============================================================================
