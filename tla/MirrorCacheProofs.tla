-------------------------- MODULE MirrorCacheProofs --------------------------
(***************************************************************************)
(* Safety of the shared cache, for any number of executions, endpoints and *)
(* configurations, and any number of faults.  AllInv is inductive: NameInv *)
(* says what the cache holds under a remote name while an execution that   *)
(* has bound or fetched it is running.  LoneInv adds what it must hold     *)
(* while nothing disturbs that execution.                                  *)
(***************************************************************************)
EXTENDS MirrorCache, SequenceTheorems, TLAPS

\* The execution is past its bind, or its fetch, of index i.
BoundBy(p, i) == at[p] > IF multi[p] THEN 4 * i - 3 ELSE i
FetchedBy(p, i) == at[p] > IF multi[p] THEN 4 * i - 2 ELSE i + 2

\* Executions that overlap agree, one that has not made the cache usable is at
\* its first step, and an error is reported only of an index that is over.
ControlInv ==
  /\ \A p \in Procs : ~multi[p] => Len(conf[p]) = 2
  /\ \A p, q \in Procs : p # q /\ Active(p) /\ Active(q) => Agree(p, q)
  /\ \A p \in Procs : pc[p] = "idle" \/ (Active(p) /\ pc[p] # "run")
       => at[p] = 1 /\ \A i \in Indexes(p) : seen[p][i] = None
  /\ \A p \in Procs : \A i \in Indexes(p) :
       seen[p][i] = "error" => multi[p] /\ at[p] > 4 * i

NameInv ==
  \A p \in Procs : pc[p] = "run" =>
    \A i \in Indexes(p) : seen[p][i] # "error" =>
      /\ BoundBy(p, i) => cache.bind[Alias(p, i)] \in {None, conf[p][i]}
      /\ FetchedBy(p, i) =>
           \A b \in Branches : cache.track[Alias(p, i)][b] \in {None, conf[p][i]}

AllInv == TypeOK /\ ControlInv /\ NameInv /\ TargetsAreNotMixedUp

------------------------------------------------------------------------------
(* The program and the remote names                                        *)

\* Quotients and remainders.
LEMMA ByFour ==
  ASSUME NEW n \in Nat, NEW k \in 1 .. 4 * n
  PROVE  /\ (k - 1) \div 4 \in 0 .. n - 1 /\ (k - 1) % 4 \in 0 .. 3
         /\ k - 1 = 4 * ((k - 1) \div 4) + ((k - 1) % 4)
  OBVIOUS

\* The same by two, for Check's program of two endpoints.
LEMMA ByTwo ==
  ASSUME NEW k \in 1 .. 8
  PROVE  /\ (k - 1) \div 2 \in 0 .. 3 /\ (k - 1) % 2 \in 0 .. 1
         /\ k - 1 = 2 * ((k - 1) \div 2) + ((k - 1) % 2)
  OBVIOUS

\* What the program of an execution with n endpoints is.
LEMMA ProgramIs ==
  ASSUME NEW p \in Procs, NEW n \in Nat, n = Len(conf[p]), n > 1, multi[p] \in BOOLEAN,
         ~multi[p] => n = 2
  PROVE  /\ Len(Program(p)) = 5 * n - 1
         /\ \A k \in 1 .. 4 * n : Program(p)[k] =
              IF multi[p] THEN <<Ops[((k - 1) % 4) + 1], ((k - 1) \div 4) + 1>>
              ELSE <<Ops[((k - 1) \div n) + 1], ((k - 1) % n) + 1>>
         /\ \A k \in 4 * n + 1 .. 5 * n - 1 : Program(p)[k] = <<"push", k - 4 * n + 1>>
<1> DEFINE both == [k \in 1 .. 4 * n |-> <<Ops[((k - 1) % 4) + 1], ((k - 1) \div 4) + 1>>]
<1> DEFINE one == [k \in 1 .. 4 * n |-> <<Ops[((k - 1) \div n) + 1], ((k - 1) % n) + 1>>]
<1> DEFINE observe == IF multi[p] THEN both ELSE one
<1> DEFINE pushes == [k \in 1 .. n - 1 |-> <<"push", k + 1>>]
<1> DEFINE S == {observe[k] : k \in 1 .. 4 * n} \cup {pushes[k] : k \in 1 .. n - 1}
<1>1. 4 * n \in Nat /\ n - 1 \in Nat
  OBVIOUS
<1>2. observe \in Seq(S) /\ Len(observe) = 4 * n
  <2>1. observe \in [1 .. 4 * n -> S] /\ DOMAIN observe = 1 .. 4 * n
    OBVIOUS
  <2> HIDE DEF observe, S
  <2> QED BY <1>1, <2>1, SeqDef, LenProperties
<1>3. pushes \in Seq(S) /\ Len(pushes) = n - 1
  <2>1. pushes \in [1 .. n - 1 -> S] /\ DOMAIN pushes = 1 .. n - 1
    OBVIOUS
  <2> HIDE DEF pushes, S
  <2> QED BY <1>1, <2>1, SeqDef, LenProperties
<1>4. Program(p) = observe \o pushes
  BY DEF Program
<1>5. Len(observe \o pushes) = 5 * n - 1
  <2> HIDE DEF observe, pushes, S
  <2>1. Len(observe \o pushes) = Len(observe) + Len(pushes)
    BY <1>2, <1>3, ConcatProperties, Zenon
  <2> QED BY <1>2, <1>3, <2>1
<1>6. \A k \in 1 .. 4 * n : (observe \o pushes)[k] = observe[k]
  <2> HIDE DEF observe, pushes, S
  <2> QED BY <1>1, <1>2, <1>3, ConcatProperties
<1>7. \A k \in 4 * n + 1 .. 5 * n - 1 : (observe \o pushes)[k] = pushes[k - 4 * n]
  <2> HIDE DEF observe, pushes, S
  <2>1. \A k \in Len(observe) + 1 .. Len(observe) + Len(pushes) :
          (observe \o pushes)[k] = pushes[k - Len(observe)]
    BY <1>2, <1>3, ConcatProperties, SMTT(30)
  <2>2. Len(observe) + 1 .. Len(observe) + Len(pushes) = 4 * n + 1 .. 5 * n - 1
    BY <1>1, <1>2, <1>3
  <2> QED BY <1>2, <2>1, <2>2
<1>8. \A k \in 4 * n + 1 .. 5 * n - 1 : pushes[k - 4 * n] = <<"push", k - 4 * n + 1>>
  <2> SUFFICES ASSUME NEW k \in 4 * n + 1 .. 5 * n - 1
               PROVE  pushes[k - 4 * n] = <<"push", k - 4 * n + 1>>
    OBVIOUS
  <2>1. k - 4 * n \in 1 .. n - 1
    OBVIOUS
  <2> QED BY <2>1
<1>9. \A k \in 1 .. 4 * n : observe[k] =
        IF multi[p] THEN <<Ops[((k - 1) % 4) + 1], ((k - 1) \div 4) + 1>>
        ELSE <<Ops[((k - 1) \div n) + 1], ((k - 1) % n) + 1>>
  OBVIOUS
<1> HIDE DEF observe, pushes
<1> QED BY <1>4, <1>5, <1>6, <1>7, <1>8, <1>9

\* Where the program is when it is about to do what it does to one index.
Place(p, op, i) ==
  CASE op = "bind"    -> IF multi[p] THEN 4 * i - 3 ELSE i
    [] op = "fetch"   -> IF multi[p] THEN 4 * i - 2 ELSE i + 2
    [] op = "resolve" -> IF multi[p] THEN 4 * i - 1 ELSE i + 4
    [] op = "read"    -> IF multi[p] THEN 4 * i ELSE i + 6
    [] op = "push"    -> 4 * Len(conf[p]) + i - 1

\* What an execution works on, and the places of its program.
LEMMA ProgramPlaces ==
  ASSUME TypeOK, ControlInv, NEW p \in Procs, at[p] <= Len(Program(p))
  PROVE  /\ Step(p)[2] \in Indexes(p) /\ Step(p)[1] \in {"bind", "fetch", "resolve", "read", "push"}
         /\ at[p] = Place(p, Step(p)[1], Step(p)[2])
         /\ Step(p)[1] = "push" => Step(p)[2] > 1
<1>n. PICK n \in Nat : n = Len(conf[p]) /\ n > 1
  BY MirrorCacheAssumption DEF TypeOK
<1>k. PICK k \in Int : k = at[p]
  BY DEF TypeOK
<1>1. multi[p] \in BOOLEAN /\ (~multi[p] => n = 2)
  BY <1>n DEF TypeOK, ControlInv
<1>p. /\ Len(Program(p)) = 5 * n - 1
      /\ \A m \in 1 .. 4 * n : Program(p)[m] =
           IF multi[p] THEN <<Ops[((m - 1) % 4) + 1], ((m - 1) \div 4) + 1>>
           ELSE <<Ops[((m - 1) \div n) + 1], ((m - 1) % n) + 1>>
      /\ \A m \in 4 * n + 1 .. 5 * n - 1 : Program(p)[m] = <<"push", m - 4 * n + 1>>
  BY <1>n, <1>1, ProgramIs
<1>s. Step(p) = Program(p)[k]
  BY <1>k DEF Step
<1>2. k \in 1 .. 5 * n - 1 /\ Len(Program(p)) = 5 * n - 1
  BY <1>k, <1>p DEF TypeOK
<1>3. CASE k \in 1 .. 4 * n /\ multi[p]
  <2>1. Step(p) = <<Ops[((k - 1) % 4) + 1], ((k - 1) \div 4) + 1>>
    BY <1>3, <1>p, <1>s
  <2> DEFINE q == (k - 1) \div 4
  <2> DEFINE r == (k - 1) % 4
  <2>2. q \in 0 .. n - 1 /\ r \in 0 .. 3 /\ k - 1 = 4 * q + r
    BY <1>1, <1>3, ByFour
  <2>3. Step(p)[1] = Ops[r + 1] /\ Step(p)[2] = q + 1
    BY <2>1
  <2> HIDE DEF q, r
  <2>4. \/ r = 0 /\ Step(p)[1] = "bind"
        \/ r = 1 /\ Step(p)[1] = "fetch"
        \/ r = 2 /\ Step(p)[1] = "resolve"
        \/ r = 3 /\ Step(p)[1] = "read"
    BY <2>2, <2>3 DEF Ops
  <2>5. Step(p)[2] \in Indexes(p)
    BY <1>n, <1>1, <1>3, <2>2, <2>3 DEF Indexes
  <2>6. k = Place(p, Step(p)[1], Step(p)[2])
    <3>1. CASE r = 0 /\ Step(p)[1] = "bind"
      BY <1>3, <2>2, <2>3, <3>1 DEF Place
    <3>2. CASE r = 1 /\ Step(p)[1] = "fetch"
      BY <1>3, <2>2, <2>3, <3>2 DEF Place
    <3>3. CASE r = 2 /\ Step(p)[1] = "resolve"
      BY <1>3, <2>2, <2>3, <3>3 DEF Place
    <3>4. CASE r = 3 /\ Step(p)[1] = "read"
      BY <1>3, <2>2, <2>3, <3>4 DEF Place
    <3> QED BY <2>4, <3>1, <3>2, <3>3, <3>4
  <2> QED BY <1>k, <2>4, <2>5, <2>6
<1>4. CASE k \in 1 .. 4 * n /\ ~multi[p]
  <2>0. n = 2
    BY <1>1, <1>4, Zenon
  <2>1. Step(p) = <<Ops[((k - 1) \div 2) + 1], ((k - 1) % 2) + 1>>
    <3>1. Step(p) = <<Ops[((k - 1) \div n) + 1], ((k - 1) % n) + 1>>
      BY <1>4, <1>p, <1>s
    <3> QED BY <2>0, <3>1
  <2> DEFINE q == (k - 1) \div 2
  <2> DEFINE r == (k - 1) % 2
  <2>2. q \in 0 .. 3 /\ r \in 0 .. 1 /\ k - 1 = 2 * q + r
    <3>1. k \in 1 .. 8
      BY <1>1, <1>4
    <3> QED BY <3>1, ByTwo
  <2>3. Step(p)[1] = Ops[q + 1] /\ Step(p)[2] = r + 1
    BY <2>1
  <2> HIDE DEF q, r
  <2>4. \/ q = 0 /\ Step(p)[1] = "bind"
        \/ q = 1 /\ Step(p)[1] = "fetch"
        \/ q = 2 /\ Step(p)[1] = "resolve"
        \/ q = 3 /\ Step(p)[1] = "read"
    BY <2>2, <2>3 DEF Ops
  <2>5. Step(p)[2] \in Indexes(p)
    BY <1>n, <2>0, <2>2, <2>3 DEF Indexes
  <2>6. k = Place(p, Step(p)[1], Step(p)[2])
    <3>1. CASE q = 0 /\ Step(p)[1] = "bind"
      <4>1. Place(p, "bind", Step(p)[2]) = Step(p)[2]
        BY <1>4 DEF Place
      <4>2. k = Step(p)[2]
        BY <2>2, <2>3, <3>1
      <4> QED BY <3>1, <4>1, <4>2
    <3>2. CASE q = 1 /\ Step(p)[1] = "fetch"
      BY <1>4, <2>2, <2>3, <3>2 DEF Place
    <3>3. CASE q = 2 /\ Step(p)[1] = "resolve"
      BY <1>4, <2>2, <2>3, <3>3 DEF Place
    <3>4. CASE q = 3 /\ Step(p)[1] = "read"
      BY <1>4, <2>2, <2>3, <3>4 DEF Place
    <3> QED BY <2>4, <3>1, <3>2, <3>3, <3>4
  <2> QED BY <1>k, <2>4, <2>5, <2>6
<1>5. CASE k \in 4 * n + 1 .. 5 * n - 1
  <2>1. Step(p) = <<"push", k - 4 * n + 1>>
    BY <1>5, <1>p, <1>s
  <2>4. Step(p)[1] = "push" /\ Step(p)[2] = k - 4 * n + 1
    BY <2>1
  <2>5. k - 4 * n + 1 \in 2 .. n
    BY <1>5
  <2>2. Step(p)[2] \in Indexes(p) /\ Step(p)[2] > 1
    <3>1. Step(p)[2] \in 2 .. n
      BY <2>4, <2>5
    <3>2. Indexes(p) = 1 .. n
      BY <1>n DEF Indexes
    <3> QED BY <3>1, <3>2
  <2>3. k = Place(p, "push", Step(p)[2])
    BY <1>n, <2>4, <2>5 DEF Place
  <2> QED BY <1>k, <2>2, <2>3, <2>4
<1> QED BY <1>1, <1>2, <1>3, <1>4, <1>5

\* Remote names are remote names of the cache, and an execution has one for each
\* endpoint.
LEMMA Names ==
  ASSUME TypeOK, ControlInv, NEW p \in Procs
  PROVE  /\ \A i \in Indexes(p) : Alias(p, i) \in Aliases /\ conf[p][i] \in Endpoints
                                  /\ i \in 1 .. MaxLen
         /\ \A i, j \in Indexes(p) : Alias(p, i) = Alias(p, j) => i = j
<1>1. MaxLen \in Nat /\ \A c \in Configs : Len(c) <= MaxLen
  <2>1. \E n \in {Len(c) : c \in Configs} : \A c \in Configs : Len(c) <= n
    BY MirrorCacheAssumption
  <2>2. MaxLen \in {Len(c) : c \in Configs} /\ \A c \in Configs : Len(c) <= MaxLen
    BY <2>1 DEF MaxLen
  <2> QED BY <2>2, MirrorCacheAssumption
<1>2. conf[p] \in Configs /\ Len(conf[p]) \in Nat /\ conf[p] \in Seq(Endpoints)
  BY MirrorCacheAssumption DEF TypeOK
<1>3. multi[p] \in BOOLEAN /\ (~multi[p] => Len(conf[p]) = 2)
  BY DEF TypeOK, ControlInv
<1>4. ASSUME NEW i \in Indexes(p)
      PROVE  Alias(p, i) \in Aliases /\ conf[p][i] \in Endpoints /\ i \in 1 .. MaxLen
  <2>1. i \in 1 .. Len(conf[p]) /\ i \in 1 .. MaxLen
    BY <1>1, <1>2 DEF Indexes
  <2>2. conf[p][i] \in Endpoints
    BY <1>2, <2>1
  <2>3. Alias(p, i) \in Aliases
    BY <1>1, <2>1 DEF Alias, Aliases
  <2> QED BY <2>1, <2>2, <2>3
<1>5. ASSUME NEW i \in Indexes(p), NEW j \in Indexes(p), Alias(p, i) = Alias(p, j)
      PROVE  i = j
  <2>1. i \in 1 .. Len(conf[p]) /\ j \in 1 .. Len(conf[p])
    BY DEF Indexes
  <2>2. CASE multi[p]
    BY <1>5, <2>2 DEF Alias
  <2>3. CASE ~multi[p]
    <3>0. Len(conf[p]) = 2
      BY <1>3, <2>3, Zenon
    <3>1. i \in {1, 2} /\ j \in {1, 2}
      BY <2>1, <3>0
    <3> QED BY <1>5, <2>3, <3>1 DEF Alias
  <2> QED BY <2>2, <2>3
<1> QED BY <1>4, <1>5

------------------------------------------------------------------------------
(* What can be at the cache path                                           *)

CacheOK(c) == c \in Repositories /\ (c.kind # "bare" => c = Other(c.kind))

\* c knows no more remotes and tracking refs than the cache.
Weaker(c) ==
  \A a \in Aliases : /\ c.bind[a] \in {None, cache.bind[a]}
                     /\ \A b \in Branches : c.track[a][b] \in {None, cache.track[a][b]}

\* What is created anew, a repository or something else, is well-formed and knows
\* nothing.
LEMMA FreshCaches ==
  ASSUME CacheOK(cache), NEW kind \in Kinds
  PROVE  /\ CacheOK(Other(kind)) /\ Weaker(Other(kind)) /\ Other(kind).kind = kind
         /\ CacheOK(Empty) /\ Weaker(Empty) /\ Empty.kind = "bare"
<1>1. CacheOK(Empty) /\ Weaker(Empty) /\ Empty.kind = "bare"
  BY DEF CacheOK, Weaker, Empty, NoRefs, Repositories, Kinds
<1>2. Other(kind).kind = kind /\ Other(kind).bind = Empty.bind
      /\ Other(kind).track = Empty.track /\ Other(kind).head = Empty.head
  BY DEF Other, Empty
<1>3. Other(kind) \in Repositories
  BY <1>1 DEF CacheOK, Other, Repositories, Kinds
<1> QED BY <1>1, <1>2, <1>3 DEF CacheOK, Weaker

\* A half-removed cache is well-formed and knows no more than the cache did.
LEMMA TornCaches ==
  ASSUME CacheOK(cache), cache.kind \in {"junk", "bare"}, NEW c \in Torn(cache)
  PROVE  CacheOK(c) /\ Weaker(c)
<1>1. CASE c = Other("junk")
  BY <1>1, FreshCaches DEF Kinds
<1>2. ASSUME NEW b \in {cache.bind, Empty.bind}, NEW kept \in {{}, Aliases},
             c = [cache EXCEPT
                    !.bind = b,
                    !.track = [a \in Aliases |-> IF a \in kept THEN cache.track[a] ELSE NoRefs],
                    !.head = [a \in Aliases |-> IF a \in kept THEN cache.head[a] ELSE None]]
      PROVE  CacheOK(c) /\ Weaker(c)
  <2>1. c = [kind |-> cache.kind, bind |-> b,
             track |-> [a \in Aliases |-> IF a \in kept THEN cache.track[a] ELSE NoRefs],
             head |-> [a \in Aliases |-> IF a \in kept THEN cache.head[a] ELSE None]]
    BY <1>2 DEF CacheOK, Repositories
  <2>2. b \in [Aliases -> Endpoints \cup {None}]
    BY FreshCaches DEF CacheOK, Repositories, Empty
  <2>3. c \in Repositories
    BY <2>1, <2>2 DEF CacheOK, Repositories, NoRefs
  <2>4. Weaker(c)
    BY <2>1 DEF Weaker, Empty, NoRefs
  <2>5. CASE cache.kind = "bare"
    BY <2>1, <2>3, <2>4, <2>5 DEF CacheOK
  <2>6. CASE cache.kind = "junk"
    <3>1. cache = Other("junk")
      BY <2>6 DEF CacheOK
    <3>2. cache.bind = Empty.bind /\ cache.track = Empty.track /\ cache.head = Empty.head
      BY <3>1 DEF Other, Empty
    <3>3. c.bind = Empty.bind /\ c.track = Empty.track /\ c.head = Empty.head
      BY <2>1, <3>2 DEF Empty, NoRefs
    <3>4. c.kind = "junk"
      BY <2>1, <2>6
    <3>5. c = Other("junk")
      BY <2>3, <3>3, <3>4 DEF Other, Empty, Repositories
    <3> QED BY <2>3, <2>4, <3>4, <3>5 DEF CacheOK
  <2> QED BY <2>5, <2>6
<1> QED BY <1>1, <1>2 DEF Torn

\* Git's own updates, of a bare repository.
LEMMA BareUpdates ==
  ASSUME CacheOK(cache), cache.kind = "bare", NEW a \in Aliases
  PROVE  /\ \A e \in Endpoints : LET c == [cache EXCEPT !.bind[a] = e]
              IN  /\ CacheOK(c) /\ c.track = cache.track /\ c.bind[a] = e
                  /\ \A x \in Aliases \ {a} : c.bind[x] = cache.bind[x]
         /\ \A t \in [Branches -> Endpoints \cup {None}] :
              LET c == [cache EXCEPT !.track[a] = t]
              IN  /\ CacheOK(c) /\ c.bind = cache.bind /\ c.track[a] = t
                  /\ \A x \in Aliases \ {a} : c.track[x] = cache.track[x]
         /\ \A b \in Branches : LET c == [cache EXCEPT !.head[a] = b]
              IN  CacheOK(c) /\ c.bind = cache.bind /\ c.track = cache.track
  BY DEF CacheOK, Repositories

------------------------------------------------------------------------------
(* Every step keeps the types                                              *)

\* The phases in which EnsureMirror works on the path.
Preparing == {"inspect", "unlink", "remove", "removing", "clone", "cloning", "cleanup",
              "cleaning"}

\* A step of p that only works on the path or ends the execution.
PathStep(p) ==
  /\ Active(p) /\ \E phase \in Preparing \cup {"run", "done", "failed", "dead"} : Goto(p, phase)
  /\ pc'[p] \in Preparing \cup {"run"} => pc[p] \in Preparing
  /\ UNCHANGED <<hosted, inputs, at, results, renames>>
  /\ Calm \/ Fault(p)
  /\ CacheOK(cache') /\ Weaker(cache')

\* A step of the program: it succeeds, an observation fails, or all of it.
Succeeds(p) ==
  /\ Proceed(p)
  /\ \A q \in Procs \ {p} : seen'[q] = seen[q]
  /\ \A i \in 1 .. MaxLen \ {Step(p)[2]} : seen'[p][i] = seen[p][i]
  /\ seen'[p][Step(p)[2]] = "error" => seen[p][Step(p)[2]] = "error"
Skips(p) ==
  /\ multi[p] /\ at[p] <= 4 * Step(p)[2]
  /\ seen' = [seen EXCEPT ![p][Step(p)[2]] = "error"]
  /\ at' = [at EXCEPT ![p] = 4 * Step(p)[2] + 1] /\ UNCHANGED <<pc, pushed>>
GivesUp(p) == Goto(p, "failed") /\ UNCHANGED <<at, results>>

\* EnsureMirror, the ends of an execution and its death are steps of that kind.
LEMMA PathSteps ==
  ASSUME TypeOK, NEW p \in Procs,
         Inspect(p) \/ Unlink(p) \/ RemoveSome(p) \/ RemoveRest(p) \/ CloneBegin(p) \/ CloneEnd(p)
         \/ EndObservation(p) \/ EndPushes(p) \/ Kill(p)
  PROVE  PathStep(p)
<1> USE DEF PathStep, Active, Goto, Preparing
<1>1. CacheOK(cache) /\ Weaker(cache)
  BY DEF TypeOK, CacheOK, Weaker
<1>2. \A kind \in Kinds : CacheOK(Other(kind)) /\ Weaker(Other(kind))
  BY <1>1, FreshCaches
<1>3. CacheOK(Empty) /\ Weaker(Empty)
  BY <1>1, FreshCaches DEF Kinds
<1>4. cache.kind \in Kinds /\ p \in DOMAIN pc
  BY DEF TypeOK, Repositories
<1>5. CASE Inspect(p)
  BY <1>1, <1>4, <1>5 DEF Inspect, Kinds, TypeOK
<1>6. CASE Unlink(p)
  BY <1>1, <1>2, <1>4, <1>6 DEF Unlink, Kinds, TypeOK
<1>7. CASE RemoveSome(p)
  <2>1. \A c \in Torn(cache) : cache.kind \in {"junk", "bare"} => CacheOK(c) /\ Weaker(c)
    BY <1>1, TornCaches
  <2> QED BY <1>1, <1>2, <1>4, <1>7, <2>1 DEF RemoveSome, Kinds, TypeOK
<1>8. CASE RemoveRest(p)
  BY <1>1, <1>2, <1>4, <1>8 DEF RemoveRest, Kinds, TypeOK
<1>9. CASE CloneBegin(p)
  BY <1>1, <1>3, <1>4, <1>9 DEF CloneBegin, TypeOK
<1>10. CASE CloneEnd(p)
  BY <1>1, <1>2, <1>4, <1>10 DEF CloneEnd, Kinds, TypeOK
<1>11. CASE EndObservation(p)
  BY <1>1, <1>4, <1>11 DEF EndObservation, TypeOK
<1>12. CASE EndPushes(p)
  BY <1>1, <1>4, <1>12 DEF EndPushes, TypeOK
<1>13. CASE Kill(p)
  BY <1>1, <1>4, <1>13 DEF Kill, TypeOK
<1> QED BY <1>5, <1>6, <1>7, <1>8, <1>9, <1>10, <1>11, <1>12, <1>13

\* A step of the program, in general.
Reports == [Procs -> [1 .. MaxLen -> Endpoints \cup {None, "error"}]]
Pushes == [Procs -> [1 .. MaxLen -> Endpoints \cup {None}]]
ProgramStep(p) ==
  /\ pc[p] = "run" /\ at[p] <= Len(Program(p))
  /\ UNCHANGED <<hosted, inputs, renames>>
  /\ Calm \/ Fault(p)
  /\ CacheOK(cache')
  /\ Succeeds(p) \/ Skips(p) \/ GivesUp(p)
  /\ seen' \in Reports /\ pushed' \in Pushes

\* How an observation fails.
LEMMA FailedObservation ==
  ASSUME TypeOK, ControlInv, NEW p \in Procs, NEW op \in {"bind", "fetch", "resolve", "read"},
         Doing(p, op), Fails(p)
  PROVE  Skips(p) \/ GivesUp(p)
<1>1. Step(p)[2] \in Indexes(p) /\ at[p] = Place(p, op, Step(p)[2])
  BY ProgramPlaces DEF Doing
<1>2. multi[p] => at[p] <= 4 * Step(p)[2]
  <2>1. Step(p)[2] \in Nat /\ at[p] \in Nat
    BY <1>1 DEF Indexes, TypeOK
  <2>2. multi[p] => at[p] \in {4 * Step(p)[2] - 3, 4 * Step(p)[2] - 2,
                              4 * Step(p)[2] - 1, 4 * Step(p)[2]}
    BY <1>1 DEF Place
  <2> QED BY <2>1, <2>2
<1> QED BY <1>2 DEF Fails, Skips, GivesUp, results

\* A remote that is bound and hosts a branch.
LEMMA BoundRemote ==
  ASSUME TypeOK, ControlInv, NEW p \in Procs, at[p] <= Len(Program(p)), Bound(p)
  PROVE  /\ cache.bind[Name(p)] \in Endpoints
         /\ hosted[cache.bind[Name(p)]] \in Branches
         /\ Fetched(cache.bind[Name(p)]) \in [Branches -> Endpoints \cup {None}]
<1>1. Name(p) \in Aliases
  BY ProgramPlaces, Names DEF Name
<1>2. cache.bind[Name(p)] \in Endpoints
  BY <1>1 DEF Bound, TypeOK, Repositories
<1> QED BY <1>2 DEF TypeOK, Fetched

\* The operations on the remotes are steps of the program.
LEMMA ProgramSteps ==
  ASSUME TypeOK, ControlInv, NEW p \in Procs,
         Bind(p) \/ Fetch(p) \/ Resolve(p) \/ Read(p) \/ Push(p)
  PROVE  ProgramStep(p)
<1>1. pc[p] = "run" /\ at[p] <= Len(Program(p)) /\ CacheOK(cache)
  BY DEF Bind, Fetch, Resolve, Read, Push, Doing, TypeOK, CacheOK
<1>2. /\ Name(p) \in Aliases /\ Target(p) \in Endpoints /\ Step(p)[2] \in 1 .. MaxLen
  BY <1>1, ProgramPlaces, Names DEF Name, Target
<1>3. seen \in Reports /\ pushed \in Pushes
  BY DEF TypeOK, Reports, Pushes
<1>4. Skips(p) \/ GivesUp(p) => seen' \in Reports /\ pushed' \in Pushes
  <2>1. CASE Skips(p)
    <3>1. [seen EXCEPT ![p][Step(p)[2]] = "error"] \in Reports
      BY <1>2, <1>3 DEF Reports
    <3> QED BY <1>3, <2>1, <3>1 DEF Skips
  <2>2. CASE GivesUp(p)
    BY <1>3, <2>2 DEF GivesUp, results
  <2> QED BY <2>1, <2>2
<1>5. CASE Bind(p)
  <2>1. cache.kind = "bare" => CacheOK([cache EXCEPT !.bind[Name(p)] = Target(p)])
    BY <1>1, <1>2, BareUpdates
  <2>2. Fails(p) => Skips(p) \/ GivesUp(p)
    BY <1>5, FailedObservation DEF Bind
  <2> QED BY <1>1, <1>3, <1>4, <1>5, <2>1, <2>2 DEF Bind, ProgramStep, Succeeds, results
<1>6. CASE Fetch(p)
  <2>1. Bound(p) => /\ cache.kind = "bare"
                    /\ Fetched(cache.bind[Name(p)]) \in [Branches -> Endpoints \cup {None}]
    BY <1>1, BoundRemote DEF Bound
  <2>2. Bound(p) => CacheOK([cache EXCEPT !.track[Name(p)] = Fetched(cache.bind[Name(p)])])
    BY <1>1, <1>2, <2>1, BareUpdates
  <2>3. ASSUME Bound(p), NEW some \in SUBSET Branches,
               cache' = [cache EXCEPT !.track[Name(p)] =
                           [b \in Branches |-> IF b \in some THEN @[b]
                                               ELSE Fetched(cache.bind[Name(p)])[b]]]
        PROVE  CacheOK(cache')
    <3> DEFINE t == [b \in Branches |-> IF b \in some THEN cache.track[Name(p)][b]
                                        ELSE Fetched(cache.bind[Name(p)])[b]]
    <3>1. t \in [Branches -> Endpoints \cup {None}]
      BY <1>1, <1>2, <2>1, <2>3 DEF CacheOK, Repositories
    <3>2. cache' = [cache EXCEPT !.track[Name(p)] = t]
      BY <2>3
    <3> HIDE DEF t
    <3> QED BY <1>1, <1>2, <2>1, <2>3, <3>1, <3>2, BareUpdates
  <2>4. Fails(p) => Skips(p) \/ GivesUp(p)
    BY <1>6, FailedObservation DEF Fetch
  <2> QED BY <1>1, <1>3, <1>4, <1>6, <2>2, <2>3, <2>4 DEF Fetch, ProgramStep, Succeeds, results
<1>7. CASE Resolve(p)
  <2>1. Bound(p) => CacheOK([cache EXCEPT !.head[Name(p)] = hosted[cache.bind[Name(p)]]])
    BY <1>1, <1>2, BoundRemote, BareUpdates DEF Bound
  <2>2. Fails(p) => Skips(p) \/ GivesUp(p)
    BY <1>7, FailedObservation DEF Resolve
  <2> QED BY <1>1, <1>3, <1>4, <1>7, <2>1, <2>2
           DEF Resolve, Resolvable, ProgramStep, Succeeds, results
<1>8. CASE Read(p)
  <2>1. HeadOf(Name(p)) \in Endpoints \cup {None}
    BY <1>2 DEF HeadOf, TypeOK, Repositories
  <2>2. Fails(p) => Skips(p) \/ GivesUp(p)
    BY <1>8, FailedObservation DEF Read
  <2>3. [seen EXCEPT ![p][Step(p)[2]] = HeadOf(Name(p))] \in Reports
    BY <1>2, <1>3, <2>1 DEF Reports
  <2>4. ASSUME seen' = [seen EXCEPT ![p][Step(p)[2]] = HeadOf(Name(p))],
               seen'[p][Step(p)[2]] = "error"
        PROVE  seen[p][Step(p)[2]] = "error"
    <3>1. HeadOf(Name(p)) # "error"
      BY <2>1, NoneAssumption DEF None
    <3> QED BY <1>2, <1>3, <2>4, <3>1 DEF Reports
  <2>5. seen' = [seen EXCEPT ![p][Step(p)[2]] = HeadOf(Name(p))]
          => /\ \A q \in Procs \ {p} : seen'[q] = seen[q]
             /\ \A i \in 1 .. MaxLen \ {Step(p)[2]} : seen'[p][i] = seen[p][i]
    BY <1>3 DEF Reports
  <2> QED BY <1>1, <1>3, <1>4, <1>8, <2>2, <2>3, <2>4, <2>5 DEF Read, ProgramStep, Succeeds
<1>9. CASE Push(p)
  <2>1. Bound(p) => [pushed EXCEPT ![p][Step(p)[2]] = cache.bind[Name(p)]] \in Pushes
    BY <1>1, <1>2, <1>3, BoundRemote DEF Pushes
  <2> QED BY <1>1, <1>3, <1>9, <2>1 DEF Push, ProgramStep, Succeeds
<1> QED BY <1>5, <1>6, <1>7, <1>8, <1>9

\* An execution keeps its configuration, so its program and its names.
LEMMA SameProgram ==
  ASSUME UNCHANGED inputs, NEW p \in Procs
  PROVE  /\ Program(p)' = Program(p) /\ Indexes(p)' = Indexes(p)
         /\ \A i \in Indexes(p) : Alias(p, i)' = Alias(p, i)
  BY DEF inputs, Program, Indexes, Alias

\* The length of a program.
LEMMA ProgramLength ==
  ASSUME TypeOK, ControlInv, NEW p \in Procs
  PROVE  /\ Len(conf[p]) \in Nat /\ Len(conf[p]) > 1
         /\ Len(Program(p)) = 5 * Len(conf[p]) - 1
<1>n. PICK n \in Nat : n = Len(conf[p]) /\ n > 1
  BY MirrorCacheAssumption DEF TypeOK
<1>1. multi[p] \in BOOLEAN /\ (~multi[p] => n = 2)
  BY <1>n DEF TypeOK, ControlInv
<1> QED BY <1>n, <1>1, ProgramIs

\* The count of faults keeps to its bound.
LEMMA FaultsAreCounted ==
  ASSUME TypeOK, NEW p \in Procs, Calm \/ Fault(p)
  PROVE  disturbed' \in [Procs -> BOOLEAN] /\ faults' \in 0 .. MaxFaults
<1>1. faults \in 0 .. MaxFaults /\ MaxFaults \in Nat /\ disturbed \in [Procs -> BOOLEAN]
  BY MirrorCacheAssumption DEF TypeOK
<1>2. CASE Calm
  BY <1>1, <1>2 DEF Calm
<1>3. CASE Fault(p)
  BY <1>1, <1>3 DEF Fault
<1> QED BY <1>2, <1>3

\* Where a step of the program leads.
LEMMA ProgramMoves ==
  ASSUME TypeOK, ControlInv, NEW p \in Procs, ProgramStep(p)
  PROVE  /\ at' \in [Procs -> Nat \ {0}]
         /\ pc' = pc \/ pc' = [pc EXCEPT ![p] = "failed"]
         /\ \A q \in Procs \ {p} : at'[q] = at[q] /\ pc'[q] = pc[q]
         /\ at'[p] \in {at[p], at[p] + 1, 4 * Step(p)[2] + 1}
<1>0. /\ at \in [Procs -> Nat \ {0}] /\ p \in DOMAIN at /\ p \in DOMAIN pc
      /\ 4 * Step(p)[2] + 1 \in Nat \ {0}
  <2>1. Step(p)[2] \in 1 .. Len(conf[p])
    BY ProgramPlaces DEF ProgramStep, Indexes
  <2> QED BY <2>1 DEF TypeOK
<1>1. CASE Succeeds(p)
  BY <1>0, <1>1 DEF Succeeds, Proceed, TypeOK
<1>2. CASE Skips(p)
  <2>1. at' = [at EXCEPT ![p] = 4 * Step(p)[2] + 1] /\ UNCHANGED pc
    BY <1>2 DEF Skips
  <2> QED BY <1>0, <2>1
<1>3. CASE GivesUp(p)
  BY <1>0, <1>3 DEF GivesUp, Goto
<1> QED BY <1>1, <1>2, <1>3 DEF ProgramStep

\* Every step keeps the types.
LEMMA TypeStep == ASSUME TypeOK, ControlInv, [Next]_vars PROVE TypeOK'
<1>1. ASSUME NEW p \in Procs, PathStep(p) PROVE TypeOK'
  <2>1. \A q \in Procs : at'[q] <= Len(Program(q)') + 1
    BY <1>1, SameProgram DEF PathStep, TypeOK
  <2>2. disturbed' \in [Procs -> BOOLEAN] /\ faults' \in 0 .. MaxFaults
    BY <1>1, FaultsAreCounted DEF PathStep
  <2>3. pc' \in [Procs -> Preparing \cup {"idle", "run", "done", "failed", "dead"}]
    BY <1>1 DEF PathStep, Goto, Preparing, TypeOK
  <2> QED BY <1>1, <2>1, <2>2, <2>3 DEF PathStep, TypeOK, CacheOK, inputs, results, Preparing
<1>2. ASSUME NEW p \in Procs, ProgramStep(p) PROVE TypeOK'
  <2>1. \A q \in Procs : at'[q] <= Len(Program(q)') + 1
    <3>1. UNCHANGED inputs /\ \A q \in Procs \ {p} : at'[q] = at[q]
      BY <1>2, ProgramMoves DEF ProgramStep
    <3>2. at'[p] <= Len(Program(p)) + 1
      <4>1. Step(p)[2] \in 1 .. Len(conf[p])
        BY <1>2, ProgramPlaces DEF ProgramStep, Indexes
      <4>2. at'[p] \in {at[p], at[p] + 1, 4 * Step(p)[2] + 1}
        BY <1>2, ProgramMoves
      <4>3. at[p] \in Nat /\ at[p] <= Len(Program(p))
        BY <1>2 DEF ProgramStep, TypeOK
      <4>4. /\ Len(conf[p]) \in Nat /\ Len(conf[p]) > 1
            /\ Len(Program(p)) = 5 * Len(conf[p]) - 1
        BY ProgramLength
      <4> QED BY <4>1, <4>2, <4>3, <4>4
    <3>3. \A q \in Procs : Len(Program(q)') = Len(Program(q))
      BY <3>1, SameProgram
    <3> QED BY <3>1, <3>2, <3>3 DEF TypeOK
  <2>2. disturbed' \in [Procs -> BOOLEAN] /\ faults' \in 0 .. MaxFaults
    BY <1>2, FaultsAreCounted DEF ProgramStep
  <2>3. pc' \in [Procs -> Preparing \cup {"idle", "run", "done", "failed", "dead"}]
    BY <1>2, ProgramMoves DEF Preparing, TypeOK
  <2>4. UNCHANGED <<hosted, inputs, renames>> /\ CacheOK(cache')
        /\ seen' \in Reports /\ pushed' \in Pushes
    BY <1>2 DEF ProgramStep
  <2>5. at' \in [Procs -> Nat \ {0}]
    BY <1>2, ProgramMoves
  <2> QED
    BY <2>1, <2>2, <2>3, <2>4, <2>5 DEF TypeOK, CacheOK, inputs, Reports, Pushes, Preparing
<1>3. ASSUME NEW p \in Procs, Start(p) PROVE TypeOK'
  <2>1. \A q \in Procs : at'[q] <= Len(Program(q)') + 1
    BY <1>3, SameProgram DEF Start, TypeOK
  <2> QED BY <1>3, <2>1 DEF Start, Goto, TypeOK, inputs, results
<1>4. ASSUME NEW e \in Endpoints, Rename(e) PROVE TypeOK'
  <2>1. \A q \in Procs : at'[q] <= Len(Program(q)') + 1
    BY <1>4, SameProgram DEF Rename, TypeOK
  <2>2. renames' \in 0 .. MaxRenames
    BY <1>4, MirrorCacheAssumption DEF Rename, TypeOK
  <2> QED BY <1>4, <2>1, <2>2 DEF Rename, TypeOK, inputs, results
<1>5. CASE UNCHANGED vars
  <2>1. \A q \in Procs : at'[q] <= Len(Program(q)') + 1
    BY <1>5, SameProgram DEF vars, inputs, TypeOK
  <2> QED BY <1>5, <2>1 DEF vars, inputs, results, TypeOK
<1> QED BY <1>1, <1>2, <1>3, <1>4, <1>5, PathSteps, ProgramSteps DEF Next, Execution

------------------------------------------------------------------------------
(* Every step keeps the control invariant                                  *)

\* Agreement depends on the configurations only, and is mutual.
LEMMA SameAgreement ==
  ASSUME UNCHANGED inputs, NEW p \in Procs, NEW q \in Procs
  PROVE  Agree(p, q)' = Agree(p, q) /\ Agree(p, q) = Agree(q, p)
  BY SMTT(30) DEF inputs, Agree, Indexes, Alias

\* Every step keeps the control invariant.
LEMMA ControlStep == ASSUME TypeOK, TypeOK', ControlInv, [Next]_vars PROVE ControlInv'
<1>1. UNCHANGED inputs
  <2>1. ASSUME NEW p \in Procs, PathStep(p) \/ ProgramStep(p) \/ Start(p) PROVE UNCHANGED inputs
    BY <2>1 DEF PathStep, ProgramStep, Start
  <2>2. ASSUME NEW e \in Endpoints, Rename(e) PROVE UNCHANGED inputs
    BY <2>2 DEF Rename
  <2>3. CASE UNCHANGED vars
    BY <2>3 DEF vars, inputs
  <2> QED BY <2>1, <2>2, <2>3, PathSteps, ProgramSteps DEF Next, Execution
<1>2. \A p \in Procs : ~multi'[p] => Len(conf'[p]) = 2
  BY <1>1 DEF ControlInv, inputs
<1>3. ASSUME NEW p \in Procs, PathStep(p) PROVE ControlInv'
  <2>0. /\ UNCHANGED <<at, seen>> /\ Active(p) /\ \A q \in Procs \ {p} : pc'[q] = pc[q]
        /\ pc'[p] \in Preparing => pc[p] \in Preparing
        /\ pc'[p] \in Preparing \cup {"run", "done", "failed", "dead"}
    BY <1>3 DEF PathStep, results, Goto, TypeOK, Preparing
  <2>1. \A q \in Procs : Active(q)' => Active(q)
    BY <2>0 DEF Active
  <2>2. \A q \in Procs : pc'[q] = "idle" \/ (Active(q)' /\ pc'[q] # "run")
                        => pc[q] = "idle" \/ (Active(q) /\ pc[q] # "run")
    BY <2>0 DEF Active, Preparing
  <2>3. \A q \in Procs : Indexes(q)' = Indexes(q)
    BY <1>1 DEF Indexes, inputs
  <2>4. \A q, r \in Procs : q # r /\ Active(q)' /\ Active(r)' => Agree(q, r)'
    BY <1>1, <2>1, SameAgreement DEF ControlInv
  <2>5. \A q \in Procs : pc'[q] = "idle" \/ (Active(q)' /\ pc'[q] # "run")
       => at'[q] = 1 /\ \A i \in Indexes(q)' : seen'[q][i] = None
    BY <2>0, <2>2, <2>3 DEF ControlInv
  <2>6. \A q \in Procs : \A i \in Indexes(q)' :
       seen'[q][i] = "error" => multi'[q] /\ at'[q] > 4 * i
    BY <1>1, <2>0, <2>3 DEF ControlInv, inputs
  <2> QED BY <1>2, <2>4, <2>5, <2>6 DEF ControlInv
<1>4. ASSUME NEW p \in Procs, ProgramStep(p) PROVE ControlInv'
  <2>0. /\ pc[p] = "run" /\ pc'[p] \in {"run", "failed"}
        /\ \A q \in Procs \ {p} : pc'[q] = pc[q] /\ at'[q] = at[q]
    BY <1>4, ProgramMoves DEF ProgramStep, TypeOK
  <2>1. \A q \in Procs : Active(q)' => Active(q)
    BY <2>0 DEF Active
  <2>2. \A q \in Procs \ {p} : seen'[q] = seen[q]
    BY <1>4 DEF ProgramStep, Succeeds, Skips, GivesUp, results, TypeOK
  <2>3. \A q \in Procs : Indexes(q)' = Indexes(q)
    BY <1>1 DEF Indexes, inputs
  <2>4. \A q, r \in Procs : q # r /\ Active(q)' /\ Active(r)' => Agree(q, r)'
    BY <1>1, <2>1, SameAgreement DEF ControlInv
  <2>5. \A q \in Procs : pc'[q] = "idle" \/ (Active(q)' /\ pc'[q] # "run")
       => at'[q] = 1 /\ \A i \in Indexes(q)' : seen'[q][i] = None
    BY <2>0, <2>1, <2>2, <2>3 DEF ControlInv, Active
  <2>6. ASSUME NEW q \in Procs, NEW i \in Indexes(q), seen'[q][i] = "error"
        PROVE  multi'[q] /\ at'[q] > 4 * i
    <3>0. /\ multi' = multi /\ i \in Nat /\ i \in 1 .. MaxLen /\ at[q] \in Nat
          /\ seen[q][i] = "error" => multi[q] /\ at[q] > 4 * i
      <4>1. i \in 1 .. MaxLen /\ i \in Nat
        BY Names DEF Indexes
      <4>2. seen[q][i] = "error" => multi[q] /\ at[q] > 4 * i
        BY DEF ControlInv
      <4> QED BY <1>1, <4>1, <4>2 DEF TypeOK, inputs
    <3>1. CASE q # p
      BY <2>0, <2>2, <2>6, <3>0, <3>1
    <3>2. CASE q = p /\ Succeeds(p)
      <4>1. seen[p][i] = "error" /\ at'[p] = at[p] + 1
        BY <2>6, <3>0, <3>2 DEF Succeeds, Proceed, TypeOK
      <4> QED BY <3>0, <3>2, <4>1
    <3>3. CASE q = p /\ GivesUp(p)
      BY <2>6, <3>0, <3>3 DEF GivesUp, results
    <3>4. CASE q = p /\ Skips(p)
      <4> DEFINE j == Step(p)[2]
      <4>1. j \in Nat /\ j \in 1 .. MaxLen
        BY <1>4, ProgramPlaces, Names DEF ProgramStep, Indexes
      <4>2. multi[p] /\ at[p] <= 4 * j /\ at'[p] = 4 * j + 1
        BY <3>4 DEF Skips, TypeOK
      <4>3. i # j => seen[p][i] = "error"
        BY <2>6, <3>0, <3>4, <4>1 DEF Skips, TypeOK
      <4> HIDE DEF j
      <4> QED BY <3>0, <3>4, <4>1, <4>2, <4>3
    <3> QED BY <1>4, <3>1, <3>2, <3>3, <3>4 DEF ProgramStep
  <2> QED BY <1>2, <2>3, <2>4, <2>5, <2>6 DEF ControlInv
<1>5. ASSUME NEW p \in Procs, Start(p) PROVE ControlInv'
  <2>0. /\ UNCHANGED <<at, seen>> /\ pc[p] = "idle" /\ pc'[p] = "inspect"
        /\ \A q \in Procs \ {p} : pc'[q] = pc[q]
        /\ \A q \in Procs : Active(q) => Agree(p, q)
    BY <1>5 DEF Start, results, Goto, TypeOK
  <2>1. \A q \in Procs \ {p} : Active(q)' => Active(q)
    BY <2>0 DEF Active
  <2>2. \A q \in Procs : pc'[q] = "idle" \/ (Active(q)' /\ pc'[q] # "run")
                        => pc[q] = "idle" \/ (Active(q) /\ pc[q] # "run")
    BY <2>0 DEF Active
  <2>3. \A q \in Procs : Indexes(q)' = Indexes(q)
    BY <1>1 DEF Indexes, inputs
  <2>4. \A q, r \in Procs : q # r /\ Active(q)' /\ Active(r)' => Agree(q, r)'
    <3> SUFFICES ASSUME NEW q \in Procs, NEW r \in Procs, q # r, Active(q)', Active(r)'
                 PROVE  Agree(q, r)
      BY <1>1, SameAgreement
    <3>1. CASE q = p
      BY <2>0, <2>1, <3>1
    <3>2. CASE r = p
      <4>1. Agree(p, q)
        BY <2>0, <2>1, <3>2
      <4> QED BY <1>1, <3>2, <4>1, SameAgreement
    <3>3. CASE q # p /\ r # p
      BY <2>1, <3>3 DEF ControlInv
    <3> QED BY <3>1, <3>2, <3>3
  <2>5. \A q \in Procs : pc'[q] = "idle" \/ (Active(q)' /\ pc'[q] # "run")
       => at'[q] = 1 /\ \A i \in Indexes(q)' : seen'[q][i] = None
    BY <2>0, <2>2, <2>3 DEF ControlInv
  <2>6. \A q \in Procs : \A i \in Indexes(q)' :
       seen'[q][i] = "error" => multi'[q] /\ at'[q] > 4 * i
    BY <1>1, <2>0, <2>3 DEF ControlInv, inputs
  <2> QED BY <1>2, <2>4, <2>5, <2>6 DEF ControlInv
<1>6. ASSUME UNCHANGED <<inputs, pc, at, seen>> PROVE ControlInv'
  <2>1. \A p, q \in Procs : p # q /\ Active(p)' /\ Active(q)' => Agree(p, q)'
    BY <1>6, SameAgreement DEF ControlInv, Active
  <2>2. \A p \in Procs : Active(p)' = Active(p) /\ Indexes(p)' = Indexes(p)
    BY <1>6 DEF Active, Indexes, inputs
  <2>3. \A p \in Procs : pc'[p] = "idle" \/ (Active(p)' /\ pc'[p] # "run")
       => at'[p] = 1 /\ \A i \in Indexes(p)' : seen'[p][i] = None
    BY <1>6, <2>2 DEF ControlInv
  <2>4. \A p \in Procs : \A i \in Indexes(p)' :
       seen'[p][i] = "error" => multi'[p] /\ at'[p] > 4 * i
    BY <1>6, <2>2 DEF ControlInv, inputs
  <2> QED BY <1>2, <2>1, <2>3, <2>4 DEF ControlInv
<1> QED
  BY <1>3, <1>4, <1>5, <1>6, PathSteps, ProgramSteps
     DEF Next, Execution, Rename, vars, results, inputs

------------------------------------------------------------------------------
(* Every step keeps what is known of the remote names                      *)

\* Steps outside the program: the cache may lose what it knows.
LEMMA NamesWeakened ==
  ASSUME TypeOK, ControlInv, NameInv, Weaker(cache'), UNCHANGED <<inputs, at, seen>>,
         \A q \in Procs : pc'[q] = "run" => pc[q] \in Preparing \cup {"run"}
  PROVE  NameInv'
<1> SUFFICES ASSUME NEW q \in Procs, pc'[q] = "run", NEW i \in Indexes(q), seen[q][i] # "error"
             PROVE  /\ BoundBy(q, i) => cache'.bind[Alias(q, i)] \in {None, conf[q][i]}
                    /\ FetchedBy(q, i) =>
                         \A b \in Branches : cache'.track[Alias(q, i)][b] \in {None, conf[q][i]}
  BY SameProgram DEF NameInv, BoundBy, FetchedBy, inputs
<1>1. CASE pc[q] = "run"
  BY <1>1, Names DEF NameInv, Weaker
<1>2. CASE pc[q] \in Preparing
  <2>1. at[q] = 1 /\ i \in Nat /\ i >= 1
    BY <1>2 DEF ControlInv, Active, Preparing, Indexes
  <2>2. ~BoundBy(q, i) /\ ~FetchedBy(q, i)
    BY <2>1 DEF BoundBy, FetchedBy
  <2> QED BY <2>2
<1> QED BY <1>1, <1>2

\* Which places of the program are beyond the bind and the fetch of an index.
LEMMA PlacesPassed ==
  ASSUME TypeOK, ControlInv, NEW p \in Procs, NEW i \in Indexes(p), NEW j \in Indexes(p),
         NEW op \in {"bind", "fetch", "resolve", "read", "push"}, NEW n \in Nat,
         n = Place(p, op, j), op = "push" => j > 1
  PROVE  LET bind == IF multi[p] THEN 4 * i - 3 ELSE i
             fetch == IF multi[p] THEN 4 * i - 2 ELSE i + 2
         IN  /\ n + 1 > bind => n > bind \/ (i = j /\ op = "bind")
             /\ n + 1 > fetch => n > fetch \/ (i = j /\ op = "fetch")
             /\ multi[p] /\ 4 * j + 1 > bind /\ i # j /\ op # "push" => n > bind
             /\ multi[p] /\ 4 * j + 1 > fetch /\ i # j /\ op # "push" => n > fetch
             /\ multi[p] /\ op # "push" => n <= 4 * j
             /\ op = "fetch" => n > IF multi[p] THEN 4 * j - 3 ELSE j
             /\ op \in {"read", "resolve"} => n > IF multi[p] THEN 4 * j - 2 ELSE j + 2
             /\ op = "push" => n > bind
<1>n. PICK m \in Nat : m = Len(conf[p]) /\ m > 1
  BY ProgramLength
<1>1. i \in 1 .. m /\ j \in 1 .. m
  BY <1>n DEF Indexes
<1>2. CASE multi[p]
  <2>1. \/ op = "bind" /\ n = 4 * j - 3
        \/ op = "fetch" /\ n = 4 * j - 2
        \/ op = "resolve" /\ n = 4 * j - 1
        \/ op = "read" /\ n = 4 * j
        \/ op = "push" /\ n = 4 * m + j - 1 /\ j > 1
    BY <1>n, <1>2 DEF Place
  <2> QED BY <1>1, <1>2, <2>1
<1>3. CASE ~multi[p]
  <2>0. m = 2
    BY <1>n, <1>3 DEF ControlInv
  <2>1. \/ op = "bind" /\ n = j
        \/ op = "fetch" /\ n = j + 2
        \/ op = "resolve" /\ n = j + 4
        \/ op = "read" /\ n = j + 6
        \/ op = "push" /\ n = 4 * m + j - 1 /\ j > 1
    BY <1>n, <1>3 DEF Place
  <2> QED BY <1>1, <1>3, <2>0, <2>1
<1> QED BY <1>2, <1>3

\* Nothing is reported of an index that the program is about to observe.
LEMMA NoErrorYet ==
  ASSUME TypeOK, ControlInv, NEW p \in Procs, at[p] <= Len(Program(p)), Step(p)[1] # "push"
  PROVE  seen[p][Step(p)[2]] # "error"
<1>1. Step(p)[2] \in Indexes(p) /\ at[p] = Place(p, Step(p)[1], Step(p)[2]) /\ at[p] \in Nat
      /\ Step(p)[1] \in {"bind", "fetch", "resolve", "read", "push"}
  BY ProgramPlaces DEF TypeOK
<1>2. multi[p] => at[p] <= 4 * Step(p)[2]
  BY <1>1, PlacesPassed
<1>3. Step(p)[2] \in Nat
  BY <1>1 DEF Indexes
<1> QED BY <1>1, <1>2, <1>3 DEF ControlInv

\* What a step of the program may do to the cache: only to the remote it is about,
\* and only with the endpoint that its execution means by the name.
CacheEffect(p) ==
  LET a == Name(p) e == Target(p) op == Step(p)[1]
  IN  /\ \A x \in Aliases \ {a} : cache'.bind[x] = cache.bind[x] /\ cache'.track[x] = cache.track[x]
      /\ cache'.bind[a] \in {cache.bind[a], e}
      /\ \A b \in Branches : cache'.track[a][b] \in {cache.track[a][b], None, e}
      /\ Succeeds(p) /\ op = "bind" => cache'.bind[a] = e
      /\ Succeeds(p) /\ op = "fetch" => \A b \in Branches : cache'.track[a][b] \in {None, e}

\* A step of the program keeps what is known of the remote names: its own new
\* knowledge is right, and others that use the name mean the same endpoint.
LEMMA NamesProgram ==
  ASSUME TypeOK, ControlInv, NameInv, NEW p \in Procs, ProgramStep(p), CacheEffect(p),
         seen[p][Step(p)[2]] # "error",
         Skips(p) => Step(p)[1] # "push"
  PROVE  NameInv'
<1>0. PICK j \in Indexes(p) : j = Step(p)[2]
  BY ProgramPlaces DEF ProgramStep
<1>op. PICK op \in {"bind", "fetch", "resolve", "read", "push"} : op = Step(p)[1]
  BY ProgramPlaces DEF ProgramStep
<1>e. PICK e \in Endpoints : e = conf[p][j] /\ e = Target(p)
  BY <1>0, Names DEF Target
<1>a. PICK a \in Aliases : a = Alias(p, j) /\ a = Name(p)
  BY <1>0, Names DEF Name
<1>1. at[p] = Place(p, op, j) /\ at[p] \in Nat /\ (op = "push" => j > 1)
  BY <1>0, <1>op, ProgramPlaces DEF ProgramStep, TypeOK
<1>2. UNCHANGED inputs /\ pc[p] = "run"
      /\ \A q \in Procs \ {p} : at'[q] = at[q] /\ pc'[q] = pc[q] /\ seen'[q] = seen[q]
  BY ProgramMoves DEF ProgramStep, Succeeds, Skips, GivesUp, results, TypeOK
<1>3. /\ \A x \in Aliases \ {a} : cache'.bind[x] = cache.bind[x] /\ cache'.track[x] = cache.track[x]
      /\ cache'.bind[a] \in {cache.bind[a], e}
      /\ \A b \in Branches : cache'.track[a][b] \in {cache.track[a][b], None, e}
      /\ Succeeds(p) /\ op = "bind" => cache'.bind[a] = e
      /\ Succeeds(p) /\ op = "fetch" => \A b \in Branches : cache'.track[a][b] \in {None, e}
  BY <1>op, <1>e, <1>a DEF CacheEffect
<1> SUFFICES ASSUME NEW q \in Procs, pc'[q] = "run", NEW i \in Indexes(q), seen'[q][i] # "error"
             PROVE  /\ BoundBy(q, i)' => cache'.bind[Alias(q, i)] \in {None, conf[q][i]}
                    /\ FetchedBy(q, i)' =>
                         \A b \in Branches : cache'.track[Alias(q, i)][b] \in {None, conf[q][i]}
  BY <1>2, SameProgram DEF NameInv, inputs
<1>4. Alias(q, i) \in Aliases /\ i \in 1 .. MaxLen
  BY Names
<1>5. CASE q # p
  <2>1. pc[q] = "run" /\ seen[q][i] # "error"
    BY <1>2, <1>5
  <2>2. /\ BoundBy(q, i)' => cache.bind[Alias(q, i)] \in {None, conf[q][i]}
        /\ FetchedBy(q, i)' =>
             \A b \in Branches : cache.track[Alias(q, i)][b] \in {None, conf[q][i]}
    BY <1>2, <1>5, <2>1 DEF NameInv, BoundBy, FetchedBy, inputs
  <2>3. Alias(q, i) = a => conf[q][i] = e
    <3>1. Agree(q, p)
      BY <1>2, <1>5, <2>1 DEF ControlInv, Active
    <3> QED BY <1>0, <1>a, <1>e, <3>1 DEF Agree
  <2> QED BY <1>3, <1>4, <2>2, <2>3
<1>6. CASE q = p /\ i # j
  <2>1. Alias(p, i) # a
    BY <1>0, <1>a, <1>6, Names
  <2>2. Succeeds(p) \/ Skips(p)
    BY <1>2, <1>6 DEF ProgramStep, GivesUp, Goto, TypeOK
  <2>3. seen[p][i] # "error"
    <3>1. CASE Succeeds(p)
      BY <1>0, <1>4, <1>6, <3>1 DEF Succeeds
    <3>2. CASE Skips(p)
      BY <1>0, <1>4, <1>6, <3>2, Names DEF Skips, TypeOK
    <3> QED BY <2>2, <3>1, <3>2
  <2>4. (BoundBy(p, i)' => BoundBy(p, i)) /\ (FetchedBy(p, i)' => FetchedBy(p, i))
    <3>1. CASE Succeeds(p)
      <4>1. at'[p] = at[p] + 1
        BY <3>1 DEF Succeeds, Proceed, TypeOK
      <4> QED BY <1>1, <1>2, <1>6, <4>1, PlacesPassed DEF BoundBy, FetchedBy, inputs
    <3>2. CASE Skips(p)
      <4>1. at'[p] = 4 * j + 1 /\ multi[p] /\ op # "push"
        BY <1>0, <1>op, <3>2 DEF Skips, TypeOK
      <4> QED BY <1>1, <1>2, <1>6, <4>1, PlacesPassed DEF BoundBy, FetchedBy, inputs
    <3> QED BY <2>2, <3>1, <3>2
  <2>6. /\ BoundBy(p, i) => cache.bind[Alias(p, i)] \in {None, conf[p][i]}
        /\ FetchedBy(p, i) =>
             \A b \in Branches : cache.track[Alias(p, i)][b] \in {None, conf[p][i]}
    BY <1>2, <1>6, <2>3 DEF NameInv
  <2> QED BY <1>3, <1>4, <1>6, <2>1, <2>4, <2>6
<1>7. CASE q = p /\ i = j
  <2>1. Succeeds(p)
    <3>1. ~GivesUp(p)
      BY <1>7 DEF GivesUp, Goto, TypeOK
    <3>2. ~Skips(p)
      <4> SUFFICES ASSUME Skips(p) PROVE FALSE
        OBVIOUS
      <4>1. seen' = [seen EXCEPT ![p][j] = "error"] /\ j \in 1 .. MaxLen
        BY <1>0, Names DEF Skips
      <4>2. seen'[p][j] = "error"
        BY <4>1 DEF TypeOK
      <4> QED BY <1>7, <4>2
    <3> QED BY <3>1, <3>2 DEF ProgramStep
  <2>2. /\ BoundBy(p, j) => cache.bind[a] \in {None, e}
        /\ FetchedBy(p, j) => \A b \in Branches : cache.track[a][b] \in {None, e}
    BY <1>0, <1>2, <1>a, <1>e DEF NameInv
  <2>3. /\ BoundBy(p, j)' => BoundBy(p, j) \/ op = "bind"
        /\ FetchedBy(p, j)' => FetchedBy(p, j) \/ op = "fetch"
    <3>1. at'[p] = at[p] + 1
      BY <2>1 DEF Succeeds, Proceed, TypeOK
    <3> QED BY <1>1, <1>2, <3>1, PlacesPassed DEF BoundBy, FetchedBy, inputs
  <2> QED BY <1>3, <1>7, <1>a, <1>e, <2>1, <2>2, <2>3
<1> QED BY <1>5, <1>6, <1>7

------------------------------------------------------------------------------
(* What each operation of the program does                                 *)

\* A failed operation is reported as one.
LEMMA FailureIsReported ==
  ASSUME TypeOK, TargetsAreNotMixedUp, UNCHANGED inputs, NEW p \in Procs,
         Step(p)[2] \in 1 .. MaxLen,
         UNCHANGED results \/ Skips(p) \/ GivesUp(p)
  PROVE  TargetsAreNotMixedUp'
<1>1. UNCHANGED pushed
  BY DEF results, Skips, GivesUp
<1>2. ASSUME NEW q \in Procs, NEW i \in Indexes(q)
      PROVE  seen'[q][i] \in {seen[q][i], "error"}
  <2>1. CASE UNCHANGED seen
    BY <2>1
  <2>2. CASE seen' = [seen EXCEPT ![p][Step(p)[2]] = "error"]
    BY <2>2 DEF TypeOK
  <2> QED BY <2>1, <2>2 DEF results, Skips, GivesUp
<1> QED BY <1>1, <1>2, SameProgram DEF TargetsAreNotMixedUp, inputs

\* A failed observation is none of the steps that go on as if it had succeeded.
LEMMA FailureIsNoSuccess ==
  ASSUME TypeOK, NEW p \in Procs, pc[p] = "run", Step(p)[2] \in 1 .. MaxLen,
         seen[p][Step(p)[2]] # "error", Skips(p) \/ GivesUp(p)
  PROVE  ~Succeeds(p)
<1>1. CASE Skips(p)
  <2>1. seen'[p][Step(p)[2]] = "error"
    BY <1>1 DEF Skips, TypeOK
  <2> QED BY <2>1 DEF Succeeds
<1>2. CASE GivesUp(p)
  BY <1>2 DEF GivesUp, Goto, Succeeds, Proceed, TypeOK
<1> QED BY <1>1, <1>2

\* An operation is about an endpoint: what the cache holds under its name, once it
\* is bound and fetched, is that endpoint's.
LEMMA OperationEffects ==
  ASSUME TypeOK, ControlInv, NameInv, TargetsAreNotMixedUp, NEW p \in Procs,
         Bind(p) \/ Fetch(p) \/ Resolve(p) \/ Read(p) \/ Push(p)
  PROVE  /\ CacheEffect(p) /\ seen[p][Step(p)[2]] # "error" /\ (Skips(p) => Step(p)[1] # "push")
         /\ TargetsAreNotMixedUp'
<1>1. pc[p] = "run" /\ at[p] <= Len(Program(p)) /\ at[p] \in Nat
  BY DEF Bind, Fetch, Resolve, Read, Push, Doing, TypeOK
<1>2. PICK j \in Indexes(p) : j = Step(p)[2]
  BY <1>1, ProgramPlaces
<1>3. PICK e \in Endpoints : e = conf[p][j] /\ e = Target(p)
  BY <1>2, Names DEF Target
<1>4. PICK a \in Aliases : a = Alias(p, j) /\ a = Name(p)
  BY <1>2, Names DEF Name
<1>x. cache \in Repositories /\ cache.bind \in [Aliases -> Endpoints \cup {None}]
      /\ cache.track \in [Aliases -> [Branches -> Endpoints \cup {None}]]
      /\ CacheOK(cache) /\ j \in 1 .. MaxLen
  BY Names DEF TypeOK, Repositories, CacheOK
<1>y. UNCHANGED cache /\ Step(p)[1] \notin {"bind", "fetch"} => CacheEffect(p)
  BY <1>3, <1>4, <1>x DEF CacheEffect
<1>z. Step(p)[1] # "push" => seen[p][j] # "error"
  BY <1>1, <1>2, NoErrorYet
<1>b. seen[p][j] # "error" =>
        /\ BoundBy(p, j) => cache.bind[a] \in {None, e}
        /\ FetchedBy(p, j) => \A b \in Branches : cache.track[a][b] \in {None, e}
  BY <1>1, <1>3, <1>4 DEF NameInv
<1>5. CASE Bind(p)
  <2>1. Step(p)[1] = "bind" /\ UNCHANGED inputs
    BY <1>5 DEF Bind, Doing
  <2>2. CASE cache.kind = "bare" /\ cache' = [cache EXCEPT !.bind[Name(p)] = Target(p)]
             /\ UNCHANGED results
    <3>1. CacheEffect(p)
      BY <1>3, <1>4, <1>x, <2>1, <2>2, BareUpdates DEF CacheEffect
    <3>2. TargetsAreNotMixedUp'
      BY <1>2, <1>x, <2>1, <2>2, FailureIsReported
    <3> QED BY <1>2, <1>z, <2>1, <3>1, <3>2
  <2>3. CASE Fails(p) /\ UNCHANGED cache
    <3>1. Skips(p) \/ GivesUp(p)
      BY <1>5, <2>3, FailedObservation DEF Bind
    <3>2. TargetsAreNotMixedUp'
      BY <1>2, <1>x, <2>1, <3>1, FailureIsReported
    <3>3. ~Succeeds(p)
      BY <1>1, <1>2, <1>x, <1>z, <2>1, <3>1, FailureIsNoSuccess
    <3>4. CacheEffect(p)
      BY <1>3, <1>4, <1>x, <2>1, <2>3, <3>3 DEF CacheEffect
    <3> QED BY <1>2, <1>z, <2>1, <3>2, <3>4
  <2> QED BY <1>5, <2>2, <2>3 DEF Bind
<1>6. CASE Fetch(p)
  <2>1. Step(p)[1] = "fetch" /\ UNCHANGED inputs
    BY <1>6 DEF Fetch, Doing
  <2>2. Bound(p) => /\ cache.kind = "bare"
                    /\ \A b \in Branches : Fetched(cache.bind[a])[b] \in {None, e}
                    /\ Fetched(cache.bind[a]) \in [Branches -> Endpoints \cup {None}]
    <3> SUFFICES ASSUME Bound(p)
                 PROVE  /\ cache.kind = "bare"
                        /\ \A b \in Branches : Fetched(cache.bind[a])[b] \in {None, e}
                        /\ Fetched(cache.bind[a]) \in [Branches -> Endpoints \cup {None}]
      OBVIOUS
    <3>1. BoundBy(p, j)
      BY <1>1, <1>2, <2>1, ProgramPlaces, PlacesPassed DEF BoundBy
    <3>2. cache.bind[a] = e /\ cache.kind = "bare"
      BY <1>4, <1>b, <1>z, <2>1, <3>1 DEF Bound
    <3> QED BY <1>1, <1>4, <3>2, BoundRemote DEF Fetched
  <2>3. CASE Bound(p) /\ cache' = [cache EXCEPT !.track[Name(p)] = Fetched(cache.bind[Name(p)])]
             /\ UNCHANGED results
    <3>1. CacheEffect(p)
      BY <1>3, <1>4, <1>x, <2>1, <2>2, <2>3, BareUpdates DEF CacheEffect
    <3>2. TargetsAreNotMixedUp'
      BY <1>2, <1>x, <2>1, <2>3, FailureIsReported
    <3> QED BY <1>2, <1>z, <2>1, <3>1, <3>2
  <2>f. Fails(p) => (Skips(p) \/ GivesUp(p)) /\ ~Succeeds(p) /\ TargetsAreNotMixedUp'
    <3>1. Fails(p) => Skips(p) \/ GivesUp(p)
      BY <1>6, FailedObservation DEF Fetch
    <3>2. Skips(p) \/ GivesUp(p) => ~Succeeds(p)
      BY <1>1, <1>2, <1>x, <1>z, <2>1, FailureIsNoSuccess
    <3>3. Skips(p) \/ GivesUp(p) => TargetsAreNotMixedUp'
      BY <1>2, <1>x, <2>1, FailureIsReported
    <3> QED BY <3>1, <3>2, <3>3
  <2>4. CASE Fails(p) /\ UNCHANGED cache
    BY <1>2, <1>3, <1>4, <1>x, <1>z, <2>1, <2>4, <2>f DEF CacheEffect
  <2>5. ASSUME Fails(p), Bound(p), NEW some \in SUBSET Branches,
               cache' = [cache EXCEPT !.track[Name(p)] =
                           [b \in Branches |-> IF b \in some THEN @[b]
                                               ELSE Fetched(cache.bind[Name(p)])[b]]]
        PROVE  CacheEffect(p)
    <3> DEFINE t == [b \in Branches |-> IF b \in some THEN cache.track[a][b]
                                        ELSE Fetched(cache.bind[a])[b]]
    <3>1. t \in [Branches -> Endpoints \cup {None}]
          /\ \A b \in Branches : t[b] \in {cache.track[a][b], None, e}
      BY <1>4, <1>x, <2>2, <2>5
    <3>2. cache' = [cache EXCEPT !.track[a] = t]
      BY <1>4, <2>5
    <3> HIDE DEF t
    <3>3. cache'.bind = cache.bind /\ cache'.track[a] = t
          /\ \A x \in Aliases \ {a} : cache'.track[x] = cache.track[x]
      <4>1. cache.kind = "bare" /\ CacheOK(cache)
        BY <1>x, <2>2, <2>5
      <4>2. /\ [cache EXCEPT !.track[a] = t].bind = cache.bind
            /\ [cache EXCEPT !.track[a] = t].track[a] = t
            /\ \A x \in Aliases \ {a} : [cache EXCEPT !.track[a] = t].track[x] = cache.track[x]
        BY <3>1, <4>1, BareUpdates
      <4> QED BY <3>2, <4>2
    <3> QED BY <1>3, <1>4, <2>1, <2>5, <2>f, <3>1, <3>3 DEF CacheEffect
  <2> QED BY <1>2, <1>6, <1>z, <2>1, <2>3, <2>4, <2>5, <2>f DEF Fetch
<1>7. CASE Resolve(p)
  <2>1. Step(p)[1] = "resolve" /\ UNCHANGED inputs
    BY <1>7 DEF Resolve, Doing
  <2>2. CASE Resolvable(p) /\ UNCHANGED results
             /\ cache' = [cache EXCEPT !.head[Name(p)] = hosted[cache.bind[Name(p)]]]
    <3>0. hosted[cache.bind[Name(p)]] \in Branches /\ cache.kind = "bare"
      BY <1>1, <2>2, BoundRemote DEF Resolvable, Bound
    <3>1. cache'.bind = cache.bind /\ cache'.track = cache.track
      BY <1>4, <1>x, <2>2, <3>0, BareUpdates
    <3>2. CacheEffect(p)
      BY <1>3, <1>4, <1>x, <2>1, <3>1 DEF CacheEffect
    <3>3. TargetsAreNotMixedUp'
      BY <1>2, <1>x, <2>1, <2>2, FailureIsReported
    <3> QED BY <1>2, <1>z, <2>1, <3>2, <3>3
  <2>3. CASE Fails(p) /\ UNCHANGED cache
    <3>1. Skips(p) \/ GivesUp(p)
      BY <1>7, <2>3, FailedObservation DEF Resolve
    <3>2. TargetsAreNotMixedUp'
      BY <1>2, <1>x, <2>1, <3>1, FailureIsReported
    <3> QED BY <1>2, <1>y, <1>z, <2>1, <2>3, <3>2
  <2> QED BY <1>7, <2>2, <2>3 DEF Resolve
<1>8. CASE Read(p)
  <2>1. Step(p)[1] = "read" /\ UNCHANGED <<inputs, cache>>
    BY <1>8 DEF Read, Doing
  <2>2. CASE seen' = [seen EXCEPT ![p][Step(p)[2]] = HeadOf(Name(p))] /\ UNCHANGED pushed
             /\ HeadOf(Name(p)) # None
    <3>1. FetchedBy(p, j)
      BY <1>1, <1>2, <2>1, ProgramPlaces, PlacesPassed DEF FetchedBy
    <3>2. \A b \in Branches : cache.track[a][b] \in {None, e}
      BY <1>b, <1>z, <2>1, <3>1
    <3>3. HeadOf(a) = e
      BY <1>4, <2>2, <3>2 DEF HeadOf, TypeOK, Repositories
    <3>4. \A q \in Procs : \A i \in Indexes(q) :
            seen'[q][i] = seen[q][i] \/ (q = p /\ i = j /\ seen'[q][i] = e)
      BY <1>2, <1>4, <1>x, <2>2, <3>3 DEF TypeOK
    <3>5. TargetsAreNotMixedUp'
      <4>1. \A q \in Procs : \A i \in Indexes(q) :
              /\ seen'[q][i] \in {conf[q][i], None, "error"}
              /\ pushed'[q][i] \in {conf[q][i], None}
        BY <1>3, <2>2, <3>4 DEF TargetsAreNotMixedUp
      <4> QED BY <2>1, <4>1, SameProgram DEF TargetsAreNotMixedUp, inputs
    <3> QED BY <1>2, <1>y, <1>z, <2>1, <3>5
  <2>3. CASE Fails(p)
    <3>1. Skips(p) \/ GivesUp(p)
      BY <1>8, <2>3, FailedObservation DEF Read
    <3>2. TargetsAreNotMixedUp'
      BY <1>2, <1>x, <2>1, <3>1, FailureIsReported
    <3> QED BY <1>2, <1>y, <1>z, <2>1, <3>2
  <2> QED BY <1>8, <2>2, <2>3 DEF Read
<1>9. CASE Push(p)
  <2>1. Step(p)[1] = "push" /\ UNCHANGED <<inputs, cache, seen>> /\ seen[p][j] # "error"
    BY <1>2, <1>9 DEF Push, Doing
  <2>2. ~Skips(p)
    <3> SUFFICES ASSUME Skips(p) PROVE FALSE
      OBVIOUS
    <3>1. seen'[p][j] = "error"
      BY <1>2, <1>x DEF Skips, TypeOK
    <3> QED BY <2>1, <3>1
  <2>3. CASE Bound(p) /\ pushed' = [pushed EXCEPT ![p][Step(p)[2]] = cache.bind[Name(p)]]
    <3>1. BoundBy(p, j)
      BY <1>1, <1>2, <2>1, ProgramPlaces, PlacesPassed DEF BoundBy
    <3>2. cache.bind[a] = e
      BY <1>4, <1>b, <2>1, <2>3, <3>1 DEF Bound
    <3>3. \A q \in Procs : \A i \in Indexes(q) :
            pushed'[q][i] = pushed[q][i] \/ (q = p /\ i = j /\ pushed'[q][i] = e)
      BY <1>2, <1>4, <1>x, <2>3, <3>2 DEF TypeOK
    <3>4. TargetsAreNotMixedUp'
      <4>1. \A q \in Procs : \A i \in Indexes(q) :
              /\ seen'[q][i] \in {conf[q][i], None, "error"}
              /\ pushed'[q][i] \in {conf[q][i], None}
        BY <1>3, <2>1, <3>3 DEF TargetsAreNotMixedUp
      <4> QED BY <2>1, <4>1, SameProgram DEF TargetsAreNotMixedUp, inputs
    <3> QED BY <1>2, <1>y, <2>1, <2>2, <3>4
  <2>4. CASE UNCHANGED pushed
    <3>1. TargetsAreNotMixedUp'
      BY <1>2, <1>x, <2>1, <2>4, FailureIsReported DEF results
    <3> QED BY <1>2, <1>y, <2>1, <2>2, <3>1
  <2> QED BY <1>9, <2>3, <2>4 DEF Push
<1> QED BY <1>5, <1>6, <1>7, <1>8, <1>9

------------------------------------------------------------------------------
(* The inductive invariant                                                 *)

\* It holds before the first execution.
LEMMA InitInv == Init => AllInv
<1> SUFFICES ASSUME Init PROVE AllInv
  OBVIOUS
<1>1. /\ \A p \in Procs : pc[p] = "idle" /\ at[p] = 1
      /\ \A p \in Procs : \A i \in 1 .. MaxLen : seen[p][i] = None /\ pushed[p][i] = None
      /\ \A p \in Procs : ~multi[p] => Len(conf[p]) = 2
  BY DEF Init
<1>2. CacheOK(cache)
  <2>1. CacheOK(Empty)
    BY DEF CacheOK, Empty, NoRefs, Repositories, Kinds
  <2>2. PICK k \in Kinds : cache = Other(k)
    BY DEF Init
  <2>3. Other(k) \in Repositories /\ Other(k).kind = k
    BY <2>1 DEF CacheOK, Other, Repositories, Kinds, Empty
  <2> QED BY <2>2, <2>3 DEF CacheOK
<1>3. /\ hosted \in [Endpoints -> Branches] /\ conf \in [Procs -> Configs]
      /\ multi \in [Procs -> BOOLEAN] /\ disturbed \in [Procs -> BOOLEAN]
      /\ faults \in 0 .. MaxFaults /\ renames \in 0 .. MaxRenames
      /\ at \in [Procs -> Nat \ {0}]
      /\ pc \in [Procs -> {"idle", "inspect", "unlink", "remove", "removing", "clone", "cloning",
                           "cleanup", "cleaning", "run", "done", "failed", "dead"}]
  BY MirrorCacheAssumption DEF Init
<1>4. /\ seen \in [Procs -> [1 .. MaxLen -> Endpoints \cup {None, "error"}]]
      /\ pushed \in [Procs -> [1 .. MaxLen -> Endpoints \cup {None}]]
  BY DEF Init
<1>5. ASSUME NEW p \in Procs PROVE at[p] <= Len(Program(p)) + 1
  <2>1. PICK n \in Nat : n = Len(conf[p]) /\ n > 1
    BY <1>3, MirrorCacheAssumption
  <2>2. multi[p] \in BOOLEAN /\ (~multi[p] => n = 2)
    BY <1>1, <1>3, <2>1
  <2>3. Len(Program(p)) = 5 * n - 1
    BY <2>1, <2>2, ProgramIs
  <2> QED BY <1>1, <2>1, <2>3
<1>6. TypeOK
  BY <1>2, <1>3, <1>4, <1>5 DEF TypeOK, CacheOK
<1>7. MaxLen \in Nat /\ \A p \in Procs : \A i \in Indexes(p) : i \in 1 .. MaxLen
  <2>1. \E n \in {Len(c) : c \in Configs} : \A c \in Configs : Len(c) <= n
    BY MirrorCacheAssumption
  <2>2. MaxLen \in {Len(c) : c \in Configs} /\ \A c \in Configs : Len(c) <= MaxLen
    BY <2>1 DEF MaxLen
  <2> QED BY <1>3, <2>2, MirrorCacheAssumption DEF Indexes
<1>8. \A p \in Procs : \A i \in Indexes(p) : seen[p][i] = None /\ pushed[p][i] = None
  BY <1>1, <1>7
<1>9. ControlInv
  BY <1>1, <1>8 DEF ControlInv, Active, None
<1>10. NameInv
  BY <1>1 DEF NameInv
<1>11. TargetsAreNotMixedUp
  BY <1>8 DEF TargetsAreNotMixedUp
<1> QED BY <1>6, <1>9, <1>10, <1>11 DEF AllInv

\* Every step keeps what is known of the remote names, and what is reported and
\* pushed of each target.
LEMMA TargetStep == ASSUME AllInv, [Next]_vars PROVE NameInv' /\ TargetsAreNotMixedUp'
<1>1. TypeOK /\ ControlInv /\ NameInv /\ TargetsAreNotMixedUp
  BY DEF AllInv
<1>2. Weaker(cache)
  BY DEF Weaker
<1>3. UNCHANGED <<inputs, seen, pushed>> => TargetsAreNotMixedUp'
  BY <1>1 DEF TargetsAreNotMixedUp, Indexes, inputs
<1>4. ASSUME NEW p \in Procs, PathStep(p) PROVE NameInv' /\ TargetsAreNotMixedUp'
  <2>1. \A q \in Procs : pc'[q] = "run" => pc[q] \in Preparing \cup {"run"}
    BY <1>1, <1>4 DEF PathStep, Goto, TypeOK
  <2>2. UNCHANGED <<inputs, at, seen, pushed>> /\ Weaker(cache')
    BY <1>4 DEF PathStep, results
  <2> QED BY <1>1, <1>3, <2>1, <2>2, NamesWeakened
<1>5. ASSUME NEW p \in Procs,
             Bind(p) \/ Fetch(p) \/ Resolve(p) \/ Read(p) \/ Push(p)
      PROVE  NameInv' /\ TargetsAreNotMixedUp'
  <2>1. ProgramStep(p)
    BY <1>1, <1>5, ProgramSteps
  <2> QED BY <1>1, <1>5, <2>1, OperationEffects, NamesProgram
<1>6. ASSUME NEW p \in Procs, Start(p) PROVE NameInv' /\ TargetsAreNotMixedUp'
  <2>1. \A q \in Procs : pc'[q] = "run" => pc[q] \in Preparing \cup {"run"}
    BY <1>1, <1>6 DEF Start, Goto, TypeOK
  <2>2. UNCHANGED <<inputs, at, seen, pushed>> /\ Weaker(cache')
    BY <1>2, <1>6 DEF Start, results, Weaker
  <2> QED BY <1>1, <1>3, <2>1, <2>2, NamesWeakened
<1>7. ASSUME UNCHANGED <<inputs, cache, pc, at, seen, pushed>>
      PROVE  NameInv' /\ TargetsAreNotMixedUp'
  BY <1>1, <1>2, <1>3, <1>7, NamesWeakened DEF Weaker
<1> QED
  BY <1>1, <1>4, <1>5, <1>6, <1>7, PathSteps DEF Next, Execution, Rename, vars, results, inputs

------------------------------------------------------------------------------
(* The theorems                                                            *)

\* The inductive invariant holds of every number of overlapping executions.
THEOREM Invariance == Spec => []AllInv
<1>1. ASSUME AllInv, [Next]_vars PROVE AllInv'
  <2>1. TypeOK'
    BY <1>1, TypeStep DEF AllInv
  <2> QED BY <1>1, <2>1, ControlStep, TargetStep DEF AllInv
<1> QED BY InitInv, <1>1, PTL DEF Spec

\* Types; and only a bare repository has remotes and tracking refs, whatever
\* interrupted removals and clones leave at the path.
THEOREM TypeCorrect == Spec => []TypeOK
<1>1. AllInv => TypeOK
  BY DEF AllInv
<1> QED BY <1>1, Invariance, PTL

\* What an execution reports of a target was fetched from that target, and what it
\* pushes for a target goes there, although the cache and its remote names are
\* shared, without a lock, with executions of other configurations.
THEOREM TargetsKeepApart == Spec => []TargetsAreNotMixedUp
<1>1. AllInv => TargetsAreNotMixedUp
  BY DEF AllInv
<1> QED BY <1>1, Invariance, PTL

------------------------------------------------------------------------------
(* Recovery.  An execution that nothing disturbs finds, at each of its     *)
(* steps, what its earlier steps left in the cache, so none can fail.      *)

\* The execution is past its resolution of index i.
ResolvedBy(p, i) == at[p] > IF multi[p] THEN 4 * i - 1 ELSE i + 4

\* What the cache is while an execution works on it that nothing has disturbed:
\* what its phase expects, and bound, fetched and resolved as far as it has come.
Lone(p) ==
  /\ pc[p] \notin {"cleanup", "cleaning", "dead"}
  /\ pc[p] = "unlink" => cache.kind = "file"
  /\ pc[p] \in {"remove", "removing"} => cache.kind \in {"junk", "bare"}
  /\ pc[p] = "clone" => cache.kind = "absent"
  /\ pc[p] \in {"cloning", "run"} => cache.kind = "bare"
  /\ pc[p] = "run" =>
       \A i \in Indexes(p) :
         /\ seen[p][i] # "error"
         /\ BoundBy(p, i) => cache.bind[Alias(p, i)] # None
         /\ FetchedBy(p, i) => cache.track[Alias(p, i)][hosted[conf[p][i]]] # None
         /\ ResolvedBy(p, i) => cache.head[Alias(p, i)] = hosted[conf[p][i]]

\* Executions that overlap are disturbed, an execution that is not finds what it
\* left, and a symlink, which no step makes, lets nobody past the inspection.
LoneInv ==
  /\ \A p, q \in Procs : p # q /\ Active(p) /\ Active(q) => disturbed[p]
  /\ \A p \in Procs : Active(p) => disturbed[p] \/ Lone(p)
  /\ cache.kind = "link" => \A p \in Procs : pc[p] \in {"idle", "inspect", "failed", "dead"}
  /\ LoneExecutionSucceeds

\* The places beyond the resolution of an index.
LEMMA ResolvePassed ==
  ASSUME TypeOK, ControlInv, NEW p \in Procs, NEW i \in Indexes(p), NEW j \in Indexes(p),
         NEW op \in {"bind", "fetch", "resolve", "read", "push"}, NEW n \in Nat,
         n = Place(p, op, j), op = "push" => j > 1
  PROVE  LET resolve == IF multi[p] THEN 4 * i - 1 ELSE i + 4
         IN  /\ n + 1 > resolve => n > resolve \/ (i = j /\ op = "resolve")
             /\ op = "read" => n > IF multi[p] THEN 4 * j - 1 ELSE j + 4
<1>n. PICK m \in Nat : m = Len(conf[p]) /\ m > 1
  BY ProgramLength
<1>1. i \in 1 .. m /\ j \in 1 .. m
  BY <1>n DEF Indexes
<1>2. CASE multi[p]
  <2>1. \/ op = "bind" /\ n = 4 * j - 3
        \/ op = "fetch" /\ n = 4 * j - 2
        \/ op = "resolve" /\ n = 4 * j - 1
        \/ op = "read" /\ n = 4 * j
        \/ op = "push" /\ n = 4 * m + j - 1 /\ j > 1
    BY <1>n, <1>2 DEF Place
  <2> QED BY <1>1, <1>2, <2>1
<1>3. CASE ~multi[p]
  <2>0. m = 2
    BY <1>n, <1>3 DEF ControlInv
  <2>1. \/ op = "bind" /\ n = j
        \/ op = "fetch" /\ n = j + 2
        \/ op = "resolve" /\ n = j + 4
        \/ op = "read" /\ n = j + 6
        \/ op = "push" /\ n = 4 * m + j - 1 /\ j > 1
    BY <1>n, <1>3 DEF Place
  <2> QED BY <1>1, <1>3, <2>0, <2>1
<1> QED BY <1>2, <1>3

\* A step disturbs nobody but its own execution, and for good.
LEMMA DisturbanceStays ==
  ASSUME TypeOK, NEW p \in Procs, Calm \/ Fault(p)
  PROVE  /\ \A q \in Procs : disturbed[q] => disturbed'[q]
         /\ Fault(p) => disturbed'[p]
<1>1. disturbed \in [Procs -> BOOLEAN]
  BY DEF TypeOK
<1>2. CASE Calm
  <2>1. ~Fault(p)
    BY <1>2 DEF Calm, Fault, TypeOK
  <2> QED BY <1>2, <2>1 DEF Calm
<1>3. CASE Fault(p)
  BY <1>1, <1>3 DEF Fault
<1> QED BY <1>2, <1>3

\* What a step of p, once it is running, does to the invariant's parts.
LoneStep(p) ==
  /\ \A q \in Procs \ {p} : pc'[q] = pc[q]
  /\ \A q \in Procs : disturbed[q] => disturbed'[q]
  /\ Active(p)' => disturbed'[p] \/ Lone(p)'
  /\ pc'[p] = "failed" => disturbed'[p] \/ cache'.kind = "link"
  /\ cache'.kind = "link" <=> cache.kind = "link"
  /\ cache'.kind = "link" => pc'[p] \in {"failed", "dead"}

\* EnsureMirror and the ends of an execution: each leads an undisturbed execution
\* to the phase that fits what is at the path, and none fails it but a symlink.
LEMMA LonePath ==
  ASSUME TypeOK, ControlInv, LoneInv, NEW p \in Procs,
         Inspect(p) \/ Unlink(p) \/ RemoveSome(p) \/ RemoveRest(p) \/ CloneBegin(p) \/ CloneEnd(p)
         \/ EndObservation(p) \/ EndPushes(p) \/ Kill(p)
  PROVE  LoneStep(p)
<1>1. PathStep(p)
  BY PathSteps
<1>2. /\ \A q \in Procs \ {p} : pc'[q] = pc[q]
      /\ UNCHANGED <<hosted, inputs, at, seen>> /\ Active(p)
      /\ \A q \in Procs : disturbed[q] => disturbed'[q]
      /\ Fault(p) => disturbed'[p]
  BY <1>1, DisturbanceStays DEF PathStep, Goto, results, TypeOK
<1>3. \A phase : Goto(p, phase) => pc'[p] = phase
  BY DEF Goto, TypeOK
<1>4. \A kind \in Kinds : Other(kind).kind = kind
  BY FreshCaches DEF TypeOK, CacheOK
<1>5. Empty.kind = "bare" /\ cache.kind \in Kinds
  BY DEF Empty, TypeOK, Repositories
<1>6. cache.kind = "link" => pc[p] = "inspect"
  BY <1>2 DEF LoneInv, Active
<1>7. disturbed[p] \/ Lone(p)
  BY <1>2 DEF LoneInv
<1>8. pc[p] # "run" => \A i \in Indexes(p) : /\ seen[p][i] = None /\ ~BoundBy(p, i)
                                            /\ ~FetchedBy(p, i) /\ ~ResolvedBy(p, i)
  <2> SUFFICES ASSUME pc[p] # "run", NEW i \in Indexes(p)
               PROVE  /\ seen[p][i] = None /\ ~BoundBy(p, i)
                      /\ ~FetchedBy(p, i) /\ ~ResolvedBy(p, i)
    OBVIOUS
  <2>1. at[p] = 1 /\ i \in Nat /\ i >= 1 /\ seen[p][i] = None
    BY <1>2 DEF ControlInv, Indexes
  <2> QED BY <2>1 DEF BoundBy, FetchedBy, ResolvedBy
<1>9. pc[p] # "run" => \A i \in Indexes(p)' : /\ seen'[p][i] # "error" /\ ~BoundBy(p, i)'
                                             /\ ~FetchedBy(p, i)' /\ ~ResolvedBy(p, i)'
  BY <1>2, <1>8, SameProgram DEF BoundBy, FetchedBy, ResolvedBy, inputs, None
<1> DEFINE fits ==
      /\ pc'[p] \notin {"cleanup", "cleaning", "dead"}
      /\ pc'[p] = "unlink" => cache'.kind = "file"
      /\ pc'[p] \in {"remove", "removing"} => cache'.kind \in {"junk", "bare"}
      /\ pc'[p] = "clone" => cache'.kind = "absent"
      /\ pc'[p] \in {"cloning", "run"} => cache'.kind = "bare"
<1>10. pc[p] # "run" /\ fits => Lone(p)'
  BY <1>9 DEF Lone
<1>11. CASE Inspect(p)
  <2>1. UNCHANGED cache /\ pc[p] = "inspect"
    BY <1>11 DEF Inspect
  <2>2. \/ Fault(p)
        \/ cache.kind = "link" /\ pc'[p] = "failed"
        \/ cache.kind = "file" /\ pc'[p] = "unlink"
        \/ cache.kind = "absent" /\ pc'[p] = "clone"
        \/ cache.kind = "junk" /\ pc'[p] = "remove"
        \/ cache.kind = "bare" /\ pc'[p] = "run"
    BY <1>3, <1>5, <1>11 DEF Inspect, Kinds
  <2>3. cache.kind = "link" => pc'[p] = "failed"
    BY <1>3, <1>5, <1>11 DEF Inspect, Kinds
  <2> QED BY <1>2, <1>10, <2>1, <2>2, <2>3 DEF LoneStep
<1>12. CASE Unlink(p)
  <2>1. pc[p] = "unlink" /\ cache.kind # "link"
    BY <1>6, <1>12 DEF Unlink
  <2>2. \/ Fault(p) /\ pc'[p] = "failed" /\ UNCHANGED cache
        \/ cache.kind = "file" /\ pc'[p] = "clone" /\ cache'.kind = "absent"
        \/ cache.kind # "file" /\ pc'[p] = "failed" /\ UNCHANGED cache
    BY <1>3, <1>4, <1>12, <2>1 DEF Unlink, Kinds
  <2>3. disturbed[p] \/ cache.kind = "file"
    BY <1>7, <2>1 DEF Lone
  <2> QED BY <1>2, <1>10, <2>1, <2>2, <2>3 DEF LoneStep
<1>13. CASE RemoveSome(p)
  <2>1. pc[p] \in {"remove", "cleanup"} /\ cache.kind # "link"
    BY <1>6, <1>13 DEF RemoveSome
  <2>2. \A c \in Torn(cache) : c.kind \in {"junk", cache.kind}
    <3> SUFFICES ASSUME NEW c \in Torn(cache) PROVE c.kind \in {"junk", cache.kind}
      OBVIOUS
    <3>1. CASE c = Other("junk")
      BY <1>4, <3>1 DEF Kinds
    <3>2. ASSUME NEW b \in {cache.bind, Empty.bind}, NEW kept \in {{}, Aliases},
                 c = [cache EXCEPT
                        !.bind = b,
                        !.track = [a \in Aliases |-> IF a \in kept THEN cache.track[a] ELSE NoRefs],
                        !.head = [a \in Aliases |-> IF a \in kept THEN cache.head[a] ELSE None]]
          PROVE  c.kind = cache.kind
      <4> DEFINE t == [a \in Aliases |-> IF a \in kept THEN cache.track[a] ELSE NoRefs]
      <4> DEFINE h == [a \in Aliases |-> IF a \in kept THEN cache.head[a] ELSE None]
      <4>1. c = [cache EXCEPT !.bind = b, !.track = t, !.head = h]
        BY <3>2
      <4> HIDE DEF t, h
      <4> QED BY <4>1 DEF TypeOK, Repositories
    <3> QED BY <3>1, <3>2 DEF Torn
  <2>3. \/ Fault(p) /\ pc'[p] = "failed" /\ UNCHANGED cache
        \/ cache.kind \in {"junk", "bare"} /\ cache'.kind \in {"junk", "bare"}
             /\ (pc[p] = "remove" => pc'[p] = "removing")
             /\ (pc[p] = "cleanup" => pc'[p] = "cleaning")
        \/ cache.kind \notin {"junk", "bare"} /\ cache'.kind = "absent"
             /\ pc'[p] \in {"clone", "failed"}
    BY <1>3, <1>4, <1>13, <2>1, <2>2 DEF RemoveSome, Kinds
  <2>4. disturbed[p] \/ (pc[p] = "remove" /\ cache.kind \in {"junk", "bare"})
    BY <1>7, <2>1 DEF Lone
  <2> QED BY <1>2, <1>10, <2>1, <2>3, <2>4 DEF LoneStep
<1>14. CASE RemoveRest(p)
  <2>1. pc[p] \in {"removing", "cleaning"} /\ cache.kind # "link"
    BY <1>6, <1>14 DEF RemoveRest
  <2>2. \/ Fault(p) /\ pc'[p] = "failed" /\ UNCHANGED cache
        \/ cache'.kind = "absent" /\ pc'[p] \in {"clone", "failed"}
             /\ (pc[p] = "removing" => pc'[p] = "clone")
    BY <1>3, <1>4, <1>14, <2>1 DEF RemoveRest, Kinds
  <2>3. disturbed[p] \/ pc[p] = "removing"
    BY <1>7, <2>1 DEF Lone
  <2> QED BY <1>2, <1>10, <2>1, <2>2, <2>3 DEF LoneStep
<1>15. CASE CloneBegin(p)
  <2>1. pc[p] = "clone" /\ cache.kind # "link"
    BY <1>6, <1>15 DEF CloneBegin
  <2>2. \/ Fault(p) /\ pc'[p] = "cleanup" /\ UNCHANGED cache
        \/ cache.kind # "absent" /\ pc'[p] = "cleanup" /\ UNCHANGED cache
        \/ pc'[p] = "cloning" /\ cache'.kind = "bare"
    BY <1>3, <1>5, <1>15 DEF CloneBegin
  <2>3. disturbed[p] \/ cache.kind = "absent"
    BY <1>7, <2>1 DEF Lone
  <2> QED BY <1>2, <1>10, <2>1, <2>2, <2>3 DEF LoneStep
<1>16. CASE CloneEnd(p)
  <2>1. pc[p] = "cloning" /\ cache.kind # "link"
    BY <1>6, <1>16 DEF CloneEnd
  <2>2. cache'.kind # "link"
    BY <1>4, <1>16, <2>1 DEF CloneEnd, Kinds
  <2>3. \/ Fault(p) /\ pc'[p] = "cleanup"
        \/ cache.kind # "bare" /\ pc'[p] = "cleanup"
        \/ cache.kind = "bare" /\ pc'[p] = "run" /\ UNCHANGED cache
    BY <1>3, <1>16 DEF CloneEnd
  <2>4. disturbed[p] \/ cache.kind = "bare"
    BY <1>7, <2>1 DEF Lone
  <2> QED BY <1>2, <1>10, <2>1, <2>2, <2>3, <2>4 DEF LoneStep
<1>17. CASE EndObservation(p) \/ EndPushes(p)
  <2>1. pc[p] = "run" /\ UNCHANGED cache
    BY <1>17 DEF EndObservation, EndPushes
  <2>2. disturbed[p] \/ pc'[p] = "done"
    <3>1. disturbed[p] \/ \A i \in Indexes(p) : seen[p][i] # "error"
      BY <1>7, <2>1 DEF Lone
    <3> QED BY <1>3, <1>17, <3>1 DEF EndObservation, EndPushes
  <2>3. cache.kind # "link"
    BY <1>6, <2>1
  <2> QED BY <1>2, <2>1, <2>2, <2>3 DEF LoneStep, Active
<1>18. CASE Kill(p)
  BY <1>2, <1>3, <1>18 DEF Kill, LoneStep
<1> QED BY <1>11, <1>12, <1>13, <1>14, <1>15, <1>16, <1>17, <1>18

\* One operation of the program, that succeeds, brings an undisturbed execution on.
LEMMA LoneAdvance ==
  ASSUME TypeOK, ControlInv, NEW p \in Procs, at[p] <= Len(Program(p)), Lone(p),
         pc[p] = "run", pc'[p] = "run", at'[p] = at[p] + 1, UNCHANGED <<hosted, inputs>>,
         cache'.kind = "bare",
         \A i \in Indexes(p) : seen'[p][i] # "error",
         NEW j \in Indexes(p), j = Step(p)[2],
         NEW op, op = Step(p)[1], NEW a, a = Alias(p, j),
         \A i \in Indexes(p) \ {j} :
           LET x == Alias(p, i)
           IN  /\ cache'.bind[x] = cache.bind[x] /\ cache'.track[x] = cache.track[x]
               /\ cache'.head[x] = cache.head[x],
         cache'.bind[a] = cache.bind[a] \/ cache'.bind[a] # None,
         op = "bind" => cache'.bind[a] # None,
         cache'.track[a] = cache.track[a] \/ cache'.track[a][hosted[conf[p][j]]] # None,
         op = "fetch" => cache'.track[a][hosted[conf[p][j]]] # None,
         cache'.head[a] = cache.head[a] \/ cache'.head[a] = hosted[conf[p][j]],
         op = "resolve" => cache'.head[a] = hosted[conf[p][j]]
  PROVE  Lone(p)'
<1>1. /\ op \in {"bind", "fetch", "resolve", "read", "push"} /\ (op = "push" => j > 1)
      /\ at[p] \in Nat /\ at[p] = Place(p, op, j)
  BY ProgramPlaces DEF TypeOK
<1>2. ASSUME NEW i \in Indexes(p)
      PROVE  /\ BoundBy(p, i)' => BoundBy(p, i) \/ (i = j /\ op = "bind")
             /\ FetchedBy(p, i)' => FetchedBy(p, i) \/ (i = j /\ op = "fetch")
             /\ ResolvedBy(p, i)' => ResolvedBy(p, i) \/ (i = j /\ op = "resolve")
  <2>1. /\ BoundBy(p, i)' => BoundBy(p, i) \/ (i = j /\ op = "bind")
        /\ FetchedBy(p, i)' => FetchedBy(p, i) \/ (i = j /\ op = "fetch")
    BY <1>1, PlacesPassed DEF BoundBy, FetchedBy, inputs
  <2>2. ResolvedBy(p, i)' => ResolvedBy(p, i) \/ (i = j /\ op = "resolve")
    BY <1>1, ResolvePassed DEF ResolvedBy, inputs
  <2> QED BY <2>1, <2>2
<1>3. ASSUME NEW i \in Indexes(p)
      PROVE  /\ BoundBy(p, i)' => cache'.bind[Alias(p, i)] # None
             /\ FetchedBy(p, i)' => cache'.track[Alias(p, i)][hosted[conf[p][i]]] # None
             /\ ResolvedBy(p, i)' => cache'.head[Alias(p, i)] = hosted[conf[p][i]]
  <2>1. /\ BoundBy(p, i) => cache.bind[Alias(p, i)] # None
        /\ FetchedBy(p, i) => cache.track[Alias(p, i)][hosted[conf[p][i]]] # None
        /\ ResolvedBy(p, i) => cache.head[Alias(p, i)] = hosted[conf[p][i]]
    BY DEF Lone
  <2>2. CASE i = j
    BY <1>2, <2>1, <2>2
  <2>3. CASE i # j
    BY <1>2, <2>1, <2>3
  <2> QED BY <2>2, <2>3
<1>4. ASSUME NEW i \in Indexes(p)'
      PROVE  /\ i \in Indexes(p) /\ Alias(p, i)' = Alias(p, i)
             /\ hosted'[conf'[p][i]] = hosted[conf[p][i]]
  BY SameProgram DEF inputs
<1>5. ASSUME NEW i \in Indexes(p)'
      PROVE  /\ seen'[p][i] # "error"
             /\ BoundBy(p, i)' => cache'.bind[Alias(p, i)'] # None
             /\ FetchedBy(p, i)' => cache'.track[Alias(p, i)'][hosted'[conf'[p][i]]] # None
             /\ ResolvedBy(p, i)' => cache'.head[Alias(p, i)'] = hosted'[conf'[p][i]]
  BY <1>3, <1>4
<1> QED BY <1>5 DEF Lone

\* The operations on the remotes: none fails an undisturbed execution, because the
\* earlier ones have left what it needs.
LEMMA LoneProgram ==
  ASSUME TypeOK, ControlInv, NameInv, LoneInv, NEW p \in Procs,
         Bind(p) \/ Fetch(p) \/ Resolve(p) \/ Read(p) \/ Push(p)
  PROVE  LoneStep(p)
<1>1. /\ pc[p] = "run" /\ at[p] <= Len(Program(p)) /\ at[p] \in Nat
      /\ UNCHANGED <<hosted, inputs>> /\ ProgramStep(p)
  BY ProgramSteps DEF Bind, Fetch, Resolve, Read, Push, Doing, TypeOK
<1>2. PICK j \in Indexes(p) : j = Step(p)[2]
  BY <1>1, ProgramPlaces
<1>op. PICK op \in {"bind", "fetch", "resolve", "read", "push"} : op = Step(p)[1]
  BY <1>1, ProgramPlaces
<1>3. PICK e \in Endpoints : e = conf[p][j] /\ e = Target(p)
  BY <1>2, Names DEF Target
<1>4. PICK a \in Aliases : a = Alias(p, j) /\ a = Name(p)
  BY <1>2, Names DEF Name
<1>5. /\ at[p] = Place(p, op, j) /\ (op = "push" => j > 1)
      /\ \A i \in Indexes(p) \ {j} : Alias(p, i) \in Aliases \ {a} /\ i \in 1 .. MaxLen
      /\ j \in 1 .. MaxLen
  <2>1. \A i \in Indexes(p) \ {j} : Alias(p, i) \in Aliases \ {a} /\ i \in 1 .. MaxLen
    BY <1>4, Names
  <2> QED BY <1>1, <1>2, <1>op, <2>1, ProgramPlaces, Names
<1>6. /\ cache \in Repositories /\ CacheOK(cache) /\ hosted[e] \in Branches
      /\ e # None /\ hosted[e] # None
  BY <1>3, NoneAssumption DEF TypeOK, CacheOK
<1>7. /\ \A q \in Procs \ {p} : pc'[q] = pc[q]
      /\ \A q \in Procs : disturbed[q] => disturbed'[q]
      /\ Fault(p) => disturbed'[p]
      /\ pc'[p] \in {"run", "failed"}
  BY <1>1, ProgramMoves, DisturbanceStays DEF ProgramStep, TypeOK
<1>8. cache.kind # "link"
  BY <1>1 DEF LoneInv
<1>9. cache'.kind = cache.kind
  BY <1>6 DEF Bind, Fetch, Resolve, Read, Push, Repositories
<1>10. CASE disturbed'[p]
  BY <1>7, <1>8, <1>9, <1>10 DEF LoneStep
<1>11. CASE ~disturbed'[p]
  <2>1. ~Fault(p) /\ Lone(p) /\ cache.kind = "bare"
    BY <1>1, <1>7, <1>11 DEF LoneInv, Lone, Active
  <2>2. /\ \A i \in Indexes(p) : seen[p][i] # "error"
        /\ BoundBy(p, j) => cache.bind[a] = e
        /\ FetchedBy(p, j) => cache.track[a][hosted[e]] # None
        /\ ResolvedBy(p, j) => cache.head[a] = hosted[e]
    <3>1. \A i \in Indexes(p) : seen[p][i] # "error"
      BY <1>1, <2>1 DEF Lone
    <3>2. BoundBy(p, j) => cache.bind[a] \in {None, e}
      BY <1>1, <1>3, <1>4, <3>1 DEF NameInv
    <3> QED BY <1>1, <1>3, <1>4, <2>1, <3>1, <3>2 DEF Lone
  <2>3. /\ op \in {"fetch", "resolve", "read", "push"} => BoundBy(p, j)
        /\ op \in {"resolve", "read"} => FetchedBy(p, j)
        /\ op = "read" => ResolvedBy(p, j)
    <3>1. /\ op \in {"read", "resolve"} => FetchedBy(p, j)
          /\ op = "fetch" => BoundBy(p, j)
          /\ op = "push" => BoundBy(p, j)
      BY <1>1, <1>5, PlacesPassed DEF BoundBy, FetchedBy
    <3>2. op = "read" => ResolvedBy(p, j)
      BY <1>1, <1>5, ResolvePassed DEF ResolvedBy
    <3>3. FetchedBy(p, j) => BoundBy(p, j)
      <4>1. j \in Nat
        BY <1>2 DEF Indexes
      <4> QED BY <1>1, <4>1 DEF BoundBy, FetchedBy
    <3> QED BY <3>1, <3>2, <3>3
  <2>p. Proceed(p) => at'[p] = at[p] + 1 /\ pc'[p] = "run"
    BY <1>1 DEF Proceed, TypeOK
  <2>4. CASE Bind(p)
    <3>1. op = "bind" /\ cache' = [cache EXCEPT !.bind[a] = e] /\ Proceed(p) /\ UNCHANGED results
      BY <1>3, <1>4, <1>op, <2>1, <2>4 DEF Bind, Doing
    <3>2. /\ cache'.bind[a] = e /\ cache'.track = cache.track /\ cache'.head = cache.head
          /\ \A x \in Aliases \ {a} : cache'.bind[x] = cache.bind[x]
      BY <1>6, <3>1 DEF Repositories
    <3>3. Lone(p)'
      <4>1. /\ \A i \in Indexes(p) : seen'[p][i] # "error"
            /\ \A i \in Indexes(p) \ {j} :
                 LET x == Alias(p, i)
                 IN  /\ cache'.bind[x] = cache.bind[x] /\ cache'.track[x] = cache.track[x]
                     /\ cache'.head[x] = cache.head[x]
        BY <1>5, <2>2, <3>1, <3>2 DEF results
      <4>2. /\ cache'.bind[a] # None
            /\ cache'.track[a] = cache.track[a] /\ cache'.head[a] = cache.head[a]
        BY <1>6, <3>2
      <4>3. op # "fetch" /\ op # "resolve" /\ at'[p] = at[p] + 1 /\ pc'[p] = "run"
        BY <2>p, <3>1
      <4> QED BY <1>1, <1>2, <1>op, <1>4, <1>9, <2>1, <4>1, <4>2, <4>3, LoneAdvance
    <3> QED BY <1>7, <1>8, <1>9, <2>p, <3>1, <3>3 DEF LoneStep
  <2>5. CASE Fetch(p)
    <3>1. op = "fetch"
      BY <1>op, <2>5 DEF Fetch, Doing
    <3>2. Bound(p) /\ cache.bind[Name(p)] = e
      BY <1>4, <1>6, <2>1, <2>2, <2>3, <3>1 DEF Bound
    <3>3. cache' = [cache EXCEPT !.track[a] = Fetched(e)] /\ Proceed(p) /\ UNCHANGED results
      BY <1>4, <2>1, <2>5, <3>2 DEF Fetch
    <3>4. /\ cache'.track[a] = Fetched(e) /\ cache'.bind = cache.bind /\ cache'.head = cache.head
          /\ \A x \in Aliases \ {a} : cache'.track[x] = cache.track[x]
      BY <1>6, <3>3 DEF Repositories
    <3>5. Fetched(e)[hosted[e]] # None
      BY <1>6 DEF Fetched
    <3>6. Lone(p)'
      <4>1. /\ \A i \in Indexes(p) : seen'[p][i] # "error"
            /\ \A i \in Indexes(p) \ {j} :
                 LET x == Alias(p, i)
                 IN  /\ cache'.bind[x] = cache.bind[x] /\ cache'.track[x] = cache.track[x]
                     /\ cache'.head[x] = cache.head[x]
        BY <1>5, <2>2, <3>3, <3>4 DEF results
      <4>2. /\ cache'.bind[a] = cache.bind[a] /\ cache'.head[a] = cache.head[a]
            /\ cache'.track[a][hosted[conf[p][j]]] # None
        BY <1>3, <3>4, <3>5
      <4>3. op # "bind" /\ op # "resolve" /\ at'[p] = at[p] + 1 /\ pc'[p] = "run"
        BY <2>p, <3>1, <3>3
      <4> QED BY <1>1, <1>2, <1>op, <1>4, <1>9, <2>1, <4>1, <4>2, <4>3, LoneAdvance
    <3> QED BY <1>7, <1>8, <1>9, <2>p, <3>3, <3>6 DEF LoneStep
  <2>6. CASE Resolve(p)
    <3>1. op = "resolve"
      BY <1>op, <2>6 DEF Resolve, Doing
    <3>2. Resolvable(p) /\ cache.bind[Name(p)] = e
      BY <1>4, <1>6, <2>1, <2>2, <2>3, <3>1 DEF Bound, Resolvable
    <3>3. cache' = [cache EXCEPT !.head[a] = hosted[e]] /\ Proceed(p) /\ UNCHANGED results
      BY <1>4, <2>1, <2>6, <3>2 DEF Resolve
    <3>4. /\ cache'.head[a] = hosted[e] /\ cache'.bind = cache.bind /\ cache'.track = cache.track
          /\ \A x \in Aliases \ {a} : cache'.head[x] = cache.head[x]
      BY <1>6, <3>3 DEF Repositories
    <3>5. Lone(p)'
      <4>1. /\ \A i \in Indexes(p) : seen'[p][i] # "error"
            /\ \A i \in Indexes(p) \ {j} :
                 LET x == Alias(p, i)
                 IN  /\ cache'.bind[x] = cache.bind[x] /\ cache'.track[x] = cache.track[x]
                     /\ cache'.head[x] = cache.head[x]
        BY <1>5, <2>2, <3>3, <3>4 DEF results
      <4>2. /\ cache'.bind[a] = cache.bind[a] /\ cache'.track[a] = cache.track[a]
            /\ cache'.head[a] = hosted[conf[p][j]]
        BY <1>3, <3>4
      <4>3. op # "bind" /\ op # "fetch" /\ at'[p] = at[p] + 1 /\ pc'[p] = "run"
        BY <2>p, <3>1, <3>3
      <4> QED BY <1>1, <1>2, <1>op, <1>4, <1>9, <2>1, <4>1, <4>2, <4>3, LoneAdvance
    <3> QED BY <1>7, <1>8, <1>9, <2>p, <3>3, <3>5 DEF LoneStep
  <2>7. CASE Read(p)
    <3>1. op = "read" /\ UNCHANGED cache
      BY <1>op, <2>7 DEF Read, Doing
    <3>2. HeadOf(a) # None
      BY <1>6, <2>1, <2>2, <2>3, <3>1 DEF HeadOf
    <3>3. HeadOf(a) # "error"
      <4>1. HeadOf(a) \in Endpoints \cup {None}
        BY <1>6 DEF HeadOf, Repositories
      <4> QED BY <4>1, NoneAssumption DEF None
    <3>4. seen' = [seen EXCEPT ![p][j] = HeadOf(a)] /\ Proceed(p)
      BY <1>2, <1>4, <2>1, <2>7, <3>2 DEF Read
    <3>5. \A i \in Indexes(p) : seen'[p][i] # "error"
      <4>1. seen'[p][j] = HeadOf(a) /\ \A i \in 1 .. MaxLen \ {j} : seen'[p][i] = seen[p][i]
        BY <1>5, <3>4 DEF TypeOK
      <4> QED BY <1>5, <2>2, <3>3, <4>1
    <3>6. Lone(p)'
      BY <1>1, <1>2, <1>op, <1>3, <1>4, <1>5, <1>9, <2>1, <2>p, <3>1, <3>4, <3>5, LoneAdvance
    <3> QED BY <1>7, <1>8, <1>9, <2>p, <3>4, <3>6 DEF LoneStep
  <2>8. CASE Push(p)
    <3>1. op = "push" /\ UNCHANGED <<cache, seen>> /\ Proceed(p)
      BY <1>op, <2>8 DEF Push, Doing
    <3>2. Lone(p)'
      BY <1>1, <1>2, <1>op, <1>3, <1>4, <1>5, <1>9, <2>1, <2>2, <2>p, <3>1, LoneAdvance
    <3> QED BY <1>7, <1>8, <1>9, <2>p, <3>1, <3>2 DEF LoneStep
  <2> QED BY <2>4, <2>5, <2>6, <2>7, <2>8
<1> QED BY <1>10, <1>11

\* Every step keeps it.
LEMMA LoneInvStep == ASSUME AllInv, LoneInv, [Next]_vars PROVE LoneInv'
<1>1. TypeOK /\ ControlInv /\ NameInv
  BY DEF AllInv
<1>2. ASSUME NEW p \in Procs, Active(p), LoneStep(p) PROVE LoneInv'
  <2>1. \A q \in Procs \ {p} : pc'[q] = pc[q] /\ (Active(q)' => Active(q) /\ disturbed[q])
    BY <1>2 DEF LoneStep, LoneInv, Active
  <2>2. \A q, r \in Procs : q # r /\ Active(q)' /\ Active(r)' => disturbed'[q]
    <3> SUFFICES ASSUME NEW q \in Procs, NEW r \in Procs, q # r, Active(q)', Active(r)'
                 PROVE  disturbed'[q]
      OBVIOUS
    <3>1. CASE q = p
      BY <1>2, <2>1, <3>1 DEF LoneStep, LoneInv
    <3>2. CASE q # p
      BY <1>2, <2>1, <3>2 DEF LoneStep
    <3> QED BY <3>1, <3>2
  <2>3. \A q \in Procs : Active(q)' => disturbed'[q] \/ Lone(q)'
    BY <1>2, <2>1 DEF LoneStep
  <2>4. cache'.kind = "link" => \A q \in Procs : pc'[q] \in {"idle", "inspect", "failed", "dead"}
    BY <1>2, <2>1 DEF LoneStep, LoneInv
  <2>5. LoneExecutionSucceeds'
    BY <1>2, <2>1 DEF LoneStep, LoneInv, LoneExecutionSucceeds
  <2> QED BY <2>2, <2>3, <2>4, <2>5 DEF LoneInv
<1>3. ASSUME NEW p \in Procs, Start(p) PROVE LoneInv'
  <2>1. /\ pc'[p] = "inspect" /\ \A q \in Procs \ {p} : pc'[q] = pc[q]
        /\ UNCHANGED cache /\ pc[p] = "idle"
        /\ \A q \in Procs : disturbed[q] => disturbed'[q]
        /\ \A q \in Procs \ {p} : Active(q) => disturbed'[q] /\ disturbed'[p]
    <3>1. ~Active(p)
      BY <1>3 DEF Start, Active
    <3> QED BY <1>1, <1>3, <3>1 DEF Start, Goto, TypeOK
  <2>2. \A q \in Procs \ {p} : Active(q)' => Active(q)
    BY <2>1 DEF Active
  <2>3. Lone(p)'
    BY <2>1 DEF Lone
  <2>4. LoneExecutionSucceeds'
    BY <2>1 DEF LoneInv, LoneExecutionSucceeds
  <2> QED BY <2>1, <2>2, <2>3, <2>4 DEF LoneInv
<1>4. ASSUME NEW e \in Endpoints, Rename(e) PROVE LoneInv'
  <2>1. /\ UNCHANGED <<pc, cache>>
        /\ \A q \in Procs : disturbed'[q] = (disturbed[q] \/ Active(q))
    BY <1>4 DEF Rename
  <2>2. \A q \in Procs : Active(q)' => disturbed'[q]
    BY <2>1 DEF Active
  <2>3. LoneExecutionSucceeds'
    BY <2>1 DEF LoneInv, LoneExecutionSucceeds
  <2> QED BY <2>1, <2>2, <2>3 DEF LoneInv
<1>5. CASE UNCHANGED vars
  <2>1. \A q \in Procs : Active(q)' = Active(q) /\ Lone(q)' = Lone(q)
    BY <1>5, SameProgram DEF vars, inputs, results, Active, Lone, BoundBy, FetchedBy, ResolvedBy
  <2> QED BY <1>5, <2>1 DEF vars, LoneInv, LoneExecutionSucceeds
<1>6. \A p \in Procs :
        \/ Inspect(p) \/ Unlink(p) \/ RemoveSome(p) \/ RemoveRest(p) \/ CloneBegin(p) \/ CloneEnd(p)
        \/ EndObservation(p) \/ EndPushes(p) \/ Kill(p)
        => Active(p) /\ LoneStep(p)
  BY <1>1, PathSteps, LonePath DEF PathStep
<1>7. \A p \in Procs : Bind(p) \/ Fetch(p) \/ Resolve(p) \/ Read(p) \/ Push(p)
        => Active(p) /\ LoneStep(p)
  BY <1>1, ProgramSteps, LoneProgram DEF ProgramStep, Active
<1> QED BY <1>2, <1>3, <1>4, <1>5, <1>6, <1>7 DEF Next, Execution

\* Whatever an earlier execution left at the cache path, and however many there
\* were, one that nothing disturbs observes every endpoint: only a symlink stops it.
THEOREM LoneExecutionRecovers == Spec => []LoneExecutionSucceeds
<1>1. Init => LoneInv
  BY DEF Init, LoneInv, LoneExecutionSucceeds, Active
<1>2. LoneInv => LoneExecutionSucceeds
  BY DEF LoneInv
<1> QED BY <1>1, <1>2, LoneInvStep, Invariance, PTL DEF Spec
=============================================================================
