---------------------------- MODULE OpLogProofs ----------------------------
(***************************************************************************)
(* What the fold of a log is, for every log: the fold is a recursive       *)
(* function over the lamports, so what holds of every lamport is shown by  *)
(* the least lamport at which it would fail.                               *)
(***************************************************************************)
EXTENDS OpLog, FiniteSetTheorems, WellFoundedInduction, TLAPS

(* Every nonempty set of naturals has a least element. *)
LEMMA NatMin ==
  ASSUME NEW T \in SUBSET Nat, T # {}
  PROVE  \E x \in T : \A y \in T : x <= y
<1> DEFINE R == OpToRel(<, Nat)
<1>1. IsWellFoundedOn(R, Nat)
  BY NatLessThanWellFounded
<1>2. PICK x \in T : \A y \in T : <<y, x>> \notin R
  <2> HIDE DEF R
  <2>1. QED
    BY <1>1, WFMin
<1>3. \A y \in T : ~(y < x)
  BY <1>2 DEF OpToRel
<1>4. QED
  BY <1>3

-----------------------------------------------------------------------------
(* The fold as a function of the lamport, over the ops of each. *)

At(ops, m) == {o \in ops : o.lamport = m}

IsReplay(f, ops, n) ==
  f = [m \in 0..n |-> IF m = 0 THEN Start
                      ELSE ApplyGroup(f[m - 1], {o \in ops : o.lamport = m})]

Replay(ops, n) == CHOOSE f : IsReplay(f, ops, n)

(* There is one for every log and length. *)
LEMMA ReplayExists ==
  ASSUME NEW ops, NEW n \in Nat
  PROVE  IsReplay(Replay(ops, n), ops, n)
<1> DEFINE Bad == {k \in Nat : ~\E f : IsReplay(f, ops, k)}
<1>1. SUFFICES Bad = {}
  BY DEF Replay
<1>2. SUFFICES ASSUME Bad # {} PROVE FALSE
  OBVIOUS
<1>3. PICK k \in Bad : \A j \in Bad : k <= j
  BY <1>2, NatMin
<1>4. CASE k = 0
  <2> DEFINE f == [m \in 0..0 |-> Start]
  <2>1. f = [m \in 0..0 |-> IF m = 0 THEN Start
                      ELSE ApplyGroup(f[m - 1], {o \in ops : o.lamport = m})]
    OBVIOUS
  <2>2. QED
    BY <1>3, <1>4, <2>1 DEF IsReplay
<1>5. CASE k # 0
  <2>1. k - 1 \in Nat /\ k - 1 \notin Bad
    BY <1>3, <1>5
  <2>2. PICK f : IsReplay(f, ops, k - 1)
    BY <2>1
  <2> DEFINE last == ApplyGroup(f[k - 1], {o \in ops : o.lamport = k})
             g == [m \in 0..k |-> IF m = k THEN last ELSE f[m]]
  <2>3. \A m \in 0..k : g[m] = IF m = 0 THEN Start
                      ELSE ApplyGroup(g[m - 1], {o \in ops : o.lamport = m})
    <3> SUFFICES ASSUME NEW m \in 0..k
                 PROVE  g[m] = IF m = 0 THEN Start
                      ELSE ApplyGroup(g[m - 1], {o \in ops : o.lamport = m})
      OBVIOUS
    <3>1. CASE m = k
      <4>1. g[m] = last /\ m # 0 /\ m - 1 \in 0..k /\ m - 1 # k
        BY <1>3, <1>5, <3>1
      <4>2. g[m - 1] = f[k - 1]
        BY <3>1, <4>1
      <4> HIDE DEF g
      <4>3. QED
        BY <3>1, <4>1, <4>2
    <3>2. CASE m # k
      <4>1. g[m] = f[m] /\ m \in 0..(k - 1)
        BY <1>3, <3>2
      <4>2. f[m] = IF m = 0 THEN Start
                      ELSE ApplyGroup(f[m - 1], {o \in ops : o.lamport = m})
        BY <2>2, <4>1 DEF IsReplay
      <4>3. m # 0 => g[m - 1] = f[m - 1]
        BY <1>3, <4>1
      <4> HIDE DEF g
      <4>4. QED
        BY <4>1, <4>2, <4>3
    <3>3. QED
      BY <3>1, <3>2
  <2>4. g = [m \in 0..k |-> g[m]]
    OBVIOUS
  <2> HIDE DEF g
  <2>5. IsReplay(g, ops, k)
    BY <2>3, <2>4 DEF IsReplay
  <2>6. QED
    BY <1>3, <2>5
<1>6. QED
  BY <1>4, <1>5

(* Its equations. *)
LEMMA ReplayStep ==
  ASSUME NEW ops, NEW n \in Nat
  PROVE  /\ Replay(ops, n)[0] = Start
         /\ \A m \in 1..n : Replay(ops, n)[m] =
              ApplyGroup(Replay(ops, n)[m - 1], At(ops, m))
<1> DEFINE f == Replay(ops, n)
<1>1. IsReplay(f, ops, n)
  BY ReplayExists
<1> HIDE DEF f
<1>2. \A m \in 0..n : f[m] = IF m = 0 THEN Start
                      ELSE ApplyGroup(f[m - 1], {o \in ops : o.lamport = m})
  BY <1>1 DEF IsReplay
<1>3. f[0] = Start
  <2>1. 0 \in 0..n
    OBVIOUS
  <2>2. QED
    BY <1>2, <2>1
<1>4. ASSUME NEW m \in 1..n
      PROVE  f[m] = ApplyGroup(f[m - 1], {o \in ops : o.lamport = m})
  <2>1. m \in 0..n /\ m # 0
    OBVIOUS
  <2>2. QED
    BY <1>2, <2>1
<1>5. QED
  BY <1>3, <1>4 DEF f, At

LEMMA FoldIsReplay ==
  ASSUME NEW ops
  PROVE  FoldState(ops) = Replay(ops, MaxLamport(ops))[MaxLamport(ops)]
BY DEF FoldState, Replay, IsReplay

(* Two logs with the same ops up to a lamport fold alike up to it. *)
LEMMA ReplayAgrees ==
  ASSUME NEW a, NEW b, NEW i \in Nat, NEW j \in Nat, NEW n \in Nat, n <= i, n <= j,
         \A m \in 1..n : At(a, m) = At(b, m)
  PROVE  Replay(a, i)[n] = Replay(b, j)[n]
<1> DEFINE f == Replay(a, i)
           g == Replay(b, j)
           Bad == {k \in 0..n : f[k] # g[k]}
<1>1. SUFFICES Bad = {}
  OBVIOUS
<1>2. SUFFICES ASSUME Bad # {} PROVE FALSE
  OBVIOUS
<1>3. Bad \in SUBSET Nat
  OBVIOUS
<1>4. PICK k \in Bad : \A y \in Bad : k <= y
  <2> HIDE DEF Bad
  <2>1. QED
    BY <1>2, <1>3, NatMin
<1>5. k # 0
  BY <1>4, ReplayStep
<1>6. f[k - 1] = g[k - 1]
  BY <1>4, <1>5
<1>7. f[k] = ApplyGroup(f[k - 1], At(a, k))
  <2>1. k \in 1..i
    BY <1>4, <1>5
  <2>2. \A m \in 1..i : Replay(a, i)[m] =
              ApplyGroup(Replay(a, i)[m - 1], At(a, m))
    BY ReplayStep
  <2>3. QED
    BY <2>1, <2>2
<1>8. g[k] = ApplyGroup(g[k - 1], At(b, k))
  <2>1. k \in 1..j
    BY <1>4, <1>5
  <2>2. \A m \in 1..j : Replay(b, j)[m] =
              ApplyGroup(Replay(b, j)[m - 1], At(b, m))
    BY ReplayStep
  <2>3. QED
    BY <2>1, <2>2
<1>9. k \in 1..n /\ f[k] # g[k]
  BY <1>4, <1>5
<1> HIDE DEF f, g
<1>10. QED
  BY <1>6, <1>7, <1>8, <1>9

-----------------------------------------------------------------------------
(* One group. *)

(* A lamport nobody used changes nothing. *)
LEMMA NoGroup ==
  ASSUME NEW acc
  PROVE  ApplyGroup(acc, {}) = acc
<1> DEFINE status == {o \in {} : o.type \in StatusOps}
           body(f, ops) == IF ops = {} THEN acc
                     ELSE LET last == CHOOSE o \in ops : \A x \in ops : x.id <= o.id
                          IN  ApplyOp(f[ops \ {last}], last)
           F == CHOOSE f : f = [ops \in SUBSET ({} \ status) |-> body(f, ops)]
<1>1. ApplyGroup(acc, {}) = F[{}]
  BY DEF ApplyGroup
<1>2. SUBSET ({} \ status) = {{}}
  OBVIOUS
<1>3. \E f : f = [ops \in {{}} |-> body(f, ops)]
  <2> DEFINE g == [ops \in {{}} |-> acc]
  <2>1. g = [ops \in {{}} |-> body(g, ops)]
    OBVIOUS
  <2>2. QED
    BY <2>1
<1>4. F = [ops \in {{}} |-> body(F, ops)]
  BY <1>2, <1>3
<1> HIDE DEF F
<1>5. F[{}] = acc
  BY <1>4
<1>6. QED
  BY <1>1, <1>5

(* A lamport one op has: a status op sets the status, any other is applied *)
(* by itself.                                                              *)
LEMMA LoneGroup ==
  ASSUME NEW acc, NEW op, op.id \in Nat
  PROVE  ApplyGroup(acc, {op}) =
           IF op.type \in StatusOps THEN [acc EXCEPT !.status = op.status]
           ELSE ApplyOp(acc, op)
<1> DEFINE status == {o \in {op} : o.type \in StatusOps}
           body(f, ops) == IF ops = {} THEN acc
                     ELSE LET last == CHOOSE o \in ops : \A x \in ops : x.id <= o.id
                          IN  ApplyOp(f[ops \ {last}], last)
           F == CHOOSE f : f = [ops \in SUBSET ({op} \ status) |-> body(f, ops)]
<1>1. ApplyGroup(acc, {op}) =
        IF status = {} THEN F[{op} \ status]
        ELSE [F[{op} \ status] EXCEPT !.status = Winner(status).status]
  BY DEF ApplyGroup
<1>2. CASE op.type \in StatusOps
  <2>1. status = {op} /\ {op} \ status = {}
    BY <1>2
  <2>2. SUBSET ({op} \ status) = {{}}
    BY <2>1
  <2>3. \E f : f = [ops \in {{}} |-> body(f, ops)]
    <3> DEFINE g == [ops \in {{}} |-> acc]
    <3>1. g = [ops \in {{}} |-> body(g, ops)]
      OBVIOUS
    <3>2. QED
      BY <3>1
  <2>4. F = [ops \in {{}} |-> body(F, ops)]
    BY <2>2, <2>3
  <2> HIDE DEF F
  <2>5. F[{}] = acc
    BY <2>4
  <2>6. Winner({op}) = op
    BY DEF Winner
  <2>7. QED
    BY <1>1, <1>2, <2>1, <2>5, <2>6
<1>3. CASE op.type \notin StatusOps
  <2>1. status = {} /\ {op} \ status = {op}
    BY <1>3
  <2> DEFINE D == SUBSET ({op} \ status)
             pick(ops) == CHOOSE o \in ops : \A x \in ops : x.id <= o.id
  <2>2. D = {{}, {op}}
    BY <2>1
  <2>3. pick({op}) = op
    OBVIOUS
  <2>4. {op} \ {op} = {} /\ {op} # {}
    OBVIOUS
  <2> HIDE DEF D
  <2>5. \E f : f = [ops \in D |-> body(f, ops)]
    <3> DEFINE g == [ops \in D |-> IF ops = {} THEN acc ELSE ApplyOp(acc, op)]
    <3>1. body(g, {}) = acc
      OBVIOUS
    <3>2. body(g, {op}) = ApplyOp(g[{op} \ {pick({op})}], pick({op}))
      BY <2>4
    <3>3. g[{}] = acc /\ g[{op}] = ApplyOp(acc, op)
      BY <2>2, <2>4
    <3> HIDE DEF g
    <3>4. body(g, {op}) = ApplyOp(acc, op)
      BY <3>2, <3>3, <2>3, <2>4
    <3> HIDE DEF body
    <3>5. \A ops \in D : body(g, ops) = IF ops = {} THEN acc ELSE ApplyOp(acc, op)
      BY <2>2, <3>1, <3>4, <2>4
    <3>6. g = [ops \in D |-> body(g, ops)]
      BY <3>5 DEF g
    <3>7. QED
      BY <3>6
  <2>6. F = [ops \in D |-> body(F, ops)]
    BY <2>5 DEF D
  <2> HIDE DEF body, F
  <2>7. F[{}] = body(F, {}) /\ F[{op}] = body(F, {op})
    BY <2>2, <2>6
  <2>8. body(F, {}) = acc
    BY DEF body
  <2>9. body(F, {op}) = ApplyOp(F[{op} \ {pick({op})}], pick({op}))
    BY <2>4 DEF body
  <2>10. F[{op}] = ApplyOp(acc, op)
    BY <2>3, <2>4, <2>7, <2>8, <2>9
  <2>11. QED
    BY <1>1, <1>3, <2>1, <2>10
<1>4. QED
  BY <1>2, <1>3

-----------------------------------------------------------------------------
(* The fold of a bounded log.                                              *)

Bounded(ops, n) == \A o \in ops : o.lamport \in 1..n

LEMMA MaxBounds ==
  ASSUME NEW ops, NEW n \in Nat, Bounded(ops, n)
  PROVE  MaxLamport(ops) \in 0..n /\ Bounded(ops, MaxLamport(ops))
<1>1. CASE ops = {}
  BY <1>1 DEF MaxLamport, Bounded
<1>2. CASE ops # {}
  <2> DEFINE U == {k \in Nat : \A o \in ops : o.lamport <= k}
  <2>1. n \in U
    BY DEF Bounded
  <2>2. PICK k \in U : \A j \in U : k <= j
    <3>1. U \in SUBSET Nat /\ U # {}
      BY <2>1
    <3> HIDE DEF U
    <3>2. QED
      BY <3>1, NatMin
  <2>3. \A o \in ops : o.lamport \in Nat /\ o.lamport >= 1 /\ o.lamport <= k
    BY <2>2 DEF Bounded
  <2>4. k \in Nat /\ k >= 1 /\ k <= n
    BY <1>2, <2>1, <2>2, <2>3
  <2>5. \E o \in ops : o.lamport = k
    <3> SUFFICES ASSUME \A o \in ops : o.lamport # k PROVE FALSE
      OBVIOUS
    <3>1. k - 1 \in U
      BY <2>3, <2>4
    <3>2. QED
      BY <2>2, <2>4, <3>1
  <2> HIDE DEF U
  <2>6. \E m \in {o.lamport : o \in ops} : \A o \in ops : o.lamport <= m
    BY <2>3, <2>5
  <2> DEFINE x == MaxLamport(ops)
  <2>7. x \in {o.lamport : o \in ops} /\ \A o \in ops : o.lamport <= x
    BY <1>2, <2>6 DEF MaxLamport
  <2> HIDE DEF x
  <2>8. x = k
    BY <2>3, <2>5, <2>7
  <2>9. QED
    BY <2>3, <2>4, <2>8 DEF Bounded, x
<1>3. QED
  BY <1>1, <1>2

(* Lamports past the last op add nothing. *)
LEMMA FoldAt ==
  ASSUME NEW ops, NEW n \in Nat, Bounded(ops, n)
  PROVE  FoldState(ops) = Replay(ops, n)[n]
<1> DEFINE M == MaxLamport(ops)
           v(k) == Replay(ops, k)[k]
           Bad == {k \in M..n : v(k) # FoldState(ops)}
<1>1. M \in 0..n /\ Bounded(ops, M)
  BY MaxBounds
<1>2. v(M) = FoldState(ops)
  BY FoldIsReplay
<1> HIDE DEF M
<1>3. SUFFICES Bad = {}
  BY <1>1
<1>4. SUFFICES ASSUME Bad # {} PROVE FALSE
  OBVIOUS
<1>5. PICK k \in Bad : \A j \in Bad : k <= j
  <2>1. Bad \in SUBSET Nat
    BY <1>1
  <2> HIDE DEF Bad
  <2>2. QED
    BY <1>4, <2>1, NatMin
<1>6. k > M /\ k \in Nat /\ k <= n
  BY <1>1, <1>2, <1>5
<1>7. v(k - 1) = FoldState(ops)
  BY <1>1, <1>5, <1>6
<1>8. v(k) = ApplyGroup(Replay(ops, k)[k - 1], At(ops, k))
  <2>1. k \in 1..k
    BY <1>1, <1>6
  <2>2. QED
    BY <2>1, <1>6, ReplayStep
<1>9. At(ops, k) = {}
  BY <1>1, <1>6 DEF At, Bounded
<1>10. Replay(ops, k)[k - 1] = v(k - 1)
  <2>1. k - 1 \in Nat /\ k - 1 <= k
    BY <1>1, <1>6
  <2> DEFINE l == k - 1
  <2> HIDE DEF l
  <2>2. Replay(ops, k)[l] = Replay(ops, l)[l]
    BY <2>1, <1>6, ReplayAgrees DEF l
  <2>3. QED
    BY <2>2 DEF l
<1>11. v(k) = FoldState(ops)
  BY <1>7, <1>8, <1>9, <1>10, NoGroup
<1>12. QED
  BY <1>5, <1>11

LEMMA FoldEmpty == FoldState({}) = Start
<1>1. FoldState({}) = Replay({}, 0)[0]
  BY FoldAt DEF Bounded
<1>2. QED
  BY <1>1, ReplayStep

(* One more op, later than every op of the log. *)
LEMMA FoldAdd ==
  ASSUME NEW ops, NEW n \in Nat, Bounded(ops, n),
         NEW op, op.lamport \in Nat, op.lamport > n
  PROVE  FoldState(ops \cup {op}) = ApplyGroup(FoldState(ops), {op})
<1> DEFINE l == op.lamport
           k == l - 1
           more == ops \cup {op}
<1>1. l \in Nat /\ k \in Nat /\ k <= l /\ l \in 1..l
  OBVIOUS
<1>2. Bounded(ops, k) /\ Bounded(more, l)
  BY DEF Bounded
<1>3. FoldState(ops) = Replay(ops, k)[k] /\ FoldState(more) = Replay(more, l)[l]
  BY <1>1, <1>2, FoldAt
<1>4. Replay(more, l)[l] = ApplyGroup(Replay(more, l)[l - 1], At(more, l))
  BY <1>1, ReplayStep
<1>5. At(more, l) = {op}
  BY DEF At, Bounded
<1>6. \A m \in 1..k : At(more, m) = At(ops, m)
  BY DEF At
<1>7. Replay(more, l)[k] = Replay(ops, k)[k]
  <2> HIDE DEF l, k, more
  <2>1. QED
    BY <1>1, <1>6, ReplayAgrees
<1>8. QED
  BY <1>3, <1>4, <1>5, <1>7

-----------------------------------------------------------------------------
(* Logs in which no two ops share a lamport, as one replica writes them.   *)

Serial(ops, n) ==
  /\ \A o \in ops : o.lamport \in 1..n /\ o.id \in Nat
  /\ \A a, b \in ops : a.lamport = b.lamport => a = b

IsAcc(acc) ==
  /\ acc = [exists |-> acc.exists, dead |-> acc.dead, status |-> acc.status,
            content |-> acc.content, diag |-> acc.diag]
  /\ acc.exists \in BOOLEAN /\ acc.dead \in BOOLEAN

LEMMA SerialGroup ==
  ASSUME NEW ops, NEW n \in Nat, Serial(ops, n), NEW m
  PROVE  At(ops, m) = {} \/ \E op \in ops : At(ops, m) = {op}
BY DEF At, Serial

LEMMA ApplyKeepsAcc ==
  ASSUME NEW acc, IsAcc(acc), NEW op
  PROVE  IsAcc(ApplyOp(acc, op)) /\ IsAcc([acc EXCEPT !.status = op.status])
<1> DEFINE e == acc.exists
           d == acc.dead
           s == acc.status
           c == acc.content
           g == acc.diag
           rec == [exists |-> e, dead |-> d, status |-> s, content |-> c, diag |-> g]
<1>1. acc = rec /\ e \in BOOLEAN /\ d \in BOOLEAN
  BY DEF IsAcc
<1>2. ApplyOp(acc, op) = ApplyOp(rec, op)
  BY <1>1
<1> HIDE DEF e, d, s, c, g
<1>3. IsAcc(ApplyOp(rec, op))
  <2>1. CASE op.type = "create"
    BY <1>1, <2>1 DEF IsAcc, ApplyOp
  <2>2. CASE op.type = "set_field"
    BY <1>1, <2>2 DEF IsAcc, ApplyOp
  <2>3. CASE op.type \in {"snapshot", "merge"}
    BY <1>1, <2>3 DEF IsAcc, ApplyOp
  <2>4. CASE op.type = "tombstone"
    BY <1>1, <2>4 DEF IsAcc, ApplyOp
  <2>5. CASE op.type \notin {"create", "set_field", "snapshot", "merge", "tombstone"}
    BY <1>1, <2>5 DEF IsAcc, ApplyOp
  <2>6. QED
    BY <2>1, <2>2, <2>3, <2>4, <2>5
<1>4. IsAcc([rec EXCEPT !.status = op.status])
  BY <1>1 DEF IsAcc
<1>5. QED
  BY <1>1, <1>2, <1>3, <1>4

LEMMA LoneKeepsAcc ==
  ASSUME NEW acc, IsAcc(acc), NEW op, op.id \in Nat
  PROVE  IsAcc(ApplyGroup(acc, {op}))
<1> DEFINE a == ApplyOp(acc, op)
           b == [acc EXCEPT !.status = op.status]
<1>1. ApplyGroup(acc, {op}) = IF op.type \in StatusOps THEN b ELSE a
  BY LoneGroup
<1>2. IsAcc(a) /\ IsAcc(b)
  BY ApplyKeepsAcc
<1> HIDE DEF a, b
<1>3. QED
  BY <1>1, <1>2

LEMMA ReplayIsAcc ==
  ASSUME NEW ops, NEW n \in Nat, Serial(ops, n), NEW j \in 0..n
  PROVE  IsAcc(Replay(ops, n)[j])
<1> DEFINE f == Replay(ops, n)
           Bad == {k \in 0..n : ~IsAcc(f[k])}
<1>1. SUFFICES Bad = {}
  OBVIOUS
<1>3. SUFFICES ASSUME Bad # {} PROVE FALSE
  OBVIOUS
<1>4. PICK k \in Bad : \A i \in Bad : k <= i
  <2>1. Bad \in SUBSET Nat
    OBVIOUS
  <2> HIDE DEF Bad
  <2>2. QED
    BY <1>3, <2>1, NatMin
<1>5. f[0] = Start
  BY ReplayStep
<1>6. IsAcc(Start)
  BY DEF IsAcc, Start
<1>7. k \in 1..n /\ k - 1 \in 0..n
  BY <1>4, <1>5, <1>6
<1>8. f[k] = ApplyGroup(f[k - 1], At(ops, k))
  BY <1>7, ReplayStep
<1>9. IsAcc(f[k - 1])
  BY <1>4, <1>7
<1> HIDE DEF f
<1>10. CASE At(ops, k) = {}
  BY <1>4, <1>8, <1>9, <1>10, NoGroup
<1>11. ASSUME NEW op \in ops, At(ops, k) = {op} PROVE FALSE
  <2>1. op.id \in Nat
    BY DEF Serial
  <2>2. QED
    BY <1>4, <1>8, <1>9, <1>11, <2>1, LoneKeepsAcc
<1>12. QED
  BY <1>10, <1>11, SerialGroup

LEMMA FoldIsAcc ==
  ASSUME NEW ops, NEW n \in Nat, Serial(ops, n)
  PROVE  IsAcc(FoldState(ops))
<1>1. FoldState(ops) = Replay(ops, n)[n]
  BY FoldAt DEF Serial, Bounded
<1>2. QED
  BY <1>1, ReplayIsAcc

(* What one op does to the mark of deletion. *)
LEMMA LoneDead ==
  ASSUME NEW acc, IsAcc(acc), NEW op, op.id \in Nat
  PROVE  /\ op.type = "tombstone" => ApplyGroup(acc, {op}).dead
         /\ op.type = "snapshot" => ~ApplyGroup(acc, {op}).dead
         /\ op.type # "snapshot" /\ acc.dead => ApplyGroup(acc, {op}).dead
         /\ op.type # "tombstone" /\ ~acc.dead => ~ApplyGroup(acc, {op}).dead
<1> DEFINE new == ApplyGroup(acc, {op})
<1>1. new = IF op.type \in StatusOps THEN [acc EXCEPT !.status = op.status]
            ELSE ApplyOp(acc, op)
  BY LoneGroup
<1>2. {"exists", "dead", "status", "content", "diag"} = DOMAIN acc /\ acc.dead \in BOOLEAN
  BY DEF IsAcc
<1> HIDE DEF new
<1>3. CASE op.type \in StatusOps
  <2>1. new = [acc EXCEPT !.status = op.status]
    BY <1>1, <1>3
  <2>2. new.dead = acc.dead
    BY <1>2, <2>1
  <2>3. QED
    BY <1>3, <2>2 DEF StatusOps, new
<1>4. CASE op.type = "create"
  <2>1. new = [acc EXCEPT !.exists = op.content # NoContent, !.status = op.status,
                          !.content = op.content, !.diag = op.diag]
    BY <1>1, <1>4 DEF ApplyOp, StatusOps
  <2>2. new.dead = acc.dead
    BY <1>2, <2>1
  <2>3. QED
    BY <1>4, <2>2 DEF new
<1>5. CASE op.type = "set_field"
  <2>1. new = [acc EXCEPT !.content = IF op.content = Keep THEN @ ELSE op.content,
                          !.diag = @ \cup op.diag]
    BY <1>1, <1>5 DEF ApplyOp, StatusOps
  <2>2. new.dead = acc.dead
    BY <1>2, <2>1
  <2>3. QED
    BY <1>5, <2>2 DEF new
<1>6. CASE op.type \in {"snapshot", "merge"}
  <2>1. new = [exists |-> TRUE, status |-> op.status, content |-> op.content,
               diag |-> op.diag, dead |-> acc.dead /\ op.type = "merge"]
    BY <1>1, <1>6 DEF ApplyOp, StatusOps
  <2>2. new.dead = (acc.dead /\ op.type = "merge")
    BY <2>1
  <2>3. QED
    BY <1>2, <1>6, <2>2 DEF new
<1>7. CASE op.type = "tombstone"
  <2>1. new = [acc EXCEPT !.dead = TRUE]
    BY <1>1, <1>7 DEF ApplyOp, StatusOps
  <2>2. new.dead = TRUE
    BY <1>2, <2>1
  <2>3. QED
    BY <1>7, <2>2 DEF new
<1>8. CASE op.type \notin StatusOps \cup {"create", "set_field", "snapshot", "merge", "tombstone"}
  <2>1. new = acc
    BY <1>1, <1>8 DEF ApplyOp
  <2>2. QED
    BY <1>8, <2>1 DEF new
<1>9. QED
  BY <1>3, <1>4, <1>5, <1>6, <1>7, <1>8

-----------------------------------------------------------------------------
(* Deletion.                                                               *)

(* A log without a tombstone folds to an entity that was not deleted. *)
LEMMA NoStone ==
  ASSUME NEW ops, NEW n \in Nat, Serial(ops, n), \A o \in ops : o.type # "tombstone"
  PROVE  ~FoldState(ops).dead
<1> DEFINE f == Replay(ops, n)
           Bad == {k \in 0..n : ~(IsAcc(f[k]) /\ ~f[k].dead)}
<1>1. FoldState(ops) = f[n]
  BY FoldAt DEF Serial, Bounded
<1>2. SUFFICES ASSUME Bad # {} PROVE FALSE
  BY <1>1
<1>3. PICK k \in Bad : \A j \in Bad : k <= j
  <2>1. Bad \in SUBSET Nat
    OBVIOUS
  <2> HIDE DEF Bad
  <2>2. QED
    BY <1>2, <2>1, NatMin
<1>4. f[0] = Start
  BY ReplayStep
<1>5. k \in 1..n /\ k - 1 \in 0..n
  <2>1. IsAcc(Start) /\ ~Start.dead
    BY DEF IsAcc, Start
  <2>2. k # 0
    BY <1>3, <1>4, <2>1
  <2>3. QED
    BY <1>3, <2>2
<1>6. f[k] = ApplyGroup(f[k - 1], At(ops, k))
  BY <1>5, ReplayStep
<1>7. IsAcc(f[k - 1]) /\ ~f[k - 1].dead
  BY <1>3, <1>5
<1> HIDE DEF f
<1>8. CASE At(ops, k) = {}
  BY <1>3, <1>6, <1>7, <1>8, NoGroup
<1>9. ASSUME NEW op \in ops, At(ops, k) = {op} PROVE FALSE
  <2>1. op.id \in Nat /\ op.type # "tombstone"
    BY DEF Serial
  <2>2. IsAcc(f[k])
    BY <1>6, <1>7, <1>9, <2>1, LoneKeepsAcc
  <2>3. ~f[k].dead
    BY <1>6, <1>7, <1>9, <2>1, LoneDead
  <2>4. QED
    BY <1>3, <2>2, <2>3
<1>10. QED
  BY <1>8, <1>9, SerialGroup

(* With a tombstone and no later snapshot it was. *)
LEMMA Stone ==
  ASSUME NEW ops, NEW n \in Nat, Serial(ops, n), \A o \in ops : o.type # "snapshot",
         NEW t \in ops, t.type = "tombstone"
  PROVE  FoldState(ops).dead
<1> DEFINE f == Replay(ops, n)
           Bad == {k \in t.lamport..n : ~f[k].dead}
<1>1. FoldState(ops) = f[n]
  BY FoldAt DEF Serial, Bounded
<1>2. t.lamport \in 1..n
  BY DEF Serial
<1>3. SUFFICES ASSUME Bad # {} PROVE FALSE
  BY <1>1, <1>2
<1>4. PICK k \in Bad : \A j \in Bad : k <= j
  <2>1. Bad \in SUBSET Nat
    BY <1>2
  <2> HIDE DEF Bad
  <2>2. QED
    BY <1>3, <2>1, NatMin
<1>5. k \in 1..n /\ k - 1 \in 0..n /\ k - 1 \in Nat /\ k - 1 <= n
  BY <1>2, <1>4
<1>6. f[k] = ApplyGroup(f[k - 1], At(ops, k))
  BY <1>5, ReplayStep
<1>7. IsAcc(f[k - 1])
  BY <1>5, ReplayIsAcc
<1>8. CASE k = t.lamport
  <2>1. At(ops, k) = {t} /\ t.id \in Nat
    BY <1>8 DEF At, Serial
  <2> HIDE DEF f
  <2>2. f[k].dead
    BY <1>6, <1>7, <2>1, LoneDead
  <2>3. QED
    BY <1>4, <2>2
<1>9. CASE k # t.lamport
  <2>1. f[k - 1].dead
    BY <1>2, <1>4, <1>9
  <2> HIDE DEF f
  <2>2. CASE At(ops, k) = {}
    BY <1>4, <1>6, <2>1, <2>2, NoGroup
  <2>3. ASSUME NEW op \in ops, At(ops, k) = {op} PROVE FALSE
    <3>1. op.id \in Nat /\ op.type # "snapshot"
      BY DEF Serial
    <3>2. f[k].dead
      BY <1>6, <1>7, <2>1, <2>3, <3>1, LoneDead
    <3>3. QED
      BY <1>4, <3>2
  <2>4. QED
    BY <2>2, <2>3, SerialGroup
<1>10. QED
  BY <1>8, <1>9

-----------------------------------------------------------------------------
(* The verifier's walk: the status it sees at a lamport is that of the     *)
(* last create or status op up to it.                                      *)

Moves(ops) == {o \in ops : o.type \in StatusOps \cup {"create"}}

IsLast(q, ops, m) ==
  /\ q \in Moves(ops) /\ q.lamport <= m
  /\ \A x \in Moves(ops) : x.lamport <= m => x.lamport <= q.lamport

Seen(ops, m) ==
  IF \E q : IsLast(q, ops, m) THEN (CHOOSE q : IsLast(q, ops, m)).status ELSE NoStatus

LEMMA SeenIs ==
  ASSUME NEW ops, NEW n \in Nat, Serial(ops, n), NEW m, NEW q, IsLast(q, ops, m)
  PROVE  Seen(ops, m) = q.status
<1>1. PICK c : c = CHOOSE x : IsLast(x, ops, m)
  OBVIOUS
<1>2. IsLast(c, ops, m)
  BY <1>1
<1>3. c.lamport <= q.lamport /\ q.lamport <= c.lamport /\ c \in ops /\ q \in ops
  BY <1>2 DEF IsLast, Moves
<1>4. c = q
  BY <1>3 DEF Serial
<1>5. QED
  BY <1>1, <1>4 DEF Seen

LEMMA SeenSome ==
  ASSUME NEW ops, NEW m, Seen(ops, m) # NoStatus
  PROVE  \E q \in ops : IsLast(q, ops, m) /\ q.status = Seen(ops, m)
<1>1. PICK c : c = CHOOSE x : IsLast(x, ops, m)
  OBVIOUS
<1>2. IsLast(c, ops, m) /\ c.status = Seen(ops, m)
  BY <1>1 DEF Seen
<1>3. c \in ops
  BY <1>2 DEF IsLast, Moves
<1>4. QED
  BY <1>2, <1>3

(* One lamport further. *)
WalkStep(ops, m, before) ==
  LET group   == {o \in ops : o.lamport = m}
      status  == {o \in group : o.type \in StatusOps}
      creates == {o \in group : o.type = "create"}
  IN  IF m = 0 THEN NoStatus
      ELSE IF status # {} THEN Winner(status).status
      ELSE IF creates # {} THEN (CHOOSE o \in creates : TRUE).status
      ELSE before

LEMMA LoneWinner ==
  ASSUME NEW op, op.id \in Nat
  PROVE  Winner({op}) = op
BY DEF Winner

LEMMA SeenNext ==
  ASSUME NEW ops, NEW n \in Nat, Serial(ops, n), NEW m \in 0..n
  PROVE  Seen(ops, m) = WalkStep(ops, m, Seen(ops, m - 1))
<1>1. CASE m = 0
  <2>1. ~\E q : IsLast(q, ops, m)
    BY <1>1 DEF IsLast, Moves, Serial
  <2>2. QED
    BY <1>1, <2>1 DEF Seen, WalkStep
<1>2. ASSUME NEW x \in Moves(ops), x.lamport = m
      PROVE  Seen(ops, m) = WalkStep(ops, m, Seen(ops, m - 1))
  <2>1. x \in ops /\ m # 0 /\ x.id \in Nat
    BY <1>2 DEF Moves, Serial
  <2>2. IsLast(x, ops, m)
    BY <1>2 DEF IsLast, Moves, Serial
  <2>3. Seen(ops, m) = x.status
    BY <2>2, SeenIs
  <2>4. {o \in ops : o.lamport = m} = {x}
    BY <1>2, <2>1 DEF Serial
  <2>5. CASE x.type \in StatusOps
    <3>1. {o \in {x} : o.type \in StatusOps} = {x} /\ Winner({x}) = x
      BY <2>1, <2>5, LoneWinner
    <3>2. QED
      BY <2>1, <2>3, <2>4, <3>1 DEF WalkStep
  <2>6. CASE x.type \notin StatusOps
    <3>1. {o \in {x} : o.type \in StatusOps} = {} /\ {o \in {x} : o.type = "create"} = {x}
      BY <1>2, <2>6 DEF Moves
    <3>2. (CHOOSE o \in {x} : TRUE) = x
      OBVIOUS
    <3>3. QED
      BY <2>1, <2>3, <2>4, <3>1, <3>2 DEF WalkStep
  <2>7. QED
    BY <2>5, <2>6
<1>3. ASSUME m # 0, \A x \in Moves(ops) : x.lamport # m
      PROVE  Seen(ops, m) = WalkStep(ops, m, Seen(ops, m - 1))
  <2>1. WalkStep(ops, m, Seen(ops, m - 1)) = Seen(ops, m - 1)
    <3>1. /\ {o \in {o \in ops : o.lamport = m} : o.type \in StatusOps} = {}
          /\ {o \in {o \in ops : o.lamport = m} : o.type = "create"} = {}
      BY <1>3 DEF Moves
    <3>2. QED
      BY <1>3, <3>1 DEF WalkStep
  <2>2. \A x \in Moves(ops) : x.lamport \in Nat /\ x.lamport # m
    BY <1>3 DEF Moves, Serial
  <2>3. \A x \in Moves(ops) : x.lamport <= m <=> x.lamport <= m - 1
    BY <2>2
  <2>4. \A q : IsLast(q, ops, m) <=> IsLast(q, ops, m - 1)
    BY <2>3 DEF IsLast
  <2>5. CASE \E q : IsLast(q, ops, m)
    <3>1. PICK q : IsLast(q, ops, m)
      BY <2>5
    <3>2. Seen(ops, m) = q.status /\ Seen(ops, m - 1) = q.status
      BY <2>4, <3>1, SeenIs
    <3>3. QED
      BY <2>1, <3>2
  <2>6. CASE ~\E q : IsLast(q, ops, m)
    <3>1. Seen(ops, m) = NoStatus /\ Seen(ops, m - 1) = NoStatus
      BY <2>4, <2>6 DEF Seen
    <3>2. QED
      BY <2>1, <3>1
  <2>7. QED
    BY <2>5, <2>6
<1>4. QED
  BY <1>1, <1>2, <1>3

(* The walk is what the verifier computes. *)
LEMMA WalkIsSeen ==
  ASSUME NEW ops, NEW n \in Nat, Serial(ops, n)
  PROVE  \A m \in 0..MaxLamport(ops) : SeenStatus(ops)[m] = Seen(ops, m)
<1>1. PICK k : k = MaxLamport(ops)
  OBVIOUS
<1>2. k \in Nat /\ k <= n /\ Serial(ops, k)
  BY <1>1, MaxBounds DEF Serial, Bounded
<1>3. PICK f : f = SeenStatus(ops)
  OBVIOUS
<1>4. f = CHOOSE g : g = [m \in 0..k |-> WalkStep(ops, m, g[m - 1])]
  BY <1>1, <1>3 DEF SeenStatus, WalkStep
<1>5. \E g : g = [m \in 0..k |-> WalkStep(ops, m, g[m - 1])]
  <2>1. PICK g : g = [m \in 0..k |-> Seen(ops, m)]
    OBVIOUS
  <2>2. \A m \in 0..k : Seen(ops, m) = WalkStep(ops, m, g[m - 1])
    <3>1. ASSUME NEW m \in 0..k PROVE Seen(ops, m) = WalkStep(ops, m, g[m - 1])
      <4>1. Seen(ops, m) = WalkStep(ops, m, Seen(ops, m - 1))
        BY <1>2, SeenNext
      <4>2. m # 0 => g[m - 1] = Seen(ops, m - 1)
        BY <1>2, <2>1
      <4>3. CASE m = 0
        BY <4>1, <4>3 DEF WalkStep
      <4>4. CASE m # 0
        BY <4>1, <4>2, <4>4
      <4>5. QED
        BY <4>3, <4>4
    <3>2. QED
      BY <3>1
  <2>3. [m \in 0..k |-> Seen(ops, m)] = [m \in 0..k |-> WalkStep(ops, m, g[m - 1])]
    BY <2>2
  <2>4. QED
    BY <2>1, <2>3
<1>6. f = [m \in 0..k |-> WalkStep(ops, m, f[m - 1])]
  BY <1>4, <1>5
<1>7. \A m \in 0..k : f[m] = WalkStep(ops, m, f[m - 1])
  BY <1>6
<1> DEFINE Bad == {m \in 0..k : f[m] # Seen(ops, m)}
<1>8. SUFFICES ASSUME Bad # {} PROVE FALSE
  BY <1>1, <1>3
<1>9. PICK m \in Bad : \A j \in Bad : m <= j
  <2>1. Bad \in SUBSET Nat
    BY <1>2
  <2> HIDE DEF Bad
  <2>2. QED
    BY <1>8, <2>1, NatMin
<1>10. m \in 0..k /\ f[m] # Seen(ops, m)
  BY <1>9
<1>11. f[m] = WalkStep(ops, m, f[m - 1]) /\ Seen(ops, m) = WalkStep(ops, m, Seen(ops, m - 1))
  BY <1>2, <1>7, <1>10, SeenNext
<1>12. m # 0
  BY <1>10, <1>11 DEF WalkStep
<1>13. m - 1 \in 0..k /\ m - 1 \notin Bad
  BY <1>2, <1>9, <1>10, <1>12
<1>14. f[m - 1] = Seen(ops, m - 1)
  BY <1>13
<1>15. QED
  BY <1>10, <1>11, <1>14

(* A transition is one status op, from the status seen before it.          *)
IsMove(t, x, ops) ==
  /\ x \in ops /\ x.type \in StatusOps
  /\ t.at = x.lamport /\ t.op = x /\ t.to = x.status
  /\ t.from = Seen(ops, x.lamport - 1)

LEMMA TransitionIsMove ==
  ASSUME NEW ops, NEW n \in Nat, Serial(ops, n), NEW t \in Transitions(ops)
  PROVE  \E x : IsMove(t, x, ops)
<1>1. PICK seen : seen = SeenStatus(ops)
  OBVIOUS
<1>2. PICK k : k = MaxLamport(ops)
  OBVIOUS
<1>3. k \in Nat /\ k <= n
  BY <1>2, MaxBounds DEF Serial, Bounded
<1>4. PICK m \in 1..k :
        /\ \E o \in ops : o.lamport = m /\ o.type \in StatusOps
        /\ t = [at |-> m, from |-> seen[m - 1], to |-> seen[m],
                op |-> Winner({o \in ops : o.lamport = m /\ o.type \in StatusOps})]
  BY <1>1, <1>2 DEF Transitions
<1>5. PICK x \in ops : x.lamport = m /\ x.type \in StatusOps
  BY <1>4
<1>6. {o \in ops : o.lamport = m /\ o.type \in StatusOps} = {x} /\ x.id \in Nat
  BY <1>5 DEF Serial
<1>7. t.at = m /\ t.from = seen[m - 1] /\ t.to = seen[m] /\ t.op = x
  BY <1>4, <1>6, LoneWinner
<1>8. seen[m] = Seen(ops, m) /\ seen[m - 1] = Seen(ops, m - 1)
  BY <1>1, <1>2, <1>3, WalkIsSeen
<1>9. IsLast(x, ops, m)
  BY <1>5 DEF IsLast, Moves, Serial
<1>10. Seen(ops, m) = x.status
  BY <1>9, SeenIs
<1>11. IsMove(t, x, ops)
  BY <1>5, <1>7, <1>8, <1>10 DEF IsMove
<1>12. QED
  BY <1>11

(* A nonempty set of transitions has a last one. *)
LEMMA LastTransition ==
  ASSUME NEW ops, NEW n \in Nat, Serial(ops, n),
         NEW ends \in SUBSET Transitions(ops), ends # {}
  PROVE  \E t \in ends : \A e \in ends : e.at <= t.at
<1>1. \A t \in ends : t.at \in 0..n
  BY TransitionIsMove DEF IsMove, Serial
<1> DEFINE T == {n - t.at : t \in ends}
<1>2. T \in SUBSET Nat /\ T # {}
  BY <1>1
<1>3. PICK d \in T : \A e \in T : d <= e
  <2> HIDE DEF T
  <2>1. QED
    BY <1>2, NatMin
<1>4. PICK t \in ends : d = n - t.at
  BY <1>3
<1>5. \A e \in ends : n - t.at <= n - e.at
  BY <1>3, <1>4
<1>6. QED
  BY <1>1, <1>4, <1>5
=============================================================================
