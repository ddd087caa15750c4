------------------------ MODULE CommandBuffers_proofs ------------------------
(***************************************************************************)
(* Theorems about CommandBuffers, for any numbers of inferences, arguments *)
(* and handles.                                                            *)
(*                                                                         *)
(* First come the loops: what adding and removing handles does to a list,  *)
(* and what a round of updateCommands does to a command buffer.  The       *)
(* invariant ListInv needs nothing of the application.  On top of it, each *)
(* property has an invariant of its own (IndexInv, OpenInv, CompleteInv),  *)
(* and names the uses of a list that it does not survive (Avoid).          *)
(***************************************************************************)
EXTENDS CommandBuffers, FiniteSetTheorems, SequenceTheorems, WellFoundedInduction, TLAPS

-----------------------------------------------------------------------------
(* Induction along an interval, and a loop along it.                       *)

\* The least element of a set of naturals.
LEMMA Least ==
    ASSUME NEW T \in SUBSET Nat, T # {}
    PROVE  \E x \in T : \A y \in T : x <= y
<1>1. PICK x \in T : \A y \in T : ~(<<y, x>> \in OpToRel(<, Nat))
  BY WFMin, NatLessThanWellFounded
<1>2. \A y \in T : ~(y < x)
  BY <1>1 DEF OpToRel
<1>. QED
  BY <1>2

\* What holds of 0 and goes from one number to the next holds up to n.
LEMMA UpTo ==
    ASSUME NEW n \in Nat, NEW S, 0 \in S, \A i \in 1 .. n : i - 1 \in S => i \in S
    PROVE  \A i \in 0 .. n : i \in S
<1>. DEFINE T == {i \in 0 .. n : i \notin S}
<1>1. SUFFICES ASSUME T # {} PROVE FALSE
  OBVIOUS
<1>2. PICK x \in T : \A y \in T : x <= y
  <2>1. T \in SUBSET Nat
    OBVIOUS
  <2>. HIDE DEF T
  <2>. QED
    BY <1>1, <2>1, Least
<1>3. x \in 1 .. n /\ x - 1 \in 0 .. n /\ x - 1 \notin T
  BY <1>2
<1>. QED
  BY <1>3

\* The values of a loop: n rounds from x0 on, round i applies G[i].
Rounds(f, X, x0, n, G) ==
    /\ f \in [0 .. n -> X]
    /\ f[0] = x0
    /\ \A i \in 1 .. n : f[i] = G[i][f[i - 1]]

LEMMA Loop ==
    ASSUME NEW X, NEW x0 \in X, NEW n \in Nat, NEW G \in [1 .. n -> [X -> X]]
    PROVE  \E f : Rounds(f, X, x0, n, G)
<1>. DEFINE Run(m, f) == f[0] = x0 /\ \A i \in 1 .. m : f[i] = G[i][f[i - 1]]
            S == {m \in 0 .. n : \E f \in [0 .. m -> X] : Run(m, f)}
<1>1. 0 \in S
  <2>. DEFINE f0 == [i \in 0 .. 0 |-> x0]
  <2>1. f0 \in [0 .. 0 -> X]
    OBVIOUS
  <2>2. f0[0] = x0
    OBVIOUS
  <2>3. Run(0, f0)
    BY <2>2
  <2>. HIDE DEF f0, Run
  <2>. QED
    BY <2>1, <2>3
<1>2. ASSUME NEW m \in 1 .. n, m - 1 \in S PROVE m \in S
  <2>1. PICK f \in [0 .. m - 1 -> X] : Run(m - 1, f)
    BY <1>2
  <2>. DEFINE g == [i \in 0 .. m |-> IF i = m THEN G[m][f[m - 1]] ELSE f[i]]
  <2>2. G[m][f[m - 1]] \in X
    OBVIOUS
  <2>3. g \in [0 .. m -> X]
    BY <2>2
  <2>4. g[0] = x0
    BY <2>1
  <2>5. ASSUME NEW i \in 1 .. m PROVE g[i] = G[i][g[i - 1]]
    <3>1. g[i - 1] = f[i - 1]
      OBVIOUS
    <3>2. CASE i = m
      BY <3>1, <3>2
    <3>3. CASE i # m
      BY <3>1, <3>3, <2>1
    <3>. QED
      BY <3>2, <3>3
  <2>. HIDE DEF g
  <2>6. Run(m, g)
    BY <2>4, <2>5
  <2>. HIDE DEF Run
  <2>. QED
    BY <2>3, <2>6
<1>3. n \in S
  <2>. HIDE DEF S
  <2>1. \A i \in 1 .. n : i - 1 \in S => i \in S
    BY <1>2
  <2>2. \A i \in 0 .. n : i \in S
    BY <1>1, <2>1, UpTo
  <2>. QED
    BY <2>2
<1>. QED
  BY <1>3 DEF Rounds

\* A function that follows the rounds while it is in X stays in X.
LEMMA Stays ==
    ASSUME NEW X, NEW x0 \in X, NEW n \in Nat, NEW G \in [1 .. n -> [X -> X]],
           NEW g, g = [i \in 0 .. n |-> g[i]], g[0] = x0,
           \A i \in 1 .. n : g[i - 1] \in X => g[i] = G[i][g[i - 1]]
    PROVE  Rounds(g, X, x0, n, G)
<1>. DEFINE S == {i \in 0 .. n : g[i] \in X}
<1>1. 0 \in S
  OBVIOUS
<1>2. ASSUME NEW i \in 1 .. n, i - 1 \in S PROVE i \in S
  <2>1. g[i - 1] \in X /\ i \in 0 .. n
    BY <1>2
  <2>2. G[i][g[i - 1]] \in X
    BY <2>1
  <2>. QED
    BY <2>1, <2>2
<1>3. \A i \in 0 .. n : g[i] \in X
  <2>1. \A i \in 0 .. n : i \in S
    <3>. HIDE DEF S
    <3>. QED
      BY <1>1, <1>2, UpTo
  <2>. QED
    BY <2>1
<1>4. ASSUME NEW i \in 1 .. n PROVE g[i] = G[i][g[i - 1]]
  <2>1. i - 1 \in 0 .. n
    OBVIOUS
  <2>. QED
    BY <2>1, <1>3
<1>. QED
  BY <1>3, <1>4 DEF Rounds

-----------------------------------------------------------------------------
(* Lists of handles.                                                       *)

LEMMA AddUnique ==
    ASSUME NEW s \in Seq(Nat), NEW h \in Nat
    PROVE  /\ AddUniqueBoHandle(s, h) \in Seq(Nat)
           /\ ToSet(AddUniqueBoHandle(s, h)) = ToSet(s) \cup {h}
           /\ Len(s) <= Len(AddUniqueBoHandle(s, h))
           /\ \A i \in 1 .. Len(s) : AddUniqueBoHandle(s, h)[i] = s[i]
<1>1. CASE h \in ToSet(s)
  BY <1>1 DEF AddUniqueBoHandle
<1>2. CASE h \notin ToSet(s)
  <2>1. AddUniqueBoHandle(s, h) = Append(s, h)
    BY <1>2 DEF AddUniqueBoHandle
  <2>2. ToSet(Append(s, h)) = ToSet(s) \cup {h}
    <3>1. Len(Append(s, h)) = Len(s) + 1 /\ Append(s, h)[Len(s) + 1] = h
          /\ \A i \in 1 .. Len(s) : Append(s, h)[i] = s[i]
      OBVIOUS
    <3>2. DOMAIN s = 1 .. Len(s) /\ DOMAIN Append(s, h) = 1 .. Len(s) + 1
      OBVIOUS
    <3>. QED
      BY <3>1, <3>2 DEF ToSet
  <2>. QED
    BY <2>1, <2>2
<1>. QED
  BY <1>1, <1>2

\* The rounds of AddHandles.
LEMMA AddRounds ==
    ASSUME NEW s \in Seq(Nat), NEW new \in Seq(Nat)
    PROVE  \E f \in [0 .. Len(new) -> Seq(Nat)] :
              /\ f[0] = s
              /\ \A i \in 1 .. Len(new) : f[i] = AddUniqueBoHandle(f[i - 1], new[i])
              /\ AddHandles(s, new) = f[Len(new)]
<1>. DEFINE n == Len(new)
            X == Seq(Nat)
            G == [i \in 1 .. n |-> [x \in X |-> AddUniqueBoHandle(x, new[i])]]
            F(f) == [i \in 0 .. n |->
                        IF i = 0 THEN s ELSE AddUniqueBoHandle(f[i - 1], new[i])]
            g == CHOOSE f : f = F(f)
<1>1. n \in Nat /\ s \in X
  OBVIOUS
<1>2. G \in [1 .. n -> [X -> X]]
  BY AddUnique
<1>3. ASSUME NEW f, Rounds(f, X, s, n, G) PROVE f = F(f)
  <2>1. ASSUME NEW i \in 0 .. n PROVE f[i] = F(f)[i]
    <3>1. CASE i = 0
      BY <1>3, <3>1 DEF Rounds
    <3>2. CASE i # 0
      <4>1. i \in 1 .. n /\ i - 1 \in 0 .. n
        BY <1>1, <3>2
      <4>2. f[i - 1] \in X /\ f[i] = G[i][f[i - 1]]
        <5>. HIDE DEF G, X, n
        <5>. QED
          BY <1>3, <4>1 DEF Rounds
      <4>. QED
        BY <4>1, <4>2, <3>2
    <3>. QED
      BY <3>1, <3>2
  <2>2. F(f) = [i \in 0 .. n |-> F(f)[i]]
    OBVIOUS
  <2>3. f = [i \in 0 .. n |-> f[i]]
    BY <1>3 DEF Rounds
  <2>. HIDE DEF F
  <2>. QED
    BY <2>1, <2>2, <2>3
<1>4. PICK f : Rounds(f, X, s, n, G)
  <2>. HIDE DEF G, X, n
  <2>. QED
    BY <1>1, <1>2, Loop
<1>5. g = F(g)
  <2>. HIDE DEF F
  <2>. QED
    BY <1>3, <1>4
<1>6. AddHandles(s, new) = g[n]
  BY DEF AddHandles
<1>. HIDE DEF g
<1>7. Rounds(g, X, s, n, G)
  <2>1. g = [i \in 0 .. n |-> g[i]] /\ g[0] = s
    BY <1>1, <1>5
  <2>2. ASSUME NEW i \in 1 .. n, g[i - 1] \in X PROVE g[i] = G[i][g[i - 1]]
    <3>1. i \in 0 .. n /\ i # 0
      BY <1>1
    <3>2. g[i] = F(g)[i]
      BY <1>5
    <3>. QED
      BY <3>1, <3>2, <2>2
  <2>. HIDE DEF G, X, n
  <2>. QED
    BY <1>1, <1>2, <2>1, <2>2, Stays
<1>8. g \in [0 .. n -> X] /\ g[0] = s /\ \A i \in 1 .. n : g[i - 1] \in X /\ g[i] = G[i][g[i - 1]]
  <2>1. \A i \in 1 .. n : i - 1 \in 0 .. n
    BY <1>1
  <2>. HIDE DEF G, X, n
  <2>. QED
    BY <1>7, <2>1 DEF Rounds
<1>. HIDE DEF F
<1>. QED
  BY <1>6, <1>8

\* AddHandles appends what is new, and keeps the handles at their places.
LEMMA Added ==
    ASSUME NEW s \in Seq(Nat), NEW new \in Seq(Nat)
    PROVE  /\ AddHandles(s, new) \in Seq(Nat)
           /\ ToSet(AddHandles(s, new)) = ToSet(s) \cup ToSet(new)
           /\ Len(s) <= Len(AddHandles(s, new))
           /\ \A j \in 1 .. Len(s) : AddHandles(s, new)[j] = s[j]
<1>1. PICK f \in [0 .. Len(new) -> Seq(Nat)] :
         /\ f[0] = s
         /\ \A i \in 1 .. Len(new) : f[i] = AddUniqueBoHandle(f[i - 1], new[i])
         /\ AddHandles(s, new) = f[Len(new)]
  BY AddRounds
<1>. DEFINE S == {i \in 0 .. Len(new) :
                    /\ ToSet(f[i]) = ToSet(s) \cup {new[j] : j \in 1 .. i}
                    /\ Len(s) <= Len(f[i])
                    /\ \A j \in 1 .. Len(s) : f[i][j] = s[j]}
<1>2. 0 \in S
  BY <1>1
<1>3. ASSUME NEW i \in 1 .. Len(new), i - 1 \in S PROVE i \in S
  <2>1. /\ i - 1 \in 0 .. Len(new) /\ i \in 0 .. Len(new)
        /\ f[i - 1] \in Seq(Nat) /\ f[i] \in Seq(Nat) /\ new[i] \in Nat
    <3>1. i - 1 \in 0 .. Len(new) /\ i \in 0 .. Len(new)
      OBVIOUS
    <3>2. new[i] \in Nat
      OBVIOUS
    <3>. QED
      BY <3>1, <3>2
  <2>2. /\ ToSet(f[i]) = ToSet(f[i - 1]) \cup {new[i]}
        /\ Len(f[i - 1]) <= Len(f[i])
        /\ \A j \in 1 .. Len(f[i - 1]) : f[i][j] = f[i - 1][j]
    <3>. HIDE DEF S
    <3>. DEFINE r == AddUniqueBoHandle(f[i - 1], new[i])
    <3>1. /\ ToSet(r) = ToSet(f[i - 1]) \cup {new[i]}
          /\ Len(f[i - 1]) <= Len(r)
          /\ \A j \in 1 .. Len(f[i - 1]) : r[j] = f[i - 1][j]
      BY <2>1, AddUnique
    <3>2. f[i] = r
      BY <1>1
    <3>. HIDE DEF r
    <3>. QED
      BY <3>1, <3>2
  <2>3. {new[j] : j \in 1 .. i} = {new[j] : j \in 1 .. i - 1} \cup {new[i]}
    <3>1. 1 .. i = (1 .. i - 1) \cup {i}
      OBVIOUS
    <3>. QED
      BY <3>1
  <2>4. /\ ToSet(f[i - 1]) = ToSet(s) \cup {new[j] : j \in 1 .. i - 1}
        /\ Len(s) <= Len(f[i - 1])
        /\ \A j \in 1 .. Len(s) : f[i - 1][j] = s[j]
    BY <1>3
  <2>5. ToSet(f[i]) = ToSet(s) \cup {new[j] : j \in 1 .. i}
    BY <2>2, <2>3, <2>4
  <2>6. Len(s) <= Len(f[i]) /\ \A j \in 1 .. Len(s) : f[i][j] = s[j]
    <3>. HIDE DEF S
    <3>1. Len(s) \in Nat /\ Len(f[i - 1]) \in Nat /\ Len(f[i]) \in Nat
      BY <2>1
    <3>2. Len(s) <= Len(f[i])
      BY <2>2, <2>4, <3>1
    <3>3. ASSUME NEW j \in 1 .. Len(s) PROVE f[i][j] = s[j]
      <4>1. j \in 1 .. Len(f[i - 1])
        BY <2>4, <3>1
      <4>. QED
        BY <2>2, <2>4, <4>1
    <3>. QED
      BY <3>2, <3>3
  <2>. QED
    BY <2>1, <2>5, <2>6
<1>4. Len(new) \in S
  <2>1. Len(new) \in Nat
    OBVIOUS
  <2>. HIDE DEF S
  <2>2. \A i \in 0 .. Len(new) : i \in S
    BY <1>2, <1>3, <2>1, UpTo
  <2>. QED
    BY <2>1, <2>2
<1>5. ToSet(new) = {new[j] : j \in 1 .. Len(new)}
  BY DEF ToSet
<1>6. Len(new) \in 0 .. Len(new)
  OBVIOUS
<1>. QED
  BY <1>1, <1>4, <1>5, <1>6

\* The rounds of RemoveHandles.
LEMMA RemoveRounds ==
    ASSUME NEW s \in Seq(Nat), NEW old \in Seq(Nat)
    PROVE  \E f \in [0 .. Len(s) -> Seq(Nat)] :
              /\ f[0] = <<>>
              /\ \A i \in 1 .. Len(s) : f[i] = IF s[i] \in ToSet(old) THEN f[i - 1] ELSE Append(f[i - 1], s[i])
              /\ RemoveHandles(s, old) = f[Len(s)]
<1>. DEFINE n == Len(s)
            X == Seq(Nat)
            G == [i \in 1 .. n |-> [x \in X |-> IF s[i] \in ToSet(old) THEN x ELSE Append(x, s[i])]]
            F(f) == [i \in 0 .. n |->
                        IF i = 0 THEN <<>>
                        ELSE IF s[i] \in ToSet(old) THEN f[i - 1] ELSE Append(f[i - 1], s[i])]
            g == CHOOSE f : f = F(f)
<1>1. n \in Nat /\ <<>> \in X
  OBVIOUS
<1>2. G \in [1 .. n -> [X -> X]]
  <2>1. ASSUME NEW i \in 1 .. n, NEW x \in X PROVE (IF s[i] \in ToSet(old) THEN x ELSE Append(x, s[i])) \in X
    <3>1. s[i] \in Nat
      OBVIOUS
    <3>. QED
      BY <3>1
  <2>. QED
    BY <2>1
<1>3. ASSUME NEW f, Rounds(f, X, <<>>, n, G) PROVE f = F(f)
  <2>1. ASSUME NEW i \in 0 .. n PROVE f[i] = F(f)[i]
    <3>1. CASE i = 0
      BY <1>3, <3>1 DEF Rounds
    <3>2. CASE i # 0
      <4>1. i \in 1 .. n /\ i - 1 \in 0 .. n
        BY <1>1, <3>2
      <4>2. f[i - 1] \in X /\ f[i] = G[i][f[i - 1]]
        <5>. HIDE DEF G, X, n
        <5>. QED
          BY <1>3, <4>1 DEF Rounds
      <4>. QED
        BY <4>1, <4>2, <3>2
    <3>. QED
      BY <3>1, <3>2
  <2>2. F(f) = [i \in 0 .. n |-> F(f)[i]]
    OBVIOUS
  <2>3. f = [i \in 0 .. n |-> f[i]]
    BY <1>3 DEF Rounds
  <2>. HIDE DEF F
  <2>. QED
    BY <2>1, <2>2, <2>3
<1>4. PICK f : Rounds(f, X, <<>>, n, G)
  <2>. HIDE DEF G, X, n
  <2>. QED
    BY <1>1, <1>2, Loop
<1>5. g = F(g)
  <2>. HIDE DEF F
  <2>. QED
    BY <1>3, <1>4
<1>6. RemoveHandles(s, old) = g[n]
  BY DEF RemoveHandles
<1>. HIDE DEF g
<1>7. Rounds(g, X, <<>>, n, G)
  <2>1. g = [i \in 0 .. n |-> g[i]] /\ g[0] = <<>>
    BY <1>1, <1>5
  <2>2. ASSUME NEW i \in 1 .. n, g[i - 1] \in X PROVE g[i] = G[i][g[i - 1]]
    <3>1. i \in 0 .. n /\ i # 0
      BY <1>1
    <3>2. g[i] = F(g)[i]
      BY <1>5
    <3>. QED
      BY <3>1, <3>2, <2>2
  <2>. HIDE DEF G, X, n
  <2>. QED
    BY <1>1, <1>2, <2>1, <2>2, Stays
<1>8. g \in [0 .. n -> X] /\ g[0] = <<>> /\ \A i \in 1 .. n : g[i - 1] \in X /\ g[i] = G[i][g[i - 1]]
  <2>1. \A i \in 1 .. n : i - 1 \in 0 .. n
    BY <1>1
  <2>. HIDE DEF G, X, n
  <2>. QED
    BY <1>7, <2>1 DEF Rounds
<1>. HIDE DEF F
<1>. QED
  BY <1>6, <1>8

\* RemoveHandles takes away what is old, and keeps the first handle if it is not.
LEMMA RemovedHandles ==
    ASSUME NEW s \in Seq(Nat), NEW old \in Seq(Nat)
    PROVE  /\ RemoveHandles(s, old) \in Seq(Nat)
           /\ ToSet(RemoveHandles(s, old)) = ToSet(s) \ ToSet(old)
           /\ Len(s) >= 1 /\ s[1] \notin ToSet(old) =>
                 Len(RemoveHandles(s, old)) >= 1 /\ RemoveHandles(s, old)[1] = s[1]
<1>1. PICK f \in [0 .. Len(s) -> Seq(Nat)] :
         /\ f[0] = <<>>
         /\ \A i \in 1 .. Len(s) :
               f[i] = IF s[i] \in ToSet(old) THEN f[i - 1] ELSE Append(f[i - 1], s[i])
         /\ RemoveHandles(s, old) = f[Len(s)]
  BY RemoveRounds
<1>. DEFINE S == {i \in 0 .. Len(s) :
                    /\ ToSet(f[i]) = {s[j] : j \in 1 .. i} \ ToSet(old)
                    /\ i >= 1 /\ s[1] \notin ToSet(old) => Len(f[i]) >= 1 /\ f[i][1] = s[1]}
<1>2. 0 \in S
  BY <1>1 DEF ToSet
<1>3. ASSUME NEW i \in 1 .. Len(s), i - 1 \in S PROVE i \in S
  <2>1. /\ i - 1 \in 0 .. Len(s) /\ i \in 0 .. Len(s)
        /\ f[i - 1] \in Seq(Nat) /\ f[i] \in Seq(Nat) /\ s[i] \in Nat
    <3>1. i - 1 \in 0 .. Len(s) /\ i \in 0 .. Len(s)
      OBVIOUS
    <3>2. s[i] \in Nat
      OBVIOUS
    <3>. QED
      BY <3>1, <3>2
  <2>2. {s[j] : j \in 1 .. i} = {s[j] : j \in 1 .. i - 1} \cup {s[i]}
    <3>1. 1 .. i = (1 .. i - 1) \cup {i}
      OBVIOUS
    <3>. QED
      BY <3>1
  <2>3. /\ ToSet(f[i - 1]) = {s[j] : j \in 1 .. i - 1} \ ToSet(old)
        /\ i - 1 >= 1 /\ s[1] \notin ToSet(old) => Len(f[i - 1]) >= 1 /\ f[i - 1][1] = s[1]
    BY <1>3
  <2>4. CASE s[i] \in ToSet(old)
    <3>1. f[i] = f[i - 1]
      BY <1>1, <2>4
    <3>2. ToSet(f[i]) = {s[j] : j \in 1 .. i} \ ToSet(old)
      BY <2>2, <2>3, <2>4, <3>1
    <3>3. s[1] \notin ToSet(old) => i - 1 >= 1
      BY <2>1, <2>4
    <3>. QED
      BY <2>1, <2>3, <3>1, <3>2, <3>3
  <2>5. CASE s[i] \notin ToSet(old)
    <3>1. f[i] = Append(f[i - 1], s[i])
      BY <1>1, <2>5
    <3>2. ToSet(f[i]) = ToSet(f[i - 1]) \cup {s[i]}
      <4>1. /\ DOMAIN f[i - 1] = 1 .. Len(f[i - 1]) /\ DOMAIN f[i] = 1 .. Len(f[i - 1]) + 1
            /\ f[i][Len(f[i - 1]) + 1] = s[i]
            /\ \A j \in 1 .. Len(f[i - 1]) : f[i][j] = f[i - 1][j]
        BY <2>1, <3>1
      <4>2. Len(f[i - 1]) \in Nat
        BY <2>1
      <4>3. 1 .. Len(f[i - 1]) + 1 = (1 .. Len(f[i - 1])) \cup {Len(f[i - 1]) + 1}
        BY <4>2
      <4>4. {f[i][j] : j \in 1 .. Len(f[i - 1])} = {f[i - 1][j] : j \in 1 .. Len(f[i - 1])}
        BY <4>1
      <4>5. {f[i][j] : j \in 1 .. Len(f[i - 1]) + 1}
               = {f[i][j] : j \in 1 .. Len(f[i - 1])} \cup {f[i][Len(f[i - 1]) + 1]}
        BY <4>3
      <4>. QED
        BY <4>1, <4>4, <4>5 DEF ToSet
    <3>3. ToSet(f[i]) = {s[j] : j \in 1 .. i} \ ToSet(old)
      BY <2>2, <2>3, <2>5, <3>2
    <3>4. ASSUME s[1] \notin ToSet(old) PROVE Len(f[i]) >= 1 /\ f[i][1] = s[1]
      <4>1. Len(f[i]) = Len(f[i - 1]) + 1 /\ Len(f[i - 1]) \in Nat
        BY <2>1, <3>1
      <4>2. CASE i = 1
        <5>1. Len(f[i - 1]) = 0
          BY <1>1, <4>2
        <5>. QED
          BY <2>1, <3>1, <4>1, <4>2, <5>1
      <4>3. CASE i # 1
        <5>1. i - 1 >= 1
          BY <4>3
        <5>. QED
          BY <2>1, <2>3, <3>1, <3>4, <4>1, <5>1
      <4>. QED
        BY <4>2, <4>3
    <3>. QED
      BY <2>1, <3>3, <3>4
  <2>. QED
    BY <2>4, <2>5
<1>4. Len(s) \in S
  <2>1. Len(s) \in Nat
    OBVIOUS
  <2>. HIDE DEF S
  <2>2. \A i \in 0 .. Len(s) : i \in S
    BY <1>2, <1>3, <2>1, UpTo
  <2>. QED
    BY <2>1, <2>2
<1>5. ToSet(s) = {s[j] : j \in 1 .. Len(s)}
  BY DEF ToSet
<1>6. Len(s) \in 0 .. Len(s)
  OBVIOUS
<1>. QED
  BY <1>1, <1>4, <1>5, <1>6

\* ReplaceBufferHandles, as a set; the first handle stays unless it is replaced.
LEMMA Replaced ==
    ASSUME NEW s \in Seq(Nat), NEW old \in Seq(Nat), NEW new \in Seq(Nat)
    PROVE  /\ ReplaceBufferHandles(s, old, new) \in Seq(Nat)
           /\ ToSet(ReplaceBufferHandles(s, old, new)) = (ToSet(s) \ ToSet(old)) \cup ToSet(new)
           /\ Len(s) >= 1 /\ s[1] \notin ToSet(old) =>
                 /\ Len(ReplaceBufferHandles(s, old, new)) >= 1
                 /\ ReplaceBufferHandles(s, old, new)[1] = s[1]
<1>. DEFINE r == RemoveHandles(s, old)
<1>1. /\ r \in Seq(Nat)
      /\ ToSet(r) = ToSet(s) \ ToSet(old)
      /\ Len(s) >= 1 /\ s[1] \notin ToSet(old) => Len(r) >= 1 /\ r[1] = s[1]
  BY RemovedHandles
<1>. HIDE DEF r
<1>2. /\ AddHandles(r, new) \in Seq(Nat)
      /\ ToSet(AddHandles(r, new)) = ToSet(r) \cup ToSet(new)
      /\ Len(r) <= Len(AddHandles(r, new))
      /\ \A j \in 1 .. Len(r) : AddHandles(r, new)[j] = r[j]
  BY <1>1, Added
<1>3. ReplaceBufferHandles(s, old, new) = AddHandles(r, new)
  BY DEF ReplaceBufferHandles, r
<1>4. Len(r) \in Nat /\ Len(AddHandles(r, new)) \in Nat
  BY <1>1, <1>2
<1>. QED
  BY <1>1, <1>2, <1>3, <1>4

\* The arguments of the inferences.
ArgLists == [Cmds -> [Args -> Handles]]

ArgHandles(args) == UNION {ToSet(args[c]) : c \in Cmds}

LEMMA Parameters ==
    /\ NumCmds \in Nat /\ NumCmds >= 1 /\ NumArgs \in Nat /\ NumArgs >= 1
    /\ Handles \subseteq Nat /\ NoBo \notin Handles /\ NoBo \in Nat
    /\ Cmds \subseteq Nat
BY ParametersAssumption DEF Handles, NoBo, Cmds

LEMMA ArgumentSequence ==
    ASSUME NEW args \in [Args -> Handles]
    PROVE  args \in Seq(Nat) /\ ToSet(args) = {args[a] : a \in Args} /\ ToSet(args) \subseteq Handles
<1>1. args \in [1 .. NumArgs -> Nat]
  BY Parameters DEF Args
<1>2. NumArgs \in Nat
  BY Parameters
<1>3. args \in Seq(Nat)
  BY <1>1, <1>2, SeqDef
<1>4. DOMAIN args = Args
  OBVIOUS
<1>. QED
  BY <1>3, <1>4 DEF ToSet

\* The rounds of CommandHandles.
LEMMA CommandRounds ==
    ASSUME NEW first \in Seq(Nat), NEW args \in ArgLists
    PROVE  \E f \in [0 .. NumCmds -> Seq(Nat)] :
              /\ f[0] = first
              /\ \A i \in 1 .. NumCmds : f[i] = AddHandles(f[i - 1], args[i])
              /\ CommandHandles(first, args) = f[NumCmds]
<1>. DEFINE n == NumCmds
            X == Seq(Nat)
            G == [i \in 1 .. n |-> [x \in X |-> AddHandles(x, args[i])]]
            F(f) == [i \in 0 .. n |->
                        IF i = 0 THEN first ELSE AddHandles(f[i - 1], args[i])]
            g == CHOOSE f : f = F(f)
<1>1. n \in Nat /\ first \in X
  BY Parameters
<1>2. G \in [1 .. n -> [X -> X]]
  <2>1. ASSUME NEW i \in 1 .. n, NEW x \in X PROVE AddHandles(x, args[i]) \in X
    <3>1. args[i] \in [Args -> Handles]
      BY DEF ArgLists, Cmds
    <3>2. args[i] \in Seq(Nat)
      BY <3>1, ArgumentSequence
    <3>. QED
      BY <3>2, Added
  <2>. QED
    BY <2>1
<1>3. ASSUME NEW f, Rounds(f, X, first, n, G) PROVE f = F(f)
  <2>1. ASSUME NEW i \in 0 .. n PROVE f[i] = F(f)[i]
    <3>1. CASE i = 0
      BY <1>3, <3>1 DEF Rounds
    <3>2. CASE i # 0
      <4>1. i \in 1 .. n /\ i - 1 \in 0 .. n
        BY <1>1, <3>2
      <4>2. f[i - 1] \in X /\ f[i] = G[i][f[i - 1]]
        <5>. HIDE DEF G, X, n
        <5>. QED
          BY <1>3, <4>1 DEF Rounds
      <4>. QED
        BY <4>1, <4>2, <3>2
    <3>. QED
      BY <3>1, <3>2
  <2>2. F(f) = [i \in 0 .. n |-> F(f)[i]]
    OBVIOUS
  <2>3. f = [i \in 0 .. n |-> f[i]]
    BY <1>3 DEF Rounds
  <2>. HIDE DEF F
  <2>. QED
    BY <2>1, <2>2, <2>3
<1>4. PICK f : Rounds(f, X, first, n, G)
  <2>. HIDE DEF G, X, n
  <2>. QED
    BY <1>1, <1>2, Loop
<1>5. g = F(g)
  <2>. HIDE DEF F
  <2>. QED
    BY <1>3, <1>4
<1>6. CommandHandles(first, args) = g[n]
  BY DEF CommandHandles
<1>. HIDE DEF g
<1>7. Rounds(g, X, first, n, G)
  <2>1. g = [i \in 0 .. n |-> g[i]] /\ g[0] = first
    BY <1>1, <1>5
  <2>2. ASSUME NEW i \in 1 .. n, g[i - 1] \in X PROVE g[i] = G[i][g[i - 1]]
    <3>1. i \in 0 .. n /\ i # 0
      BY <1>1
    <3>2. g[i] = F(g)[i]
      BY <1>5
    <3>. QED
      BY <3>1, <3>2, <2>2
  <2>. HIDE DEF G, X, n
  <2>. QED
    BY <1>1, <1>2, <2>1, <2>2, Stays
<1>8. g \in [0 .. n -> X] /\ g[0] = first /\ \A i \in 1 .. n : g[i - 1] \in X /\ g[i] = G[i][g[i - 1]]
  <2>1. \A i \in 1 .. n : i - 1 \in 0 .. n
    BY <1>1
  <2>. HIDE DEF G, X, n
  <2>. QED
    BY <1>7, <2>1 DEF Rounds
<1>. HIDE DEF F
<1>. QED
  BY <1>6, <1>8

\* CommandHandles appends the arguments of every inference.
LEMMA CommandsAdded ==
    ASSUME NEW first \in Seq(Nat), NEW args \in ArgLists, Len(first) >= 1
    PROVE  /\ CommandHandles(first, args) \in Seq(Nat)
           /\ ToSet(CommandHandles(first, args)) = ToSet(first) \cup ArgHandles(args)
           /\ Len(CommandHandles(first, args)) >= 1
           /\ CommandHandles(first, args)[1] = first[1]
<1>1. PICK f \in [0 .. NumCmds -> Seq(Nat)] :
         /\ f[0] = first
         /\ \A i \in 1 .. NumCmds : f[i] = AddHandles(f[i - 1], args[i])
         /\ CommandHandles(first, args) = f[NumCmds]
  BY CommandRounds
<1>0. NumCmds \in Nat
  BY Parameters
<1>. DEFINE S == {i \in 0 .. NumCmds :
                    /\ ToSet(f[i]) = ToSet(first) \cup UNION {ToSet(args[c]) : c \in 1 .. i}
                    /\ Len(f[i]) >= 1
                    /\ f[i][1] = first[1]}
<1>2. 0 \in S
  BY <1>0, <1>1
<1>3. ASSUME NEW i \in 1 .. NumCmds, i - 1 \in S PROVE i \in S
  <2>1. /\ i - 1 \in 0 .. NumCmds /\ i \in 0 .. NumCmds
        /\ f[i - 1] \in Seq(Nat) /\ f[i] \in Seq(Nat) /\ args[i] \in Seq(Nat)
    <3>1. i - 1 \in 0 .. NumCmds /\ i \in 0 .. NumCmds
      BY <1>0
    <3>2. args[i] \in [Args -> Handles]
      BY DEF ArgLists, Cmds
    <3>. QED
      BY <3>1, <3>2, ArgumentSequence
  <2>2. /\ ToSet(f[i]) = ToSet(f[i - 1]) \cup ToSet(args[i])
        /\ Len(f[i - 1]) <= Len(f[i])
        /\ \A j \in 1 .. Len(f[i - 1]) : f[i][j] = f[i - 1][j]
    <3>. HIDE DEF S
    <3>. DEFINE r == AddHandles(f[i - 1], args[i])
    <3>1. /\ ToSet(r) = ToSet(f[i - 1]) \cup ToSet(args[i])
          /\ Len(f[i - 1]) <= Len(r)
          /\ \A j \in 1 .. Len(f[i - 1]) : r[j] = f[i - 1][j]
      BY <2>1, Added
    <3>2. f[i] = r
      BY <1>1
    <3>. HIDE DEF r
    <3>. QED
      BY <3>1, <3>2
  <2>3. UNION {ToSet(args[c]) : c \in 1 .. i}
           = (UNION {ToSet(args[c]) : c \in 1 .. i - 1}) \cup ToSet(args[i])
    <3>1. 1 .. i = (1 .. i - 1) \cup {i}
      BY <1>0
    <3>. QED
      BY <3>1
  <2>4. /\ ToSet(f[i - 1]) = ToSet(first) \cup UNION {ToSet(args[c]) : c \in 1 .. i - 1}
        /\ Len(f[i - 1]) >= 1
        /\ f[i - 1][1] = first[1]
    BY <1>3
  <2>5. ToSet(f[i]) = ToSet(first) \cup UNION {ToSet(args[c]) : c \in 1 .. i}
    BY <2>2, <2>3, <2>4
  <2>6. Len(f[i]) >= 1 /\ f[i][1] = first[1]
    <3>1. Len(f[i - 1]) \in Nat /\ Len(f[i]) \in Nat
      BY <2>1
    <3>2. 1 \in 1 .. Len(f[i - 1])
      BY <2>4, <3>1
    <3>3. f[i][1] = f[i - 1][1]
      BY <2>2, <3>2
    <3>. QED
      BY <2>2, <2>4, <3>1, <3>3
  <2>. QED
    BY <2>1, <2>5, <2>6
<1>4. NumCmds \in S
  <2>. HIDE DEF S
  <2>1. \A i \in 0 .. NumCmds : i \in S
    BY <1>0, <1>2, <1>3, UpTo
  <2>. QED
    BY <1>0, <2>1
<1>5. NumCmds \in 0 .. NumCmds
  BY <1>0
<1>. QED
  BY <1>1, <1>4, <1>5 DEF ArgHandles, Cmds

-----------------------------------------------------------------------------
(* One inference updated, and all of them.                                 *)

BufType ==
    [bo : Nat, handles : Seq(Nat), scratch : Nat, preempt : Nat, index : Nat, waitBo : Nat]

StateType ==
    [buf : BufType, args : ArgLists, needs : [Cmds -> BOOLEAN], last : [Cmds -> Nat],
     ok : BOOLEAN]

\* Buffers that differ in their handles at most.
SameBut(b, d) ==
    /\ d.bo = b.bo /\ d.scratch = b.scratch /\ d.preempt = b.preempt
    /\ d.index = b.index /\ d.waitBo = b.waitBo

\* A list begins with its own command buffer.
OwnFirst(b) == Len(b.handles) >= 1 /\ b.handles[1] = b.bo

LEMMA Single ==
    ASSUME NEW x \in Nat PROVE <<x>> \in Seq(Nat) /\ ToSet(<<x>>) = {x}
BY DEF ToSet

\* What the first half of a round, updateScratchBuffer of inference c, makes of st.
ScratchResult(st, c, t) ==
    /\ t \in StateType
    /\ t.args = st.args /\ t.needs = st.needs /\ t.ok = st.ok
    /\ t.last = IF c \in scratchCmds THEN [st.last EXCEPT ![c] = st.buf.scratch] ELSE st.last
    /\ SameBut(st.buf, t.buf)
    /\ ToSet(t.buf.handles) =
          IF c \in scratchCmds
          THEN (ToSet(st.buf.handles) \ {st.last[c]}) \cup {st.buf.scratch}
          ELSE ToSet(st.buf.handles)
    /\ OwnFirst(st.buf) /\ st.last[c] # st.buf.bo => OwnFirst(t.buf)

LEMMA ScratchStep ==
    ASSUME NEW st \in StateType, NEW c \in Cmds
    PROVE  ScratchResult(st, c, UpdateScratchBuffer(st, c))
<1>. DEFINE t == UpdateScratchBuffer(st, c)
<1>0. t = UpdateScratchBuffer(st, c)
  OBVIOUS
<1>. HIDE DEF t
<1>. SUFFICES ScratchResult(st, c, t)
  BY <1>0
<1>1. CASE c \notin scratchCmds
  <2>1. t = st
    BY <1>0, <1>1 DEF UpdateScratchBuffer
  <2>. QED
    BY <1>1, <2>1 DEF ScratchResult, SameBut
<1>2. CASE c \in scratchCmds
  <2>1. /\ st.buf \in BufType /\ st.last \in [Cmds -> Nat] /\ st.last[c] \in Nat
        /\ st.buf.handles \in Seq(Nat) /\ st.buf.scratch \in Nat
    BY DEF StateType, BufType
  <2>. DEFINE h == ReplaceBufferHandles(st.buf.handles, <<st.last[c]>>, <<st.buf.scratch>>)
  <2>2. /\ h \in Seq(Nat)
        /\ ToSet(h) = (ToSet(st.buf.handles) \ {st.last[c]}) \cup {st.buf.scratch}
        /\ Len(st.buf.handles) >= 1 /\ st.buf.handles[1] # st.last[c] =>
              Len(h) >= 1 /\ h[1] = st.buf.handles[1]
    <3>1. /\ <<st.last[c]>> \in Seq(Nat) /\ ToSet(<<st.last[c]>>) = {st.last[c]}
          /\ <<st.buf.scratch>> \in Seq(Nat) /\ ToSet(<<st.buf.scratch>>) = {st.buf.scratch}
      BY <2>1, Single
    <3>2. /\ h \in Seq(Nat)
          /\ ToSet(h) = (ToSet(st.buf.handles) \ ToSet(<<st.last[c]>>))
                            \cup ToSet(<<st.buf.scratch>>)
          /\ Len(st.buf.handles) >= 1 /\ st.buf.handles[1] \notin ToSet(<<st.last[c]>>) =>
                Len(h) >= 1 /\ h[1] = st.buf.handles[1]
      <4>. DEFINE o == <<st.last[c]>>
                  w == <<st.buf.scratch>>
      <4>1. o \in Seq(Nat) /\ w \in Seq(Nat)
        BY <3>1
      <4>. HIDE DEF o, w
      <4>2. /\ ReplaceBufferHandles(st.buf.handles, o, w) \in Seq(Nat)
            /\ ToSet(ReplaceBufferHandles(st.buf.handles, o, w))
                  = (ToSet(st.buf.handles) \ ToSet(o)) \cup ToSet(w)
            /\ Len(st.buf.handles) >= 1 /\ st.buf.handles[1] \notin ToSet(o) =>
                 /\ Len(ReplaceBufferHandles(st.buf.handles, o, w)) >= 1
                 /\ ReplaceBufferHandles(st.buf.handles, o, w)[1] = st.buf.handles[1]
        BY <2>1, <4>1, Replaced
      <4>. QED
        BY <4>2 DEF o, w
    <3>. HIDE DEF h
    <3>. QED
      BY <3>1, <3>2
  <2>. HIDE DEF h
  <2>3. t = [st EXCEPT !.buf.handles = h, !.last[c] = st.buf.scratch]
    BY <1>0, <1>2 DEF UpdateScratchBuffer, h
  <2>4. t.buf = [st.buf EXCEPT !.handles = h] /\ t.last = [st.last EXCEPT ![c] = st.buf.scratch]
        /\ t.args = st.args /\ t.needs = st.needs /\ t.ok = st.ok
    BY <2>3 DEF StateType
  <2>5. t.buf \in BufType /\ t.buf.handles = h /\ SameBut(st.buf, t.buf)
    BY <2>1, <2>2, <2>4 DEF BufType, SameBut
  <2>6. t \in StateType
    <3>1. t.last \in [Cmds -> Nat]
      BY <2>1, <2>4
    <3>. QED
      BY <2>1, <2>2, <2>3, <2>5, <3>1 DEF StateType, BufType
  <2>. QED
    BY <1>2, <2>2, <2>4, <2>5, <2>6 DEF ScratchResult, OwnFirst, SameBut
<1>. QED
  BY <1>1, <1>2

LEMMA UpdateStep ==
    ASSUME inputs \in ArgLists,
           NEW st \in StateType, NEW c \in Cmds, NEW t, t = Update(st, c)
    PROVE  /\ t \in StateType
           /\ t.last = st.last
           /\ t.needs = [st.needs EXCEPT ![c] = FALSE]
           /\ t.ok <=> st.ok /\ (st.needs[c] => ArgumentsFound(c))
           /\ t.args = IF st.needs[c] /\ ArgumentsFound(c) THEN [st.args EXCEPT ![c] = inputs[c]]
                                                           ELSE st.args
           /\ SameBut(st.buf, t.buf)
           /\ ToSet(t.buf.handles) =
                 IF st.needs[c] /\ ArgumentsFound(c)
                 THEN (ToSet(st.buf.handles) \ ToSet(st.args[c])) \cup ToSet(inputs[c])
                 ELSE ToSet(st.buf.handles)
           /\ OwnFirst(st.buf) /\ st.buf.bo \notin ToSet(st.args[c]) => OwnFirst(t.buf)
<1>1. /\ st.buf \in BufType /\ st.buf.handles \in Seq(Nat) /\ st.needs \in [Cmds -> BOOLEAN]
      /\ st.args \in ArgLists /\ st.args[c] \in [Args -> Handles]
      /\ inputs[c] \in [Args -> Handles] /\ st.ok \in BOOLEAN
  BY DEF StateType, BufType, ArgLists
<1>2. CASE ~st.needs[c]
  <2>1. t = st
    BY <1>2 DEF Update
  <2>2. st.needs = [st.needs EXCEPT ![c] = FALSE]
    BY <1>1, <1>2
  <2>. QED
    BY <1>2, <2>1, <2>2 DEF SameBut
<1>3. CASE st.needs[c] /\ ~ArgumentsFound(c)
  <2>1. t = [st EXCEPT !.needs[c] = FALSE, !.ok = FALSE]
    BY <1>3 DEF Update, StateType
  <2>2. t.buf = st.buf /\ t.args = st.args /\ t.last = st.last /\ t.ok = FALSE
        /\ t.needs = [st.needs EXCEPT ![c] = FALSE]
    BY <2>1 DEF StateType
  <2>3. t \in StateType
    <3>1. [st.needs EXCEPT ![c] = FALSE] \in [Cmds -> BOOLEAN]
      BY <1>1
    <3>2. t = [st EXCEPT !.needs = [st.needs EXCEPT ![c] = FALSE], !.ok = FALSE]
      BY <2>1 DEF StateType
    <3>. QED
      BY <3>1, <3>2 DEF StateType
  <2>. QED
    BY <1>3, <2>2, <2>3 DEF SameBut
<1>4. CASE st.needs[c] /\ ArgumentsFound(c)
  <2>. DEFINE h == ReplaceBufferHandles(st.buf.handles, st.args[c], inputs[c])
  <2>1. /\ h \in Seq(Nat)
        /\ ToSet(h) = (ToSet(st.buf.handles) \ ToSet(st.args[c])) \cup ToSet(inputs[c])
        /\ Len(st.buf.handles) >= 1 /\ st.buf.handles[1] \notin ToSet(st.args[c]) =>
              Len(h) >= 1 /\ h[1] = st.buf.handles[1]
    <3>1. st.args[c] \in Seq(Nat) /\ inputs[c] \in Seq(Nat)
      BY <1>1, ArgumentSequence
    <3>. QED
      BY <1>1, <3>1, Replaced
  <2>. HIDE DEF h
  <2>2. t = [st EXCEPT !.needs[c] = FALSE, !.buf.handles = h, !.args[c] = inputs[c]]
    BY <1>4 DEF Update, StateType, BufType, h
  <2>3. /\ t.buf = [st.buf EXCEPT !.handles = h] /\ t.last = st.last /\ t.ok = st.ok
        /\ t.args = [st.args EXCEPT ![c] = inputs[c]]
        /\ t.needs = [st.needs EXCEPT ![c] = FALSE]
    BY <2>2 DEF StateType
  <2>4. t.buf \in BufType /\ t.buf.handles = h /\ SameBut(st.buf, t.buf)
    BY <1>1, <2>1, <2>3 DEF BufType, SameBut
  <2>5. t.args \in ArgLists /\ t.needs \in [Cmds -> BOOLEAN]
    BY <1>1, <2>3 DEF ArgLists
  <2>6. t \in StateType
    BY <2>1, <2>2, <2>4, <2>5 DEF StateType, BufType
  <2>. QED
    BY <1>4, <2>1, <2>3, <2>4, <2>6 DEF OwnFirst, SameBut
<1>. QED
  BY <1>2, <1>3, <1>4

\* The rounds of UpdateCommands.
LEMMA UpdateRounds ==
    ASSUME inputs \in ArgLists, NEW st \in StateType, NEW s \in Nat
    PROVE  \E f \in [0 .. NumCmds -> StateType] :
              /\ f[0] = [st EXCEPT !.buf.scratch = s]
              /\ \A i \in 1 .. NumCmds : f[i] = IF f[i - 1].ok THEN Update(UpdateScratchBuffer(f[i - 1], i), i) ELSE f[i - 1]
              /\ UpdateCommands(st, s) = f[NumCmds]
<1>. DEFINE n == NumCmds
            X == StateType
            G == [i \in 1 .. n |-> [x \in X |-> IF x.ok THEN Update(UpdateScratchBuffer(x, i), i) ELSE x]]
            F(f) == [i \in 0 .. n |->
                        IF i = 0 THEN [st EXCEPT !.buf.scratch = s]
                        ELSE IF f[i - 1].ok THEN Update(UpdateScratchBuffer(f[i - 1], i), i) ELSE f[i - 1]]
            g == CHOOSE f : f = F(f)
<1>1. n \in Nat /\ [st EXCEPT !.buf.scratch = s] \in X
  BY Parameters DEF StateType, BufType
<1>2. G \in [1 .. n -> [X -> X]]
  <2>1. ASSUME NEW i \in 1 .. n, NEW x \in X
        PROVE  (IF x.ok THEN Update(UpdateScratchBuffer(x, i), i) ELSE x) \in X
    <3>1. i \in Cmds
      BY DEF Cmds
    <3>2. UpdateScratchBuffer(x, i) \in StateType
      BY <3>1, ScratchStep DEF ScratchResult
    <3>3. Update(UpdateScratchBuffer(x, i), i) \in StateType
      BY <3>1, <3>2, UpdateStep
    <3>. QED
      BY <3>3
  <2>. QED
    BY <2>1
<1>3. ASSUME NEW f, Rounds(f, X, [st EXCEPT !.buf.scratch = s], n, G) PROVE f = F(f)
  <2>1. ASSUME NEW i \in 0 .. n PROVE f[i] = F(f)[i]
    <3>1. CASE i = 0
      BY <1>3, <3>1 DEF Rounds
    <3>2. CASE i # 0
      <4>1. i \in 1 .. n /\ i - 1 \in 0 .. n
        BY <1>1, <3>2
      <4>2. f[i - 1] \in X /\ f[i] = G[i][f[i - 1]]
        <5>. HIDE DEF G, X, n
        <5>. QED
          BY <1>3, <4>1 DEF Rounds
      <4>. QED
        BY <4>1, <4>2, <3>2
    <3>. QED
      BY <3>1, <3>2
  <2>2. F(f) = [i \in 0 .. n |-> F(f)[i]]
    OBVIOUS
  <2>3. f = [i \in 0 .. n |-> f[i]]
    BY <1>3 DEF Rounds
  <2>. HIDE DEF F
  <2>. QED
    BY <2>1, <2>2, <2>3
<1>4. PICK f : Rounds(f, X, [st EXCEPT !.buf.scratch = s], n, G)
  <2>. HIDE DEF G, X, n
  <2>. QED
    BY <1>1, <1>2, Loop
<1>5. g = F(g)
  <2>. HIDE DEF F
  <2>. QED
    BY <1>3, <1>4
<1>6. UpdateCommands(st, s) = g[n]
  BY DEF UpdateCommands
<1>. HIDE DEF g
<1>7. Rounds(g, X, [st EXCEPT !.buf.scratch = s], n, G)
  <2>1. g = [i \in 0 .. n |-> g[i]] /\ g[0] = [st EXCEPT !.buf.scratch = s]
    BY <1>1, <1>5
  <2>2. ASSUME NEW i \in 1 .. n, g[i - 1] \in X PROVE g[i] = G[i][g[i - 1]]
    <3>1. i \in 0 .. n /\ i # 0
      BY <1>1
    <3>2. g[i] = F(g)[i]
      BY <1>5
    <3>. QED
      BY <3>1, <3>2, <2>2
  <2>. HIDE DEF G, X, n
  <2>. QED
    BY <1>1, <1>2, <2>1, <2>2, Stays
<1>8. g \in [0 .. n -> X] /\ g[0] = [st EXCEPT !.buf.scratch = s] /\ \A i \in 1 .. n : g[i - 1] \in X /\ g[i] = G[i][g[i - 1]]
  <2>1. \A i \in 1 .. n : i - 1 \in 0 .. n
    BY <1>1
  <2>. HIDE DEF G, X, n
  <2>. QED
    BY <1>7, <2>1 DEF Rounds
<1>. HIDE DEF F
<1>. QED
  BY <1>6, <1>8

-----------------------------------------------------------------------------
(* What updateCommands makes of the list: the first i inferences are done. *)

Start ==
    [buf |-> buf, args |-> userArgs, needs |-> cmdNeedsUpdate, last |-> lastScratch, ok |-> TRUE]

\* Arguments are the old ones or, when the context knows them, the new ones.
ArgsFrom(t) ==
    \A c \in Cmds : t.args[c] = userArgs[c] \/ (t.args[c] = inputs[c] /\ ArgumentsFound(c))

\* After a success the first i inferences have the new arguments, the others wait.
ArgsDone(t, i) ==
    t.ok => \A c \in Cmds :
               IF c <= i THEN t.args[c] = inputs[c] \/ (t.args[c] = userArgs[c] /\ ~cmdNeedsUpdate[c])
                         ELSE t.args[c] = userArgs[c] /\ t.needs[c] = cmdNeedsUpdate[c]

\* The same for the scratch buffer s.
LastFrom(t, s) ==
    \A c \in Cmds :
       t.last[c] \in {lastScratch[c], s} /\ (c \notin scratchCmds => t.last[c] = lastScratch[c])

LastDone(t, i, s) ==
    t.ok => \A c \in scratchCmds : c <= i => t.last[c] = s

\* The handles are the ones of the list, of its arguments and of its scratch memory,
\* but for those of rest.
HandlesFrom(handles, bo, args, last, rest) ==
    ToSet(handles) \subseteq {bo} \cup ArgHandles(args) \cup {last[c] : c \in Cmds} \cup rest

Done(t, i, s) ==
    /\ t.buf.bo = buf.bo /\ t.buf.scratch = s /\ t.buf.preempt = buf.preempt
    /\ t.buf.index = buf.index /\ t.buf.waitBo = buf.waitBo
    /\ ArgsFrom(t) /\ ArgsDone(t, i)
    /\ LastFrom(t, s) /\ LastDone(t, i, s)
    /\ ToSet(t.buf.handles) \subseteq Handles
    /\ OwnFirst(t.buf)

\* What the list is before its commands are updated with scratch buffer s.
Ready(s) ==
    /\ Start \in StateType /\ inputs \in ArgLists /\ scratchCmds \subseteq Cmds
    /\ ToSet(buf.handles) \subseteq Handles /\ OwnFirst(buf)
    /\ s \in Nat /\ s # buf.bo /\ (scratchCmds # {} => s \in Handles)
    /\ \A c \in Cmds : lastScratch[c] # buf.bo
    /\ \A c \in Cmds : /\ buf.bo \notin ToSet(userArgs[c])
                       /\ ArgumentsFound(c) => buf.bo \notin ToSet(inputs[c])

\* The handles after inference i of x has the scratch buffer, and its new arguments.
WithScratch(x, i) ==
    IF i \in scratchCmds THEN (ToSet(x.buf.handles) \ {x.last[i]}) \cup {x.buf.scratch}
                         ELSE ToSet(x.buf.handles)

WithArguments(x, i) ==
    IF x.needs[i] /\ ArgumentsFound(i)
    THEN (WithScratch(x, i) \ ToSet(x.args[i])) \cup ToSet(inputs[i])
    ELSE WithScratch(x, i)

\* What a round for inference i makes of x.
RoundResult(x, i, y) ==
    /\ y \in StateType
    /\ y.last = IF i \in scratchCmds THEN [x.last EXCEPT ![i] = x.buf.scratch] ELSE x.last
    /\ y.needs = [x.needs EXCEPT ![i] = FALSE]
    /\ y.ok <=> (x.needs[i] => ArgumentsFound(i))
    /\ y.args = IF x.needs[i] /\ ArgumentsFound(i) THEN [x.args EXCEPT ![i] = inputs[i]]
                                                  ELSE x.args
    /\ SameBut(x.buf, y.buf)
    /\ ToSet(y.buf.handles) = WithArguments(x, i)
    /\ OwnFirst(x.buf) /\ x.last[i] # x.buf.bo /\ x.buf.bo \notin ToSet(x.args[i])
          => OwnFirst(y.buf)

\* One round, in one step.
LEMMA RoundFacts ==
    ASSUME inputs \in ArgLists, NEW x \in StateType, NEW i \in Cmds, x.ok,
           NEW y, y = Update(UpdateScratchBuffer(x, i), i)
    PROVE  RoundResult(x, i, y)
<1>. DEFINE z == UpdateScratchBuffer(x, i)
<1>0. ScratchResult(x, i, z)
  BY ScratchStep
<1>. HIDE DEF z
<1>1. /\ z \in StateType
      /\ z.args = x.args /\ z.needs = x.needs /\ z.ok = x.ok
      /\ z.last = IF i \in scratchCmds THEN [x.last EXCEPT ![i] = x.buf.scratch] ELSE x.last
      /\ SameBut(x.buf, z.buf)
      /\ ToSet(z.buf.handles) =
            IF i \in scratchCmds
            THEN (ToSet(x.buf.handles) \ {x.last[i]}) \cup {x.buf.scratch}
            ELSE ToSet(x.buf.handles)
      /\ OwnFirst(x.buf) /\ x.last[i] # x.buf.bo => OwnFirst(z.buf)
  BY <1>0 DEF ScratchResult
<1>2. y = Update(z, i)
  BY DEF z
<1>3. /\ y \in StateType
      /\ y.last = z.last
      /\ y.needs = [z.needs EXCEPT ![i] = FALSE]
      /\ y.ok <=> z.ok /\ (z.needs[i] => ArgumentsFound(i))
      /\ y.args = IF z.needs[i] /\ ArgumentsFound(i) THEN [z.args EXCEPT ![i] = inputs[i]]
                                                    ELSE z.args
      /\ SameBut(z.buf, y.buf)
      /\ ToSet(y.buf.handles) =
            IF z.needs[i] /\ ArgumentsFound(i)
            THEN (ToSet(z.buf.handles) \ ToSet(z.args[i])) \cup ToSet(inputs[i])
            ELSE ToSet(z.buf.handles)
      /\ OwnFirst(z.buf) /\ z.buf.bo \notin ToSet(z.args[i]) => OwnFirst(y.buf)
  BY <1>1, <1>2, UpdateStep
<1>4. SameBut(x.buf, y.buf) /\ z.buf.bo = x.buf.bo
  BY <1>1, <1>3 DEF SameBut
<1>5. ToSet(y.buf.handles) = WithArguments(x, i)
  BY <1>1, <1>3 DEF WithScratch, WithArguments
<1>. QED
  BY <1>1, <1>3, <1>4, <1>5 DEF RoundResult

LEMMA DoneStep ==
    ASSUME NEW s, Ready(s), NEW x \in StateType, NEW i \in Cmds, Done(x, i - 1, s),
           NEW y, y = IF x.ok THEN Update(UpdateScratchBuffer(x, i), i) ELSE x
    PROVE  Done(y, i, s)
<1>0. Cmds \subseteq Nat
  BY Parameters
<1>1. CASE ~x.ok
  BY <1>1 DEF Done, ArgsDone, LastDone
<1>2. CASE x.ok
  <2>0. inputs \in ArgLists /\ y = Update(UpdateScratchBuffer(x, i), i)
    BY <1>2 DEF Ready
  <2>1. /\ y \in StateType
        /\ y.last = IF i \in scratchCmds THEN [x.last EXCEPT ![i] = x.buf.scratch] ELSE x.last
        /\ y.needs = [x.needs EXCEPT ![i] = FALSE]
        /\ y.ok <=> (x.needs[i] => ArgumentsFound(i))
        /\ y.args = IF x.needs[i] /\ ArgumentsFound(i) THEN [x.args EXCEPT ![i] = inputs[i]]
                                                      ELSE x.args
        /\ SameBut(x.buf, y.buf)
        /\ ToSet(y.buf.handles) = WithArguments(x, i)
        /\ OwnFirst(x.buf) /\ x.last[i] # x.buf.bo /\ x.buf.bo \notin ToSet(x.args[i])
              => OwnFirst(y.buf)
    <3>1. RoundResult(x, i, y)
      BY <1>2, <2>0, RoundFacts
    <3>. QED
      BY <3>1 DEF RoundResult
  <2>2. /\ x.buf.bo = buf.bo /\ x.buf.scratch = s
        /\ y.buf.bo = buf.bo /\ y.buf.scratch = s /\ y.buf.preempt = buf.preempt
        /\ y.buf.index = buf.index /\ y.buf.waitBo = buf.waitBo
    BY <2>1 DEF Done, SameBut
  <2>3. /\ x.args \in [Cmds -> [Args -> Handles]] /\ x.last \in [Cmds -> Nat]
        /\ x.needs \in [Cmds -> BOOLEAN]
    BY DEF StateType, ArgLists
  <2>4. ArgsFrom(y)
    BY <2>1, <2>3 DEF Done, ArgsFrom
  <2>5. ArgsDone(y, i)
    <3>1. SUFFICES ASSUME y.ok, NEW c \in Cmds
                   PROVE  IF c <= i
                          THEN y.args[c] = inputs[c] \/ (y.args[c] = userArgs[c] /\ ~cmdNeedsUpdate[c])
                          ELSE y.args[c] = userArgs[c] /\ y.needs[c] = cmdNeedsUpdate[c]
      BY DEF ArgsDone
    <3>2. IF c <= i - 1
          THEN x.args[c] = inputs[c] \/ (x.args[c] = userArgs[c] /\ ~cmdNeedsUpdate[c])
          ELSE x.args[c] = userArgs[c] /\ x.needs[c] = cmdNeedsUpdate[c]
      BY <1>2 DEF Done, ArgsDone
    <3>3. CASE c = i
      <4>1. x.args[i] = userArgs[i] /\ x.needs[i] = cmdNeedsUpdate[i] /\ c <= i
        BY <1>0, <3>2, <3>3
      <4>2. x.needs[i] => y.args[i] = inputs[i]
        BY <2>1, <2>3, <3>1
      <4>3. ~x.needs[i] => y.args[i] = userArgs[i]
        BY <2>1, <4>1
      <4>. QED
        BY <3>3, <4>1, <4>2, <4>3
    <3>4. CASE c # i
      <4>1. y.args[c] = x.args[c] /\ y.needs[c] = x.needs[c]
        BY <2>1, <2>3, <3>4
      <4>2. c <= i - 1 <=> c <= i
        BY <1>0, <3>4
      <4>. QED
        BY <3>2, <4>1, <4>2
    <3>. QED
      BY <3>3, <3>4
  <2>6. LastFrom(y, s)
    BY <2>1, <2>2, <2>3 DEF Done, LastFrom
  <2>7. LastDone(y, i, s)
    <3>1. SUFFICES ASSUME NEW c \in scratchCmds, c <= i PROVE y.last[c] = s
      BY DEF LastDone
    <3>2. c \in Cmds
      BY DEF Ready
    <3>3. c <= i - 1 => x.last[c] = s
      BY <1>2 DEF Done, LastDone
    <3>4. c = i => y.last[c] = s
      BY <2>1, <2>2, <2>3, <3>2
    <3>5. c # i => c <= i - 1
      BY <1>0, <3>1, <3>2
    <3>6. c # i => y.last[c] = x.last[c]
      BY <2>1, <2>3, <3>2
    <3>. QED
      BY <3>3, <3>4, <3>5, <3>6
  <2>8. ToSet(y.buf.handles) \subseteq Handles
    <3>1. inputs[i] \in [Args -> Handles]
      BY <2>0 DEF ArgLists
    <3>2. ToSet(inputs[i]) \subseteq Handles
      BY <3>1, ArgumentSequence
    <3>3. i \in scratchCmds => x.buf.scratch \in Handles
      BY <2>2 DEF Ready
    <3>. QED
      BY <2>1, <3>2, <3>3 DEF Done, WithScratch, WithArguments
  <2>9. OwnFirst(y.buf)
    <3>1. x.last[i] # x.buf.bo
      BY <2>2 DEF Done, LastFrom, Ready
    <3>2. x.buf.bo \notin ToSet(x.args[i])
      BY <2>2 DEF Done, ArgsFrom, Ready
    <3>. QED
      BY <2>1, <3>1, <3>2 DEF Done
  <2>. QED
    BY <2>2, <2>4, <2>5, <2>6, <2>7, <2>8, <2>9 DEF Done
<1>. QED
  BY <1>1, <1>2

\* No handle comes onto the list but the ones of the arguments and of s.
LEMMA FromStep ==
    ASSUME NEW s, Ready(s), NEW x \in StateType, NEW i \in Cmds, Done(x, i - 1, s), NEW rest,
           HandlesFrom(x.buf.handles, buf.bo, x.args, x.last, rest),
           NEW y, y = IF x.ok THEN Update(UpdateScratchBuffer(x, i), i) ELSE x
    PROVE  HandlesFrom(y.buf.handles, buf.bo, y.args, y.last, rest)
<1>1. CASE ~x.ok
  BY <1>1
<1>2. CASE x.ok
  <2>0. inputs \in ArgLists /\ y = Update(UpdateScratchBuffer(x, i), i)
    BY <1>2 DEF Ready
  <2>1. /\ y.last = IF i \in scratchCmds THEN [x.last EXCEPT ![i] = x.buf.scratch] ELSE x.last
        /\ y.args = IF x.needs[i] /\ ArgumentsFound(i) THEN [x.args EXCEPT ![i] = inputs[i]]
                                                      ELSE x.args
        /\ ToSet(y.buf.handles) = WithArguments(x, i)
    <3>1. RoundResult(x, i, y)
      BY <1>2, <2>0, RoundFacts
    <3>. QED
      BY <3>1 DEF RoundResult
  <2>2. /\ x.args \in [Cmds -> [Args -> Handles]] /\ x.last \in [Cmds -> Nat]
    BY DEF StateType, ArgLists
  <2>3. SUFFICES ASSUME NEW h \in ToSet(y.buf.handles)
                 PROVE  h \in {buf.bo} \cup ArgHandles(y.args) \cup {y.last[c] : c \in Cmds} \cup rest
    BY DEF HandlesFrom
  <2>4. ASSUME h \in ToSet(x.buf.handles), i \in scratchCmds => h # x.last[i],
               x.needs[i] /\ ArgumentsFound(i) => h \notin ToSet(x.args[i])
        PROVE  h \in {buf.bo} \cup ArgHandles(y.args) \cup {y.last[c] : c \in Cmds} \cup rest
    <3>1. h \in {buf.bo} \cup ArgHandles(x.args) \cup {x.last[c] : c \in Cmds} \cup rest
      BY <2>4 DEF HandlesFrom
    <3>2. ASSUME NEW c \in Cmds, h \in ToSet(x.args[c]) PROVE h \in ToSet(y.args[c])
      <4>1. y.args[c] = x.args[c]
        BY <2>1, <2>2, <2>4, <3>2
      <4>. QED
        BY <3>2, <4>1
    <3>3. ASSUME NEW c \in Cmds, h = x.last[c] PROVE h = y.last[c]
      BY <2>1, <2>2, <2>4, <3>3
    <3>. QED
      BY <3>1, <3>2, <3>3 DEF ArgHandles
  <2>5. ASSUME i \in scratchCmds, h = x.buf.scratch
        PROVE  h \in {y.last[c] : c \in Cmds}
    <3>1. y.last[i] = h
      BY <2>1, <2>2, <2>5
    <3>. QED
      BY <3>1
  <2>6. ASSUME x.needs[i] /\ ArgumentsFound(i), h \in ToSet(inputs[i])
        PROVE  h \in ArgHandles(y.args)
    <3>1. y.args[i] = inputs[i]
      BY <2>1, <2>2, <2>6
    <3>. QED
      BY <2>6, <3>1 DEF ArgHandles
  <2>7. \/ /\ h \in ToSet(x.buf.handles)
           /\ i \in scratchCmds => h # x.last[i]
           /\ x.needs[i] /\ ArgumentsFound(i) => h \notin ToSet(x.args[i])
        \/ i \in scratchCmds /\ h = x.buf.scratch
        \/ x.needs[i] /\ ArgumentsFound(i) /\ h \in ToSet(inputs[i])
    BY <2>1, <2>3 DEF WithScratch, WithArguments
  <2>. QED
    BY <2>4, <2>5, <2>6, <2>7
<1>. QED
  BY <1>1, <1>2

\* The scratch buffers and the arguments of two inferences have nothing in common.
Separate(s) ==
    /\ \A c, d \in Cmds : c # d =>
          /\ ToSet(inputs[c]) \cap ToSet(inputs[d]) = {}
          /\ ToSet(inputs[c]) \cap ToSet(userArgs[d]) = {}
          /\ ToSet(userArgs[c]) \cap ToSet(userArgs[d]) = {}
    /\ \A d \in Cmds : /\ s \notin ToSet(userArgs[d])
                       /\ ArgumentsFound(d) => s \notin ToSet(inputs[d])
    /\ \A c, d \in Cmds : /\ lastScratch[c] \notin ToSet(userArgs[d])
                          /\ c # 1 /\ ArgumentsFound(d) => lastScratch[c] \notin ToSet(inputs[d])

\* The list has the arguments of all inferences, and s once an inference has it.
Whole(t, i, s) ==
    /\ \A c \in Cmds : ToSet(t.args[c]) \subseteq ToSet(t.buf.handles)
    /\ t.ok => \A c \in scratchCmds : c <= i => s \in ToSet(t.buf.handles)

LEMMA WholeStep ==
    ASSUME NEW s, Ready(s), Separate(s),
           NEW x \in StateType, NEW i \in Cmds, Done(x, i - 1, s), Whole(x, i - 1, s),
           NEW y, y = IF x.ok THEN Update(UpdateScratchBuffer(x, i), i) ELSE x
    PROVE  Whole(y, i, s)
<1>0. Cmds \subseteq Nat /\ Cmds = 1 .. NumCmds
  BY Parameters DEF Cmds
<1>1. CASE ~x.ok
  BY <1>1 DEF Whole
<1>2. CASE x.ok
  <2>0. inputs \in ArgLists /\ y = Update(UpdateScratchBuffer(x, i), i)
    BY <1>2 DEF Ready
  <2>1. /\ y.args = IF x.needs[i] /\ ArgumentsFound(i) THEN [x.args EXCEPT ![i] = inputs[i]]
                                                      ELSE x.args
        /\ ToSet(y.buf.handles) = WithArguments(x, i)
    <3>1. RoundResult(x, i, y)
      BY <1>2, <2>0, RoundFacts
    <3>. QED
      BY <3>1 DEF RoundResult
  <2>2. /\ x.args \in [Cmds -> [Args -> Handles]] /\ x.last \in [Cmds -> Nat]
        /\ x.buf.scratch = s
    BY DEF StateType, ArgLists, Done
  <2>3. \A d \in Cmds : x.last[i] \notin ToSet(x.args[d])
    <3>1. SUFFICES ASSUME NEW d \in Cmds PROVE x.last[i] \notin ToSet(x.args[d])
      OBVIOUS
    <3>2. x.last[i] \in {lastScratch[i], s}
      BY DEF Done, LastFrom
    <3>3. x.args[d] = userArgs[d] \/ (x.args[d] = inputs[d] /\ ArgumentsFound(d))
      BY DEF Done, ArgsFrom
    <3>4. CASE i = 1
      <4>1. ~(d <= i - 1)
        BY <1>0, <3>4
      <4>2. x.args[d] = userArgs[d]
        BY <1>2, <4>1 DEF Done, ArgsDone
      <4>. QED
        BY <3>2, <4>2 DEF Separate
    <3>5. CASE i # 1
      BY <3>2, <3>3, <3>5 DEF Separate
    <3>. QED
      BY <3>4, <3>5
  <2>4. \A c, d \in Cmds : c # d => ToSet(x.args[c]) \cap ToSet(x.args[d]) = {}
    BY DEF Done, ArgsFrom, Separate
  <2>5. \A d \in Cmds : s \notin ToSet(x.args[d])
    BY DEF Done, ArgsFrom, Separate
  <2>6. ASSUME NEW c \in Cmds PROVE ToSet(y.args[c]) \subseteq ToSet(y.buf.handles)
    <3>1. ToSet(x.args[c]) \subseteq ToSet(x.buf.handles) /\ x.last[i] \notin ToSet(x.args[c])
      BY <2>3 DEF Whole
    <3>2. CASE x.needs[i] /\ ArgumentsFound(i)
      <4>1. CASE c = i
        BY <2>1, <2>2, <3>2, <4>1 DEF WithScratch, WithArguments
      <4>2. CASE c # i
        <5>1. y.args[c] = x.args[c] /\ ToSet(x.args[c]) \cap ToSet(x.args[i]) = {}
          BY <2>1, <2>2, <2>4, <3>2, <4>2
        <5>. QED
          BY <2>1, <3>1, <3>2, <5>1 DEF WithScratch, WithArguments
      <4>. QED
        BY <4>1, <4>2
    <3>3. CASE ~(x.needs[i] /\ ArgumentsFound(i))
      BY <2>1, <3>1, <3>3 DEF WithScratch, WithArguments
    <3>. QED
      BY <3>2, <3>3
  <2>7. ASSUME NEW c \in scratchCmds, c <= i PROVE s \in ToSet(y.buf.handles)
    <3>1. c \in Cmds /\ s \notin ToSet(x.args[i])
      BY <2>5 DEF Ready
    <3>2. c # i => c <= i - 1
      BY <1>0, <2>7, <3>1
    <3>3. c # i => s \in ToSet(x.buf.handles)
      BY <1>2, <3>2 DEF Whole
    <3>. QED
      BY <2>1, <2>2, <3>1, <3>3 DEF WithScratch, WithArguments
  <2>. QED
    BY <2>6, <2>7 DEF Whole
<1>. QED
  BY <1>1, <1>2

\* What updateCommands returns.
LEMMA Updated ==
    ASSUME NEW s, Ready(s), NEW t, t = UpdateCommands(Start, s)
    PROVE  /\ t \in StateType /\ Done(t, NumCmds, s)
           /\ \A rest : HandlesFrom(buf.handles, buf.bo, userArgs, lastScratch, rest)
                           => HandlesFrom(t.buf.handles, buf.bo, t.args, t.last, rest)
           /\ Separate(s) /\ (\A c \in Cmds : ToSet(userArgs[c]) \subseteq ToSet(buf.handles))
                 => Whole(t, NumCmds, s)
           /\ 1 \in scratchCmds => t.last[1] = s
<1>0. NumCmds \in Nat /\ NumCmds \in 0 .. NumCmds /\ Cmds = 1 .. NumCmds /\ 1 .. NumCmds \subseteq Nat
  BY Parameters DEF Cmds
<1>. DEFINE x0 == [Start EXCEPT !.buf.scratch = s]
<1>1. PICK f \in [0 .. NumCmds -> StateType] :
         /\ f[0] = x0
         /\ \A i \in 1 .. NumCmds :
               f[i] = IF f[i - 1].ok THEN Update(UpdateScratchBuffer(f[i - 1], i), i) ELSE f[i - 1]
         /\ UpdateCommands(Start, s) = f[NumCmds]
  BY UpdateRounds DEF Ready
<1>2. /\ Start \in StateType /\ buf \in BufType /\ s \in Nat
      /\ Start.buf = buf /\ Start.args = userArgs /\ Start.needs = cmdNeedsUpdate
      /\ Start.last = lastScratch /\ Start.ok = TRUE
  BY DEF Ready, Start, StateType
<1>3. /\ x0.buf.bo = buf.bo /\ x0.buf.scratch = s /\ x0.buf.preempt = buf.preempt
      /\ x0.buf.index = buf.index /\ x0.buf.waitBo = buf.waitBo
      /\ x0.buf.handles = buf.handles
      /\ x0.args = userArgs /\ x0.needs = cmdNeedsUpdate /\ x0.last = lastScratch /\ x0.ok = TRUE
  BY <1>2 DEF StateType, BufType
<1>. HIDE DEF x0
<1>4. ASSUME NEW i \in 1 .. NumCmds
      PROVE  /\ i - 1 \in 0 .. NumCmds /\ i \in 0 .. NumCmds /\ i \in Cmds
             /\ f[i - 1] \in StateType
             /\ f[i] = IF f[i - 1].ok THEN Update(UpdateScratchBuffer(f[i - 1], i), i)
                                      ELSE f[i - 1]
  <2>1. i - 1 \in 0 .. NumCmds /\ i \in 0 .. NumCmds /\ i \in Cmds
    BY <1>0
  <2>. QED
    BY <1>1, <2>1
<1>5. \A i \in 0 .. NumCmds : Done(f[i], i, s)
  <2>. DEFINE S == {i \in 0 .. NumCmds : Done(f[i], i, s)}
  <2>1. 0 \in S
    <3>1. \A c \in Cmds : ~(c <= 0)
      BY <1>0
    <3>2. ArgsFrom(x0) /\ ArgsDone(x0, 0) /\ LastFrom(x0, s) /\ LastDone(x0, 0, s)
      BY <1>3, <3>1 DEF ArgsFrom, ArgsDone, LastFrom, LastDone, Ready
    <3>3. ToSet(x0.buf.handles) \subseteq Handles /\ OwnFirst(x0.buf)
      BY <1>3 DEF Ready, OwnFirst
    <3>4. Done(x0, 0, s)
      BY <1>3, <3>2, <3>3 DEF Done
    <3>. QED
      BY <1>0, <1>1, <3>4
  <2>2. ASSUME NEW i \in 1 .. NumCmds, i - 1 \in S PROVE i \in S
    <3>1. Done(f[i - 1], i - 1, s)
      BY <2>2
    <3>2. Done(f[i], i, s)
      BY <1>4, <3>1, DoneStep
    <3>. QED
      BY <1>4, <3>2
  <2>3. \A i \in 0 .. NumCmds : i \in S
    <3>. HIDE DEF S
    <3>. QED
      BY <1>0, <2>1, <2>2, UpTo
  <2>. QED
    BY <2>3
<1>6. ASSUME NEW rest, HandlesFrom(buf.handles, buf.bo, userArgs, lastScratch, rest)
      PROVE  HandlesFrom(f[NumCmds].buf.handles, buf.bo, f[NumCmds].args, f[NumCmds].last, rest)
  <2>. DEFINE From(x) == HandlesFrom(x.buf.handles, buf.bo, x.args, x.last, rest)
              S == {i \in 0 .. NumCmds : From(f[i])}
  <2>1. 0 \in S
    BY <1>0, <1>1, <1>3, <1>6
  <2>2. ASSUME NEW i \in 1 .. NumCmds, i - 1 \in S PROVE i \in S
    <3>1. Done(f[i - 1], i - 1, s)
      BY <1>4, <1>5
    <3>2. From(f[i - 1])
      BY <2>2
    <3>3. From(f[i])
      <4>. DEFINE x == f[i - 1]
                  y == f[i]
      <4>1. /\ x \in StateType /\ i \in Cmds /\ Done(x, i - 1, s)
            /\ HandlesFrom(x.buf.handles, buf.bo, x.args, x.last, rest)
            /\ y = IF x.ok THEN Update(UpdateScratchBuffer(x, i), i) ELSE x
        BY <1>4, <3>1, <3>2
      <4>. HIDE DEF x, y
      <4>2. HandlesFrom(y.buf.handles, buf.bo, y.args, y.last, rest)
        BY <4>1, FromStep
      <4>. QED
        BY <4>2 DEF y
    <3>. QED
      BY <1>4, <3>3
  <2>3. \A i \in 0 .. NumCmds : i \in S
    <3>. HIDE DEF S
    <3>. QED
      BY <1>0, <2>1, <2>2, UpTo
  <2>. QED
    BY <1>0, <2>3
<1>7. ASSUME Separate(s), \A c \in Cmds : ToSet(userArgs[c]) \subseteq ToSet(buf.handles)
      PROVE  Whole(f[NumCmds], NumCmds, s)
  <2>. DEFINE S == {i \in 0 .. NumCmds : Whole(f[i], i, s)}
  <2>1. 0 \in S
    <3>1. \A c \in scratchCmds : ~(c <= 0)
      BY <1>0 DEF Ready
    <3>2. Whole(x0, 0, s)
      BY <1>3, <1>7, <3>1 DEF Whole
    <3>. QED
      BY <1>0, <1>1, <3>2
  <2>2. ASSUME NEW i \in 1 .. NumCmds, i - 1 \in S PROVE i \in S
    <3>1. Done(f[i - 1], i - 1, s)
      BY <1>4, <1>5
    <3>2. Whole(f[i - 1], i - 1, s)
      BY <2>2
    <3>3. Whole(f[i], i, s)
      BY <1>4, <1>7, <3>1, <3>2, WholeStep
    <3>. QED
      BY <1>4, <3>3
  <2>3. \A i \in 0 .. NumCmds : i \in S
    <3>. HIDE DEF S
    <3>. QED
      BY <1>0, <2>1, <2>2, UpTo
  <2>. QED
    BY <1>0, <2>3
<1>8. ASSUME 1 \in scratchCmds PROVE f[NumCmds].last[1] = s
  <2>. DEFINE S == {i \in 0 .. NumCmds : i = 0 \/ f[i].last[1] = s}
  <2>1. 0 \in S
    BY <1>0
  <2>2. ASSUME NEW i \in 1 .. NumCmds, i - 1 \in S PROVE i \in S
    <3>. DEFINE x == f[i - 1]
                y == f[i]
    <3>1. /\ x \in StateType /\ Done(x, i - 1, s) /\ i \in Cmds
          /\ y = IF x.ok THEN Update(UpdateScratchBuffer(x, i), i) ELSE x
      BY <1>4, <1>5
    <3>2. i = 1 => x.ok
      BY <1>1, <1>3
    <3>3. i # 1 => x.last[1] = s
      BY <1>0, <2>2
    <3>. HIDE DEF x, y
    <3>4. x.buf.scratch = s /\ x.last \in [Cmds -> Nat]
      BY <3>1 DEF Done, StateType
    <3>5. y.last[1] = s
      <4>1. CASE ~x.ok
        BY <3>1, <3>2, <3>3, <4>1
      <4>2. CASE x.ok
        <5>1. y = Update(UpdateScratchBuffer(x, i), i) /\ inputs \in ArgLists
          BY <3>1, <4>2 DEF Ready
        <5>2. RoundResult(x, i, y)
          BY <3>1, <4>2, <5>1, RoundFacts
        <5>3. y.last = IF i \in scratchCmds THEN [x.last EXCEPT ![i] = s] ELSE x.last
          BY <3>4, <5>2 DEF RoundResult
        <5>4. 1 \in Cmds
          BY <1>8 DEF Ready
        <5>5. CASE i = 1
          BY <1>8, <3>4, <5>3, <5>4, <5>5
        <5>6. CASE i # 1
          BY <3>3, <3>4, <5>3, <5>4, <5>6
        <5>. QED
          BY <5>5, <5>6
      <4>. QED
        BY <4>1, <4>2
    <3>. QED
      BY <1>4, <3>5 DEF y
  <2>3. \A i \in 0 .. NumCmds : i \in S
    <3>. HIDE DEF S
    <3>. QED
      BY <1>0, <2>1, <2>2, UpTo
  <2>4. NumCmds # 0
    BY ParametersAssumption
  <2>. QED
    BY <1>0, <2>3, <2>4
<1>. QED
  BY <1>0, <1>1, <1>5, <1>6, <1>7, <1>8

-----------------------------------------------------------------------------
(* The handles the kernel gives out.                                       *)

LEMMA NewHandleFree ==
    ASSUME NEW open, Handles \ open # {}
    PROVE  NewHandle(open) \in Handles /\ NewHandle(open) \notin open
<1>. DEFINE F == Handles \ open
<1>1. F \in SUBSET Nat /\ F # {}
  BY Parameters
<1>2. NewHandle(open) = CHOOSE x \in F : \A y \in F : x <= y
  BY DEF NewHandle, Min
<1>. HIDE DEF F
<1>3. NewHandle(open) \in F
  BY <1>1, <1>2, Least
<1>. QED
  BY <1>3 DEF F

LEMMA HandlesFinite ==
    /\ IsFiniteSet(Handles) /\ IsFiniteSet(Handles \ Open)
    /\ Cardinality(Handles \ Open) \in Nat
<1>1. MaxHandle \in Nat /\ 1 \in Nat
  BY ParametersAssumption
<1>2. IsFiniteSet(Handles)
  BY <1>1, FS_Interval DEF Handles
<1>3. IsFiniteSet(Handles \ Open)
  BY <1>2, FS_Subset
<1>. QED
  BY <1>2, <1>3, FS_CardinalityType

LEMMA RoomLeft ==
    ASSUME NEW D, IsFiniteSet(D), Cardinality(D) < Cardinality(Handles \ Open)
    PROVE  Handles \ (Open \cup D) # {}
<1>1. SUFFICES ASSUME Handles \ (Open \cup D) = {} PROVE FALSE
  OBVIOUS
<1>. DEFINE F == Handles \ Open
<1>2. F \subseteq D
  BY <1>1
<1>. HIDE DEF F
<1>3. Cardinality(F) <= Cardinality(D)
  BY <1>2, FS_Subset
<1>4. Cardinality(F) \in Nat /\ Cardinality(D) \in Nat
  BY HandlesFinite, FS_CardinalityType DEF F
<1>. QED
  BY <1>3, <1>4 DEF F

\* Handles p and s that are not open take one handle each.
Taken(h) == IF h \in Open \cup {NoBo} THEN 0 ELSE 1

LEMMA RoomForOne ==
    ASSUME NEW p, NEW s, Taken(p) + Taken(s) < Cardinality(Handles \ Open)
    PROVE  Handles \ (Open \cup {p, s}) # {}
<1>0. NoBo \notin Handles
  BY Parameters
<1>1. \A a : IsFiniteSet({a}) /\ Cardinality({a}) = 1
  BY FS_Singleton
<1>2. IsFiniteSet({p, s}) /\ Cardinality({p, s}) <= 2
  <2>1. CASE p = s
    <3>1. {p, s} = {p}
      BY <2>1
    <3>. QED
      BY <1>1, <3>1
  <2>2. CASE p # s
    <3>1. {p, s} = {p} \cup {s} /\ s \notin {p}
      BY <2>2
    <3>2. IsFiniteSet({p} \cup {s}) /\ Cardinality({p} \cup {s}) = Cardinality({p}) + 1
      BY <1>1, <3>1, FS_AddElement
    <3>. DEFINE U == {p} \cup {s}
    <3>3. {p, s} = U
      BY <3>1
    <3>4. IsFiniteSet(U) /\ Cardinality(U) = Cardinality({p}) + 1
      BY <3>2
    <3>5. Cardinality({p}) = 1
      BY <1>1
    <3>. HIDE DEF U
    <3>. QED
      BY <3>3, <3>4, <3>5
  <2>. QED
    BY <2>1, <2>2
<1>3. IsFiniteSet({}) /\ Cardinality({}) = 0
  BY FS_EmptySet
<1>4. Cardinality(Handles \ Open) \in Nat /\ Cardinality({p, s}) \in Nat
  BY <1>2, HandlesFinite, FS_CardinalityType
<1>. DEFINE D == {p, s} \ (Open \cup {NoBo})
<1>5. SUFFICES Handles \ (Open \cup D) # {}
  BY <1>0
<1>6. CASE p \in Open \cup {NoBo} /\ s \in Open \cup {NoBo}
  <2>1. D = {} /\ Taken(p) + Taken(s) = 0
    BY <1>6 DEF Taken
  <2>. HIDE DEF D
  <2>. QED
    BY <1>3, <2>1, RoomLeft
<1>7. CASE p \in Open \cup {NoBo} /\ s \notin Open \cup {NoBo}
  <2>1. D = {s} /\ Taken(p) + Taken(s) = 1
    BY <1>7 DEF Taken
  <2>. HIDE DEF D
  <2>. QED
    BY <1>1, <2>1, RoomLeft
<1>8. CASE p \notin Open \cup {NoBo} /\ s \in Open \cup {NoBo}
  <2>1. D = {p} /\ Taken(p) + Taken(s) = 1
    BY <1>8 DEF Taken
  <2>. HIDE DEF D
  <2>. QED
    BY <1>1, <2>1, RoomLeft
<1>9. CASE p \notin Open \cup {NoBo} /\ s \notin Open \cup {NoBo}
  <2>1. D = {p, s} /\ Taken(p) + Taken(s) = 2
    BY <1>9 DEF Taken
  <2>. HIDE DEF D
  <2>2. Cardinality(D) < Cardinality(Handles \ Open)
    BY <1>2, <1>4, <2>1
  <2>. QED
    BY <1>2, <2>1, <2>2, RoomLeft
<1>. QED
  BY <1>6, <1>7, <1>8, <1>9

-----------------------------------------------------------------------------
(* What holds in every state, whatever the application does.               *)

Users == held \cup ArgHandles(userArgs)

\* Command buffers, whose fences this list or the next one of the queue waits for.
Fences == ({buf.bo, buf.waitBo, lastWaitBo} \cup others) \ {NoBo}

TypeInv ==
    /\ scratchCmds \subseteq Cmds /\ preemption \in BOOLEAN
    /\ held \subseteq Handles /\ scratchCache \subseteq Handles /\ others \subseteq Handles
    /\ inputs \in ArgLists /\ userArgs \in ArgLists
    /\ cmdNeedsUpdate \in [Cmds -> BOOLEAN]
    /\ lastScratch \in [Cmds -> Handles \cup {NoBo}]
    /\ buf \in BufType /\ buf.bo \in Handles
    /\ {buf.scratch, buf.preempt, buf.waitBo, lastWaitBo, preemptBo} \subseteq Handles \cup {NoBo}
    /\ ToSet(buf.handles) \subseteq Handles /\ OwnFirst(buf)
    /\ inOrder \in BOOLEAN
    /\ submits \in 0 .. MaxSubmits /\ calls \in 0 .. MaxCalls
    /\ buf.preempt = NoBo => buf.index = 0
    /\ buf.preempt # NoBo => buf.index >= 1
    /\ ~preemption => preemptBo = NoBo
    /\ ~inOrder => buf.waitBo = NoBo

\* User memory, scratch memory and command buffers are different buffer objects.
ApartInv ==
    /\ Users \cap scratchCache = {}
    /\ Users \cap Fences = {}
    /\ scratchCache \cap Fences = {}
    /\ preemptBo \notin Users /\ preemptBo \notin scratchCache
    /\ \A c \in Cmds : lastScratch[c] # buf.bo /\ (c \notin scratchCmds => lastScratch[c] = NoBo)

ListInv == TypeInv /\ ApartInv

LEMMA OpenFacts ==
    ASSUME TypeInv
    PROVE  /\ Users \subseteq Open /\ Users \subseteq Handles
           /\ scratchCache \subseteq Open
           /\ Fences \subseteq Open /\ Fences \subseteq Handles
           /\ preemptBo \in Open \cup {NoBo}
           /\ Open \subseteq Handles
<1>0. NoBo \notin Handles
  BY Parameters
<1>1. ArgHandles(userArgs) \subseteq Handles
  <2>1. \A c \in Cmds : userArgs[c] \in [Args -> Handles]
    BY DEF TypeInv, ArgLists
  <2>2. \A c \in Cmds : ToSet(userArgs[c]) \subseteq Handles
    BY <2>1, ArgumentSequence
  <2>. QED
    BY <2>2 DEF ArgHandles
<1>2. Open = (held \cup ArgHandles(userArgs) \cup scratchCache \cup others
                \cup {buf.bo, buf.scratch, buf.preempt, buf.waitBo, lastWaitBo, preemptBo}) \ {NoBo}
  BY DEF Open, ArgHandles
<1>. QED
  BY <1>0, <1>1, <1>2 DEF TypeInv, Users, Fences

\* What a submission acquires: preemption buffer p and scratch buffer s.
LEMMA Acquired ==
    ASSUME TypeInv, NEW queue, MayAllocate(SubmitNeeds(queue)),
           NEW p, p = PreemptionBuffer, NEW s \in ScratchAcquire(Open \cup {p})
    PROVE  /\ p = preemptBo \/ (preemption /\ preemptBo = NoBo /\ p \in Handles /\ p \notin Open)
           /\ scratchCmds = {} => s = NoBo
           /\ scratchCmds # {} => s \in scratchCache \/ (s \in Handles /\ s \notin Open \cup {p})
           /\ queue # "inorder" /\ inOrder => Handles \ (Open \cup {p, s}) # {}
<1>0. NoBo \notin Handles /\ Cardinality(Handles \ Open) \in Nat
  BY Parameters, HandlesFinite
<1>. DEFINE a == IF preemption /\ preemptBo = NoBo THEN 1 ELSE 0
            b == IF scratchCmds # {} /\ scratchCache \subseteq {buf.scratch} THEN 1 ELSE 0
            c == IF queue # "inorder" /\ inOrder THEN 1 ELSE 0
<1>1. a + b + c <= Cardinality(Handles \ Open)
  BY <1>0 DEF MayAllocate, SubmitNeeds
<1>2. a \in Nat /\ b \in Nat /\ c \in Nat
  OBVIOUS
<1>3. p = preemptBo \/ (preemption /\ preemptBo = NoBo /\ p \in Handles /\ p \notin Open)
  <2>1. CASE ~preemption
    BY <2>1 DEF PreemptionBuffer, TypeInv
  <2>2. CASE preemption /\ preemptBo # NoBo
    BY <2>2 DEF PreemptionBuffer
  <2>3. CASE preemption /\ preemptBo = NoBo
    <3>1. p = NewHandle(Open)
      BY <2>3 DEF PreemptionBuffer
    <3>2. Cardinality(Handles \ Open) >= 1
      BY <1>0, <1>1, <1>2, <2>3
    <3>3. Handles \ Open # {}
      BY <3>2, FS_EmptySet
    <3>. QED
      BY <2>3, <3>1, <3>3, NewHandleFree
  <2>. QED
    BY <2>1, <2>2, <2>3 DEF TypeInv
<1>4. Taken(p) \in Nat /\ Taken(p) <= a
  <2>1. CASE p = preemptBo
    <3>1. Taken(p) = 0
      BY <2>1, OpenFacts DEF Taken
    <3>. QED
      BY <1>2, <3>1
  <2>2. CASE p # preemptBo
    BY <1>3, <2>2 DEF Taken
  <2>. QED
    BY <2>1, <2>2
<1>5. scratchCmds = {} => s = NoBo
  BY DEF ScratchAcquire
<1>6. /\ scratchCmds # {} => s \in scratchCache \/ (s \in Handles /\ s \notin Open \cup {p})
      /\ Taken(s) \in Nat /\ Taken(s) <= b
  <2>1. CASE scratchCmds = {}
    BY <1>2, <1>5, <2>1 DEF Taken
  <2>2. CASE scratchCmds # {} /\ scratchCache \ {buf.scratch} # {}
    <3>1. s \in scratchCache
      BY <2>2 DEF ScratchAcquire
    <3>2. Taken(s) = 0
      BY <3>1, OpenFacts DEF Taken
    <3>. QED
      BY <1>2, <3>1, <3>2
  <2>3. CASE scratchCmds # {} /\ scratchCache \ {buf.scratch} = {}
    <3>1. s = NewHandle(Open \cup {p}) /\ b = 1
      BY <2>3 DEF ScratchAcquire
    <3>2. Taken(NoBo) = 0
      BY DEF Taken
    <3>3. Taken(p) + Taken(NoBo) < Cardinality(Handles \ Open)
      <4>. HIDE DEF a, b, c
      <4>. QED
        BY <1>0, <1>1, <1>2, <1>4, <3>1, <3>2
    <3>4. Handles \ (Open \cup {p, NoBo}) # {}
      BY <3>3, RoomForOne
    <3>5. Handles \ (Open \cup {p}) # {}
      BY <3>4
    <3>6. s \in Handles /\ s \notin Open \cup {p}
      BY <3>1, <3>5, NewHandleFree
    <3>. QED
      BY <3>1, <3>6 DEF Taken
  <2>. QED
    BY <2>1, <2>2, <2>3
<1>7. ASSUME queue # "inorder", inOrder PROVE Handles \ (Open \cup {p, s}) # {}
  <2>1. c = 1
    BY <1>7
  <2>2. Taken(p) + Taken(s) < Cardinality(Handles \ Open)
    <3>. HIDE DEF a, b, c
    <3>. QED
      BY <1>0, <1>1, <1>2, <1>4, <1>6, <2>1
  <2>. QED
    BY <2>2, RoomForOne
<1>. QED
  BY <1>3, <1>5, <1>6, <1>7

-----------------------------------------------------------------------------
(* What a queue does with the command buffer before the ioctl, and a wait  *)
(* after it.                                                               *)

\* A sequence without its i-th element.
LEMMA Removed ==
    ASSUME NEW S, NEW s \in Seq(S), NEW i \in DOMAIN s
    PROVE  /\ RemoveAt(s, i) \in Seq(S)
           /\ Len(RemoveAt(s, i)) = Len(s) - 1
           /\ \A h \in 1 .. Len(s) - 1 :
                  RemoveAt(s, i)[h] = IF h < i THEN s[h] ELSE s[h+1]
<1> DEFINE a == SubSeq(s, 1, i - 1)
           z == SubSeq(s, i + 1, Len(s))
<1>1. Len(s) \in Nat /\ i \in 1 .. Len(s) /\ \A h \in 1 .. Len(s) : s[h] \in S
  BY LenProperties, ElementOfSeq
<1>2. /\ a \in Seq(S) /\ Len(a) = i - 1
      /\ \A h \in 1 .. i - 1 : a[h] = s[h]
  <2>1. \A h \in 1 .. i - 1 : s[h] \in S
    BY <1>1
  <2>2. /\ a \in Seq(S)
        /\ Len(a) = IF 1 <= i - 1 THEN (i - 1) - 1 + 1 ELSE 0
        /\ \A h \in 1 .. (i - 1) - 1 + 1 : a[h] = s[1 + h - 1]
    BY <1>1, <2>1, SubSeqProperties
  <2>. QED
    BY <1>1, <2>2
<1>3. /\ z \in Seq(S) /\ Len(z) = Len(s) - i
      /\ \A h \in 1 .. Len(s) - i : z[h] = s[i + h]
  <2>1. \A h \in i + 1 .. Len(s) : s[h] \in S
    BY <1>1
  <2>2. /\ z \in Seq(S)
        /\ Len(z) = IF i + 1 <= Len(s) THEN Len(s) - (i + 1) + 1 ELSE 0
        /\ \A h \in 1 .. Len(s) - (i + 1) + 1 : z[h] = s[(i + 1) + h - 1]
    BY <1>1, <2>1, SubSeqProperties
  <2>. QED
    BY <1>1, <2>2
<1>4. /\ a \o z \in Seq(S)
      /\ Len(a \o z) = Len(a) + Len(z)
      /\ \A h \in 1 .. Len(a) + Len(z) :
             (a \o z)[h] = IF h <= Len(a) THEN a[h] ELSE z[h - Len(a)]
  BY <1>2, <1>3, ConcatProperties
<1>5. RemoveAt(s, i) = a \o z
  BY DEF RemoveAt
<1>. HIDE DEF a, z
<1>6. Len(a) + Len(z) = Len(s) - 1
  BY <1>1, <1>2, <1>3
<1>7. ASSUME NEW h \in 1 .. Len(s) - 1
      PROVE  (a \o z)[h] = IF h < i THEN s[h] ELSE s[h+1]
  <2>1. CASE h < i
    <3>1. h \in 1 .. Len(a) + Len(z) /\ h <= Len(a)
      BY <2>1, <1>1, <1>2, <1>6
    <3>2. (a \o z)[h] = a[h]
      BY <3>1, <1>4
    <3>3. a[h] = s[h]
      BY <2>1, <1>1, <1>2
    <3>. QED
      BY <2>1, <3>2, <3>3
  <2>2. CASE h >= i
    <3>1. (a \o z)[h] = z[h - (i - 1)]
      <4>1. h \in 1 .. Len(a) + Len(z) /\ ~(h <= Len(a)) /\ Len(a) = i - 1
        BY <2>2, <1>1, <1>2, <1>6
      <4>. QED
        BY <4>1, <1>4
    <3>2. h - (i - 1) \in 1 .. Len(s) - i /\ i + (h - (i - 1)) = h + 1
      BY <2>2, <1>1
    <3>3. z[h - (i - 1)] = s[i + (h - (i - 1))]
      BY <3>2, <1>3
    <3>4. (a \o z)[h] = s[h + 1]
      BY <3>1, <3>2, <3>3
    <3>5. ~(h < i)
      BY <2>2, <1>1
    <3>. QED
      BY <3>4, <3>5
  <2>3. h < i \/ h >= i
    BY <1>1
  <2>. QED
    BY <2>1, <2>2, <2>3
<1>. QED
  BY <1>4, <1>5, <1>6, <1>7

\* The handles without one of them that is not the first.
LEMMA RemovedOne ==
    ASSUME NEW s \in Seq(Nat), NEW i \in 2 .. Len(s)
    PROVE  /\ RemoveAt(s, i) \in Seq(Nat)
           /\ ToSet(RemoveAt(s, i)) \subseteq ToSet(s)
           /\ ToSet(s) \ {s[i]} \subseteq ToSet(RemoveAt(s, i))
           /\ Len(RemoveAt(s, i)) >= 1 /\ RemoveAt(s, i)[1] = s[1]
<1>1. Len(s) \in Nat /\ i \in DOMAIN s /\ DOMAIN s = 1 .. Len(s) /\ i \in Nat /\ i >= 2 /\ i <= Len(s)
  OBVIOUS
<1>. DEFINE r == RemoveAt(s, i)
<1>2. /\ r \in Seq(Nat) /\ Len(r) = Len(s) - 1
      /\ \A h \in 1 .. Len(s) - 1 : r[h] = IF h < i THEN s[h] ELSE s[h+1]
  BY <1>1, Removed
<1>. HIDE DEF r
<1>3. DOMAIN r = 1 .. Len(s) - 1
  BY <1>2
<1>4. ToSet(r) \subseteq ToSet(s)
  <2>1. \A h \in 1 .. Len(s) - 1 : h \in DOMAIN s /\ h + 1 \in DOMAIN s
    BY <1>1
  <2>. QED
    BY <1>2, <1>3, <2>1 DEF ToSet
<1>5. ASSUME NEW h \in DOMAIN s, s[h] # s[i] PROVE s[h] \in ToSet(r)
  <2>1. h # i /\ h \in 1 .. Len(s) /\ h \in Nat
    BY <1>1, <1>5
  <2>2. CASE h < i
    <3>1. h \in 1 .. Len(s) - 1
      BY <1>1, <2>1, <2>2
    <3>2. r[h] = s[h]
      BY <1>2, <2>2, <3>1
    <3>. QED
      BY <1>3, <3>1, <3>2 DEF ToSet
  <2>3. CASE h > i
    <3>1. h - 1 \in 1 .. Len(s) - 1 /\ ~(h - 1 < i) /\ h - 1 + 1 = h
      BY <1>1, <2>1, <2>3
    <3>2. r[h - 1] = s[h]
      BY <1>2, <3>1
    <3>. QED
      BY <1>3, <3>1, <3>2 DEF ToSet
  <2>. QED
    BY <1>1, <2>1, <2>2, <2>3
<1>6. ToSet(s) \ {s[i]} \subseteq ToSet(r)
  <2>1. ASSUME NEW v \in ToSet(s) \ {s[i]} PROVE v \in ToSet(r)
    <3>1. PICK h \in DOMAIN s : v = s[h]
      BY DEF ToSet
    <3>. QED
      BY <1>5, <3>1
  <2>. QED
    BY <2>1
<1>7. Len(r) >= 1 /\ r[1] = s[1]
  BY <1>1, <1>2
<1>. QED
  BY <1>2, <1>4, <1>6, <1>7 DEF r

LEMMA Appended ==
    ASSUME NEW s \in Seq(Nat), NEW h \in Nat
    PROVE  /\ Append(s, h) \in Seq(Nat)
           /\ ToSet(Append(s, h)) = ToSet(s) \cup {h}
           /\ Len(Append(s, h)) = Len(s) + 1 /\ Append(s, h)[Len(s) + 1] = h
           /\ \A i \in 1 .. Len(s) : Append(s, h)[i] = s[i]
<1>1. /\ Append(s, h) \in Seq(Nat)
      /\ Len(Append(s, h)) = Len(s) + 1 /\ Append(s, h)[Len(s) + 1] = h
      /\ \A i \in 1 .. Len(s) : Append(s, h)[i] = s[i]
  OBVIOUS
<1>2. DOMAIN s = 1 .. Len(s) /\ DOMAIN Append(s, h) = 1 .. Len(s) + 1 /\ Len(s) \in Nat
  OBVIOUS
<1>3. 1 .. Len(s) + 1 = (1 .. Len(s)) \cup {Len(s) + 1}
  BY <1>2
<1>4. ToSet(Append(s, h)) = ToSet(s) \cup {h}
  BY <1>1, <1>2, <1>3 DEF ToSet
<1>. QED
  BY <1>1, <1>4

PreemptionResult(b, p, r) ==
    /\ r \in BufType
    /\ r.bo = b.bo /\ r.scratch = b.scratch /\ r.waitBo = b.waitBo
    /\ ToSet(b.handles) \subseteq ToSet(r.handles)
    /\ ToSet(r.handles) \subseteq ToSet(b.handles) \cup ({p} \ {NoBo})
    /\ OwnFirst(b) => OwnFirst(r)
    /\ b.preempt # NoBo \/ p = NoBo => r = b
    /\ b.preempt = NoBo /\ p # NoBo =>
          /\ r.preempt = p /\ r.index = Len(b.handles)
          /\ r.index < Len(r.handles) /\ r.handles[r.index + 1] = p

\* addPreemptionBuffer.
LEMMA PreemptionAdded ==
    ASSUME NEW b \in BufType, NEW p \in Nat, NEW r, r = AddPreemptionBuffer(b, p)
    PROVE  PreemptionResult(b, p, r)
<1>. USE DEF PreemptionResult
<1>1. CASE b.preempt # NoBo \/ p = NoBo
  BY <1>1 DEF AddPreemptionBuffer
<1>2. CASE b.preempt = NoBo /\ p # NoBo
  <2>1. b.handles \in Seq(Nat) /\ Len(b.handles) \in Nat
    BY DEF BufType
  <2>2. r = [b EXCEPT !.preempt = p, !.index = Len(b.handles), !.handles = Append(b.handles, p)]
    BY <1>2 DEF AddPreemptionBuffer, BufType
  <2>3. /\ r.bo = b.bo /\ r.scratch = b.scratch /\ r.waitBo = b.waitBo
        /\ r.preempt = p /\ r.index = Len(b.handles) /\ r.handles = Append(b.handles, p)
    BY <2>2 DEF BufType
  <2>4. /\ Append(b.handles, p) \in Seq(Nat)
        /\ ToSet(Append(b.handles, p)) = ToSet(b.handles) \cup {p}
        /\ Len(Append(b.handles, p)) = Len(b.handles) + 1
        /\ Append(b.handles, p)[Len(b.handles) + 1] = p
        /\ \A i \in 1 .. Len(b.handles) : Append(b.handles, p)[i] = b.handles[i]
    BY <2>1, Appended
  <2>5. r \in BufType
    BY <2>1, <2>2, <2>4 DEF BufType
  <2>6. OwnFirst(b) => OwnFirst(r)
    BY <2>1, <2>3, <2>4 DEF OwnFirst
  <2>. QED
    BY <1>2, <2>1, <2>3, <2>4, <2>5, <2>6
<1>. QED
  BY <1>1, <1>2

WaitedResult(b, r) ==
    /\ r \in BufType
    /\ r.bo = b.bo /\ r.waitBo = b.waitBo
    /\ r.scratch = NoBo /\ r.preempt = NoBo /\ r.index = 0
    /\ ToSet(r.handles) \subseteq ToSet(b.handles)
    /\ OwnFirst(r)
    /\ b.preempt # NoBo /\ b.index < Len(b.handles) =>
          ToSet(b.handles) \ {b.handles[b.index + 1]} \subseteq ToSet(r.handles)
    /\ b.preempt = NoBo => r.handles = b.handles

\* A successful waitForCompletion.
LEMMA WaitedDone ==
    ASSUME NEW b \in BufType, OwnFirst(b),
           b.preempt = NoBo => b.index = 0, b.preempt # NoBo => b.index >= 1,
           NEW r, r = WaitDone(b)
    PROVE  WaitedResult(b, r)
<1>. USE DEF WaitedResult
<1>0. NoBo \in Nat /\ b.handles \in Seq(Nat) /\ Len(b.handles) \in Nat /\ b.index \in Nat
  BY Parameters DEF BufType
<1>1. CASE b.preempt = NoBo
  <2>1. r = [b EXCEPT !.scratch = NoBo]
    BY <1>1 DEF WaitDone, BufType
  <2>2. /\ r.bo = b.bo /\ r.waitBo = b.waitBo /\ r.scratch = NoBo /\ r.preempt = NoBo
        /\ r.index = 0 /\ r.handles = b.handles
    BY <1>1, <2>1 DEF BufType
  <2>3. r \in BufType
    BY <1>0, <2>1 DEF BufType
  <2>. QED
    BY <1>1, <2>2, <2>3 DEF OwnFirst
<1>2. CASE b.preempt # NoBo
  <2>. DEFINE h == IF b.index < Len(b.handles) THEN RemoveAt(b.handles, b.index + 1) ELSE b.handles
  <2>1. r = [b EXCEPT !.scratch = NoBo, !.preempt = NoBo, !.index = 0, !.handles = h]
    BY <1>2 DEF WaitDone, BufType
  <2>2. /\ h \in Seq(Nat) /\ ToSet(h) \subseteq ToSet(b.handles)
        /\ Len(h) >= 1 /\ h[1] = b.handles[1]
        /\ b.index < Len(b.handles) => ToSet(b.handles) \ {b.handles[b.index + 1]} \subseteq ToSet(h)
    <3>1. CASE b.index < Len(b.handles)
      <4>1. b.index + 1 \in 2 .. Len(b.handles)
        BY <1>0, <1>2, <3>1
      <4>2. h = RemoveAt(b.handles, b.index + 1)
        BY <3>1
      <4>. HIDE DEF h
      <4>. QED
        BY <1>0, <3>1, <4>1, <4>2, RemovedOne
    <3>2. CASE ~(b.index < Len(b.handles))
      BY <1>0, <3>2 DEF OwnFirst
    <3>. QED
      BY <3>1, <3>2
  <2>. HIDE DEF h
  <2>3. /\ r.bo = b.bo /\ r.waitBo = b.waitBo /\ r.scratch = NoBo /\ r.preempt = NoBo
        /\ r.index = 0 /\ r.handles = h
    BY <2>1 DEF BufType
  <2>4. r \in BufType
    <3>1. h \in Seq(Nat)
      BY <2>2
    <3>2. r = [bo |-> b.bo, handles |-> h, scratch |-> NoBo, preempt |-> NoBo, index |-> 0,
               waitBo |-> b.waitBo]
      BY <2>1 DEF BufType
    <3>3. b.bo \in Nat /\ b.waitBo \in Nat
      BY DEF BufType
    <3>. QED
      BY <1>0, <3>1, <3>2, <3>3 DEF BufType
  <2>. QED
    BY <1>2, <2>2, <2>3, <2>4 DEF OwnFirst
<1>. QED
  BY <1>1, <1>2

WaitResult(b, w, r) ==
    /\ r \in BufType
    /\ r.bo = b.bo /\ r.scratch = b.scratch /\ r.preempt = b.preempt /\ r.index = b.index
    /\ r.waitBo = w
    /\ ToSet(r.handles) = ToSet(b.handles) \cup ({w} \ {NoBo})
    /\ OwnFirst(r)
    /\ Len(b.handles) <= Len(r.handles)
    /\ \A i \in 1 .. Len(b.handles) : r.handles[i] = b.handles[i]

\* addWaitAtHead.
LEMMA WaitAdded ==
    ASSUME NEW b \in BufType, OwnFirst(b), NEW w \in Nat, NEW r, r = AddWaitAtHead(b, w)
    PROVE  WaitResult(b, w, r)
<1>. USE DEF WaitResult
<1>0. NoBo \in Nat /\ b.handles \in Seq(Nat) /\ Len(b.handles) \in Nat
  BY Parameters DEF BufType
<1>1. CASE w = NoBo
  <2>1. r = [b EXCEPT !.waitBo = NoBo]
    BY <1>1 DEF AddWaitAtHead
  <2>2. /\ r.bo = b.bo /\ r.scratch = b.scratch /\ r.preempt = b.preempt /\ r.index = b.index
        /\ r.waitBo = NoBo /\ r.handles = b.handles
    BY <2>1 DEF BufType
  <2>3. r \in BufType
    BY <1>0, <2>1 DEF BufType
  <2>. QED
    BY <1>0, <1>1, <2>2, <2>3 DEF OwnFirst
<1>2. CASE w # NoBo
  <2>. DEFINE h == AddUniqueBoHandle(b.handles, w)
  <2>1. /\ h \in Seq(Nat) /\ ToSet(h) = ToSet(b.handles) \cup {w}
        /\ Len(b.handles) <= Len(h) /\ \A i \in 1 .. Len(b.handles) : h[i] = b.handles[i]
    BY <1>0, AddUnique
  <2>2. r = [b EXCEPT !.waitBo = w, !.handles = h]
    BY <1>2 DEF AddWaitAtHead, BufType
  <2>. HIDE DEF h
  <2>3. /\ r.bo = b.bo /\ r.scratch = b.scratch /\ r.preempt = b.preempt /\ r.index = b.index
        /\ r.waitBo = w /\ r.handles = h
    BY <2>2 DEF BufType
  <2>4. r \in BufType
    BY <2>1, <2>2 DEF BufType
  <2>5. OwnFirst(r)
    <3>1. Len(h) \in Nat
      BY <2>1
    <3>. QED
      BY <1>0, <2>1, <2>3, <3>1 DEF OwnFirst
  <2>. QED
    BY <1>2, <2>1, <2>3, <2>4, <2>5
<1>. QED
  BY <1>1, <1>2

-----------------------------------------------------------------------------
(* A submission up to the ioctl.                                           *)

LEMMA BeforeIoctl ==
    ASSUME ListInv, NEW queue, MayAllocate(SubmitNeeds(queue)),
           NEW p, p = PreemptionBuffer, NEW s \in ScratchAcquire(Open \cup {p}),
           NEW st, st = UpdateCommands(Start, s)
    PROVE  /\ Ready(s)
           /\ st \in StateType /\ Done(st, NumCmds, s)
           /\ s \in Handles \cup {NoBo} /\ s \notin Users /\ s \notin Fences
           /\ p \in Handles \cup {NoBo} /\ p \notin Users /\ preemptBo \in {p, NoBo}
           /\ ~preemption => p = NoBo
           /\ ArgHandles(st.args) \subseteq Users
           /\ \A c \in Cmds : /\ st.last[c] \in Handles \cup {NoBo} /\ st.last[c] # buf.bo
                              /\ c \notin scratchCmds => st.last[c] = NoBo
                              /\ st.ok => st.last[c] \in {s, NoBo}
           /\ ScratchKept(s) \subseteq Handles
           /\ ScratchKept(s) \cap Users = {} /\ ScratchKept(s) \cap Fences = {}
           /\ p \notin ScratchKept(s)
<1>0. NoBo \notin Handles /\ NoBo \in Nat /\ Handles \subseteq Nat /\ Cmds = 1 .. NumCmds
  BY Parameters DEF Cmds
<1>1. /\ Users \subseteq Open /\ Users \subseteq Handles
      /\ scratchCache \subseteq Open
      /\ Fences \subseteq Open /\ Fences \subseteq Handles
  BY OpenFacts DEF ListInv
<1>2. /\ p = preemptBo \/ (preemption /\ preemptBo = NoBo /\ p \in Handles /\ p \notin Open)
      /\ scratchCmds = {} => s = NoBo
      /\ scratchCmds # {} => s \in scratchCache \/ (s \in Handles /\ s \notin Open \cup {p})
  BY Acquired DEF ListInv
<1>3. s \in Handles \cup {NoBo} /\ s \notin Users /\ s \notin Fences
  BY <1>0, <1>1, <1>2 DEF ListInv, TypeInv, ApartInv
<1>4. /\ p \in Handles \cup {NoBo} /\ p \notin Users /\ preemptBo \in {p, NoBo}
      /\ ~preemption => p = NoBo
  BY <1>1, <1>2 DEF ListInv, TypeInv, ApartInv
<1>5. buf.bo \in Fences
  BY <1>0 DEF Fences, ListInv, TypeInv
<1>6. Ready(s)
  <2>1. Start \in StateType
    <3>1. lastScratch \in [Cmds -> Nat]
      BY <1>0 DEF ListInv, TypeInv
    <3>. QED
      BY <3>1 DEF Start, StateType, ListInv, TypeInv
  <2>2. s \in Nat /\ s # buf.bo /\ (scratchCmds # {} => s \in Handles)
    BY <1>0, <1>2, <1>3, <1>5 DEF ListInv, TypeInv
  <2>3. \A c \in Cmds : buf.bo \notin ToSet(userArgs[c])
    BY <1>5 DEF ListInv, ApartInv, Users, ArgHandles
  <2>4. ASSUME NEW c \in Cmds, ArgumentsFound(c) PROVE buf.bo \notin ToSet(inputs[c])
    <3>1. inputs[c] \in [Args -> Handles]
      BY DEF ListInv, TypeInv, ArgLists
    <3>2. ToSet(inputs[c]) \subseteq held
      BY <2>4, <3>1, ArgumentSequence DEF ArgumentsFound
    <3>. QED
      BY <1>5, <3>2 DEF ListInv, ApartInv, Users
  <2>. QED
    BY <2>1, <2>2, <2>3, <2>4 DEF Ready, ListInv, TypeInv, ApartInv
<1>7. st \in StateType /\ Done(st, NumCmds, s)
  BY <1>6, Updated
<1>8. ArgHandles(st.args) \subseteq Users
  <2>1. ASSUME NEW c \in Cmds PROVE ToSet(st.args[c]) \subseteq Users
    <3>1. st.args[c] = userArgs[c] \/ (st.args[c] = inputs[c] /\ ArgumentsFound(c))
      BY <1>7 DEF Done, ArgsFrom
    <3>2. CASE st.args[c] = userArgs[c]
      BY <3>2 DEF Users, ArgHandles
    <3>3. CASE st.args[c] = inputs[c] /\ ArgumentsFound(c)
      <4>1. inputs[c] \in [Args -> Handles]
        BY DEF ListInv, TypeInv, ArgLists
      <4>2. ToSet(inputs[c]) \subseteq held
        BY <3>3, <4>1, ArgumentSequence DEF ArgumentsFound
      <4>. QED
        BY <3>3, <4>2 DEF Users
    <3>. QED
      BY <3>1, <3>2, <3>3
  <2>. QED
    BY <2>1 DEF ArgHandles
<1>9. ASSUME NEW c \in Cmds
      PROVE  /\ st.last[c] \in Handles \cup {NoBo} /\ st.last[c] # buf.bo
             /\ c \notin scratchCmds => st.last[c] = NoBo
             /\ st.ok => st.last[c] \in {s, NoBo}
  <2>1. st.last[c] \in {lastScratch[c], s} /\ (c \notin scratchCmds => st.last[c] = lastScratch[c])
    BY <1>7 DEF Done, LastFrom
  <2>2. st.ok /\ c \in scratchCmds => st.last[c] = s
    BY <1>0, <1>7 DEF Done, LastDone
  <2>3. /\ lastScratch[c] \in Handles \cup {NoBo} /\ lastScratch[c] # buf.bo
        /\ c \notin scratchCmds => lastScratch[c] = NoBo
    BY DEF ListInv, TypeInv, ApartInv
  <2>. QED
    BY <1>3, <1>5, <2>1, <2>2, <2>3
<1>10. /\ ScratchKept(s) \subseteq Handles
       /\ ScratchKept(s) \cap Users = {} /\ ScratchKept(s) \cap Fences = {}
  BY <1>3 DEF ScratchKept, ListInv, TypeInv, ApartInv
<1>11. p \notin ScratchKept(s)
  <2>1. p \notin scratchCache
    BY <1>1, <1>2 DEF ListInv, ApartInv
  <2>2. p = s => s = NoBo
    BY <1>1, <1>2, <2>1
  <2>. QED
    BY <2>1, <2>2 DEF ScratchKept
<1>. QED
  BY <1>3, <1>4, <1>6, <1>7, <1>8, <1>9, <1>10, <1>11

StrippedResult(args, s, b) ==
    /\ b \in BufType /\ b.bo \in Handles /\ OwnFirst(b)
    /\ b.bo \notin Users /\ b.bo \notin ScratchKept(s)
    /\ b.scratch = NoBo /\ b.preempt = NoBo /\ b.index = 0 /\ b.waitBo = NoBo
    /\ ToSet(b.handles) = {b.bo} \cup ArgHandles(args)

\* The command buffer stripInOrder builds.
LEMMA Stripped ==
    ASSUME ListInv, NEW queue, MayAllocate(SubmitNeeds(queue)), queue # "inorder", inOrder,
           NEW p, p = PreemptionBuffer, NEW s \in ScratchAcquire(Open \cup {p}),
           NEW args \in ArgLists, ArgHandles(args) \subseteq Users,
           NEW b, b = StripInOrder(buf, args, (Open \cup {p, s})
                          \ ({buf.bo, buf.waitBo} \ ({lastWaitBo} \cup others)))
    PROVE  StrippedResult(args, s, b)
<1>. USE DEF StrippedResult
<1>0. NoBo \notin Handles /\ NoBo \in Nat /\ Handles \subseteq Nat
  BY Parameters
<1>. DEFINE open == (Open \cup {p, s}) \ ({buf.bo, buf.waitBo} \ ({lastWaitBo} \cup others))
            bo == NewHandle(open)
<1>1. Handles \ (Open \cup {p, s}) # {}
  BY Acquired DEF ListInv
<1>2. Handles \ open # {}
  BY <1>1
<1>3. bo \in Handles /\ bo \notin open
  BY <1>2, NewHandleFree
<1>4. Users \subseteq open /\ scratchCache \subseteq open
  <2>1. Users \subseteq Open /\ scratchCache \subseteq Open /\ Users \subseteq Handles
    BY OpenFacts DEF ListInv
  <2>2. {buf.bo, buf.waitBo} \ {NoBo} \subseteq Fences
    BY DEF Fences
  <2>. QED
    BY <1>0, <2>1, <2>2 DEF ListInv, TypeInv, ApartInv
<1>5. s \in open \cup {NoBo}
  <2>1. s \notin Fences
    BY BeforeIoctl
  <2>. QED
    BY <2>1 DEF Fences
<1>. HIDE DEF open, bo
<1>6. <<bo>> \in Seq(Nat) /\ ToSet(<<bo>>) = {bo} /\ Len(<<bo>>) >= 1 /\ <<bo>>[1] = bo
  BY <1>0, <1>3, Single
<1>. DEFINE h == CommandHandles(<<bo>>, args)
<1>7. /\ h \in Seq(Nat) /\ ToSet(h) = {bo} \cup ArgHandles(args)
      /\ Len(h) >= 1 /\ h[1] = bo
  <2>. DEFINE f == <<bo>>
  <2>1. f \in Seq(Nat) /\ ToSet(f) = {bo} /\ Len(f) >= 1 /\ f[1] = bo
    BY <1>6
  <2>. HIDE DEF f
  <2>2. /\ CommandHandles(f, args) \in Seq(Nat)
        /\ ToSet(CommandHandles(f, args)) = ToSet(f) \cup ArgHandles(args)
        /\ Len(CommandHandles(f, args)) >= 1
        /\ CommandHandles(f, args)[1] = f[1]
    BY <2>1, CommandsAdded
  <2>. QED
    BY <2>1, <2>2 DEF f
<1>. HIDE DEF h
<1>8. b = [bo |-> bo, handles |-> h, scratch |-> NoBo, preempt |-> NoBo, index |-> 0,
           waitBo |-> NoBo]
  BY DEF StripInOrder, NewCommandBuffer, bo, open, h
<1>9. b \in BufType
  BY <1>0, <1>3, <1>7, <1>8 DEF BufType
<1>10. bo \notin Users /\ bo \notin ScratchKept(s)
  BY <1>0, <1>3, <1>4, <1>5 DEF ScratchKept
<1>11. /\ b.bo = bo /\ b.handles = h /\ b.scratch = NoBo /\ b.preempt = NoBo
       /\ b.index = 0 /\ b.waitBo = NoBo
  BY <1>8
<1>. QED
  BY <1>3, <1>7, <1>9, <1>10, <1>11 DEF OwnFirst

\* What every command buffer the ioctl gets satisfies.
Sound(b) ==
    /\ b \in BufType /\ b.bo \in Handles /\ OwnFirst(b)
    /\ b.scratch \in Handles \cup {NoBo} /\ b.preempt \in Handles \cup {NoBo}
    /\ b.waitBo \in Handles \cup {NoBo}
    /\ ToSet(b.handles) \subseteq Handles
    /\ b.preempt = NoBo => b.index = 0
    /\ b.preempt # NoBo => b.index >= 1

LEMMA PreemptionSound ==
    ASSUME NEW b, Sound(b), NEW p \in Handles \cup {NoBo}, NEW r, r = AddPreemptionBuffer(b, p)
    PROVE  Sound(r) /\ r.bo = b.bo /\ r.scratch = b.scratch /\ r.waitBo = b.waitBo
<1>0. NoBo \notin Handles /\ NoBo \in Nat /\ Handles \subseteq Nat
  BY Parameters
<1>1. b \in BufType /\ p \in Nat
  BY <1>0 DEF Sound
<1>2. PreemptionResult(b, p, r)
  BY <1>1, PreemptionAdded
<1>3. CASE b.preempt # NoBo \/ p = NoBo
  BY <1>2, <1>3 DEF PreemptionResult
<1>4. CASE b.preempt = NoBo /\ p # NoBo
  <2>1. p \in Handles /\ r.preempt = p /\ r.index >= 1
    BY <1>2, <1>4 DEF Sound, OwnFirst, PreemptionResult
  <2>2. ToSet(r.handles) \subseteq Handles
    BY <1>2, <2>1 DEF Sound, PreemptionResult
  <2>. QED
    BY <1>0, <1>2, <1>4, <2>1, <2>2 DEF Sound, PreemptionResult
<1>. QED
  BY <1>3, <1>4

LEMMA WaitSound ==
    ASSUME NEW b, Sound(b), NEW r, r = WaitDone(b)
    PROVE  Sound(r) /\ r.bo = b.bo /\ r.waitBo = b.waitBo /\ r.scratch = NoBo /\ r.preempt = NoBo
<1>0. NoBo \notin Handles /\ NoBo \in Nat /\ Handles \subseteq Nat
  BY Parameters
<1>1. b \in BufType /\ OwnFirst(b) /\ (b.preempt = NoBo => b.index = 0)
      /\ (b.preempt # NoBo => b.index >= 1)
  BY DEF Sound
<1>2. WaitedResult(b, r)
  BY <1>1, WaitedDone
<1>3. ToSet(r.handles) \subseteq Handles
  BY <1>2 DEF Sound, WaitedResult
<1>. QED
  BY <1>2, <1>3 DEF Sound, WaitedResult

LEMMA HeadSound ==
    ASSUME NEW b, Sound(b), NEW w \in Handles \cup {NoBo}, NEW r, r = AddWaitAtHead(b, w)
    PROVE  Sound(r) /\ r.bo = b.bo /\ r.waitBo = w /\ r.scratch = b.scratch /\ r.preempt = b.preempt
<1>0. NoBo \notin Handles /\ NoBo \in Nat /\ Handles \subseteq Nat
  BY Parameters
<1>1. b \in BufType /\ OwnFirst(b) /\ w \in Nat
  BY <1>0 DEF Sound
<1>2. WaitResult(b, w, r)
  BY <1>1, WaitAdded
<1>3. ToSet(r.handles) \subseteq Handles
  BY <1>0, <1>2 DEF Sound, WaitResult
<1>. QED
  BY <1>2, <1>3 DEF Sound, WaitResult

\* What the ioctl gets: a sound command buffer, and its fence no other kind of memory.
PreparedResult(queue, s, st, b) ==
    /\ Sound(b)
    /\ b.bo \notin Users /\ b.bo \notin ScratchKept(s)
    /\ b.waitBo \in {NoBo, lastWaitBo}
    /\ queue # "inorder" => b.waitBo = NoBo
    /\ \A c \in Cmds : st.last[c] # b.bo

LEMMA PreparedFacts ==
    ASSUME ListInv, NEW queue \in {"default", "inorder"}, MayAllocate(SubmitNeeds(queue)),
           NEW p, p = PreemptionBuffer, NEW s \in ScratchAcquire(Open \cup {p}),
           NEW st, st = UpdateCommands(Start, s), st.ok,
           NEW b, b = Prepared(AddPreemptionBuffer(st.buf, p), st.args, queue, Open \cup {p, s})
    PROVE  PreparedResult(queue, s, st, b)
<1>. USE DEF PreparedResult
<1>0. NoBo \notin Handles /\ NoBo \in Nat /\ Handles \subseteq Nat
  BY Parameters
<1>1. /\ st \in StateType /\ Done(st, NumCmds, s)
      /\ s \in Handles \cup {NoBo} /\ s \notin Users /\ s \notin Fences
      /\ p \in Handles \cup {NoBo}
      /\ ArgHandles(st.args) \subseteq Users
      /\ ScratchKept(s) \cap Fences = {}
  BY BeforeIoctl
<1>2. \A c \in Cmds : st.last[c] \in {s, NoBo} /\ st.last[c] # buf.bo
  BY BeforeIoctl
<1>3. s # NoBo => s \in ScratchKept(s)
  BY DEF ScratchKept
<1>4. /\ st.buf \in BufType /\ st.args \in ArgLists
      /\ st.buf.bo = buf.bo /\ st.buf.scratch = s /\ st.buf.preempt = buf.preempt
      /\ st.buf.index = buf.index /\ st.buf.waitBo = buf.waitBo
      /\ ToSet(st.buf.handles) \subseteq Handles /\ OwnFirst(st.buf)
  BY <1>1 DEF StateType, Done
<1>5. /\ buf.bo \in Handles /\ buf.bo \in Fences
      /\ buf.preempt \in Handles \cup {NoBo} /\ buf.waitBo \in Handles \cup {NoBo}
      /\ lastWaitBo \in Handles \cup {NoBo}
      /\ buf.preempt = NoBo => buf.index = 0
      /\ buf.preempt # NoBo => buf.index >= 1
      /\ Users \cap Fences = {}
  BY <1>0 DEF ListInv, TypeInv, ApartInv, Fences
<1>. DEFINE e == st.buf
            a == AddPreemptionBuffer(e, p)
<1>6. Sound(e)
  BY <1>1, <1>4, <1>5 DEF Sound
<1>7. e.bo = buf.bo /\ e.waitBo = buf.waitBo
  BY <1>4
<1>8. b = Prepared(a, st.args, queue, Open \cup {p, s})
  OBVIOUS
<1>. HIDE DEF e
<1>9. Sound(a) /\ a.bo = e.bo /\ a.waitBo = e.waitBo
  BY <1>1, <1>6, PreemptionSound
<1>. HIDE DEF a
<1>10. ASSUME b.bo = buf.bo
       PROVE  b.bo \notin Users /\ b.bo \notin ScratchKept(s) /\ \A c \in Cmds : st.last[c] # b.bo
  BY <1>1, <1>2, <1>5, <1>10
<1>11. CASE queue = "inorder" /\ lastWaitBo = buf.bo
  <2>. DEFINE d == WaitDone(a)
  <2>1. b = AddWaitAtHead(d, NoBo)
    BY <1>7, <1>8, <1>9, <1>11 DEF Prepared, MakeInOrder
  <2>2. Sound(d) /\ d.bo = a.bo
    BY <1>9, WaitSound
  <2>. HIDE DEF d
  <2>3. Sound(b) /\ b.bo = d.bo /\ b.waitBo = NoBo
    <3>1. NoBo \in Handles \cup {NoBo}
      OBVIOUS
    <3>. QED
      BY <2>1, <2>2, <3>1, HeadSound
  <2>. QED
    BY <1>7, <1>9, <1>10, <1>11, <2>2, <2>3
<1>12. CASE queue = "inorder" /\ lastWaitBo # buf.bo
  <2>1. b = AddWaitAtHead(a, lastWaitBo)
    BY <1>7, <1>8, <1>9, <1>12 DEF Prepared, MakeInOrder
  <2>2. Sound(b) /\ b.bo = a.bo /\ b.waitBo = lastWaitBo
    BY <1>5, <1>9, <2>1, HeadSound
  <2>. QED
    BY <1>7, <1>9, <1>10, <1>12, <2>2
<1>13. CASE queue # "inorder" /\ inOrder
  <2>1. b = StripInOrder(buf, st.args, (Open \cup {p, s})
                            \ ({buf.bo, buf.waitBo} \ ({lastWaitBo} \cup others)))
    BY <1>7, <1>8, <1>9, <1>13 DEF Prepared, StripInOrder
  <2>2. /\ b \in BufType /\ b.bo \in Handles /\ OwnFirst(b)
        /\ b.bo \notin Users /\ b.bo \notin ScratchKept(s)
        /\ b.scratch = NoBo /\ b.preempt = NoBo /\ b.index = 0 /\ b.waitBo = NoBo
        /\ ToSet(b.handles) = {b.bo} \cup ArgHandles(st.args)
    <3>. DEFINE args == st.args
    <3>1. args \in ArgLists /\ ArgHandles(args) \subseteq Users
      BY <1>1, <1>4
    <3>2. b = StripInOrder(buf, args, (Open \cup {p, s})
                            \ ({buf.bo, buf.waitBo} \ ({lastWaitBo} \cup others)))
      BY <2>1
    <3>. HIDE DEF args
    <3>3. StrippedResult(args, s, b)
      BY <1>13, <3>1, <3>2, Stripped
    <3>. QED
      BY <3>3 DEF args, StrippedResult
  <2>3. ToSet(b.handles) \subseteq Handles
    BY <1>1, <2>2, OpenFacts DEF ListInv
  <2>4. Sound(b)
    BY <2>2, <2>3 DEF Sound
  <2>5. \A c \in Cmds : st.last[c] # b.bo
    BY <1>0, <1>2, <1>3, <2>2
  <2>. QED
    BY <1>13, <2>2, <2>4, <2>5
<1>14. CASE queue # "inorder" /\ ~inOrder
  <2>1. b = a
    BY <1>8, <1>14 DEF Prepared
  <2>2. buf.waitBo = NoBo
    BY <1>14 DEF ListInv, TypeInv
  <2>. QED
    BY <1>7, <1>9, <1>10, <1>14, <2>1, <2>2
<1>15. inOrder \in BOOLEAN
  BY DEF ListInv, TypeInv
<1>. QED
  BY <1>11, <1>12, <1>13, <1>14, <1>15

-----------------------------------------------------------------------------
(* The invariant that needs no promise of the application: what every state *)
(* looks like, and which buffer objects are different ones.                *)

\* The part of ListInv about the command buffer.
LEMMA BufferSound ==
    ListInv => Sound(buf)
BY DEF ListInv, TypeInv, Sound

\* Initial argument a of inference c.
LEMMA FirstArgument ==
    ASSUME NEW c \in Cmds, NEW a \in Args
    PROVE  (c - 1) * NumArgs + a \in 1 .. NumCmds * NumArgs
<1>1. /\ NumCmds \in Nat /\ NumArgs \in Nat /\ c \in Nat /\ a \in Nat
      /\ c >= 1 /\ c <= NumCmds /\ a >= 1 /\ a <= NumArgs
  BY ParametersAssumption DEF Cmds, Args
<1>2. (c - 1) * NumArgs \in Nat /\ (c - 1) * NumArgs + NumArgs = c * NumArgs
  <2>1. c - 1 \in Nat
    BY <1>1
  <2>. QED
    BY <1>1, <2>1
<1>3. c * NumArgs <= NumCmds * NumArgs
  <2>1. PICK d \in Nat : NumCmds = c + d
    <3>1. NumCmds - c \in Nat /\ NumCmds = c + (NumCmds - c)
      BY <1>1
    <3>. QED
      BY <3>1
  <2>2. (c + d) * NumArgs = c * NumArgs + d * NumArgs
    BY <1>1, <2>1
  <2>3. d * NumArgs \in Nat /\ c * NumArgs \in Nat
    BY <1>1, <2>1
  <2>. QED
    BY <2>1, <2>2, <2>3
<1>4. c * NumArgs \in Nat /\ NumCmds * NumArgs \in Nat
  BY <1>1
<1>. QED
  BY <1>1, <1>2, <1>3, <1>4

LEMMA InitListInv == Init => ListInv
<1>. SUFFICES ASSUME Init PROVE ListInv
  OBVIOUS
<1>0. /\ NoBo \notin Handles /\ NoBo \in Nat /\ Handles \subseteq Nat
      /\ NumCmds * NumArgs \in Nat /\ NumCmds * NumArgs < MaxHandle /\ MaxHandle \in Nat
      /\ MaxSubmits \in Nat /\ MaxCalls \in Nat
      /\ ScratchChoices \subseteq SUBSET Cmds /\ PreemptionChoices \subseteq BOOLEAN
  <2>1. NumCmds \in Nat /\ NumArgs \in Nat
    BY ParametersAssumption
  <2>2. NumCmds * NumArgs \in Nat
    BY <2>1
  <2>. QED
    BY <2>2, Parameters, ParametersAssumption
<1>. DEFINE top == NumCmds * NumArgs
            bo == NumCmds * NumArgs + 1
<1>1. 1 .. top \subseteq Handles /\ bo \in Handles /\ bo \notin 1 .. top /\ bo # NoBo
  BY <1>0 DEF Handles
<1>2. userArgs \in [Cmds -> [Args -> 1 .. top]]
  <2>1. userArgs = [c \in Cmds |-> [a \in Args |-> (c - 1) * NumArgs + a]]
    BY DEF Init
  <2>2. \A c \in Cmds, a \in Args : (c - 1) * NumArgs + a \in 1 .. top
    BY FirstArgument
  <2>. HIDE DEF top
  <2>. QED
    BY <2>1, <2>2
<1>3. userArgs \in ArgLists
  <2>. HIDE DEF top
  <2>. QED
    BY <1>1, <1>2 DEF ArgLists
<1>4. ArgHandles(userArgs) \subseteq 1 .. top
  <2>1. ASSUME NEW c \in Cmds PROVE ToSet(userArgs[c]) \subseteq 1 .. top
    <3>1. userArgs[c] \in [Args -> Handles]
      BY <1>3 DEF ArgLists
    <3>2. ToSet(userArgs[c]) = {userArgs[c][a] : a \in Args}
      BY <3>1, ArgumentSequence
    <3>. HIDE DEF top
    <3>. QED
      BY <1>2, <3>2
  <2>. QED
    BY <2>1 DEF ArgHandles
<1>5. Users = 1 .. top
  <2>1. held = 1 .. top
    BY DEF Init
  <2>. QED
    BY <1>4, <2>1 DEF Users
<1>6. /\ scratchCmds \subseteq Cmds /\ preemption \in BOOLEAN
      /\ cmdNeedsUpdate = [c \in Cmds |-> FALSE] /\ lastScratch = [c \in Cmds |-> NoBo]
      /\ held = 1 .. top /\ inputs = userArgs
      /\ inOrder = FALSE /\ lastWaitBo = NoBo /\ preemptBo = NoBo
      /\ scratchCache = {} /\ others = {} /\ submits = 0 /\ calls = 0
  BY <1>0 DEF Init
<1>. DEFINE f == <<bo>>
            h == CommandHandles(f, userArgs)
<1>7. buf = [bo |-> bo, handles |-> h, scratch |-> NoBo, preempt |-> NoBo, index |-> 0,
             waitBo |-> NoBo]
  BY DEF Init, NewCommandBuffer
<1>8. f \in Seq(Nat) /\ ToSet(f) = {bo} /\ Len(f) >= 1 /\ f[1] = bo
  BY <1>0, <1>1, Single
<1>. HIDE DEF f, bo, top
<1>9. /\ h \in Seq(Nat) /\ ToSet(h) = ToSet(f) \cup ArgHandles(userArgs)
      /\ Len(h) >= 1 /\ h[1] = f[1]
  BY <1>3, <1>8, CommandsAdded
<1>. HIDE DEF h
<1>10. /\ buf.bo = bo /\ buf.handles = h /\ buf.scratch = NoBo /\ buf.preempt = NoBo
       /\ buf.index = 0 /\ buf.waitBo = NoBo
  BY <1>7
<1>11. buf \in BufType
  BY <1>0, <1>1, <1>7, <1>9 DEF BufType
<1>12. ToSet(h) \subseteq Handles
  BY <1>1, <1>4, <1>8, <1>9
<1>13. TypeInv
  <2>1. /\ held \subseteq Handles /\ scratchCache \subseteq Handles /\ others \subseteq Handles
        /\ inputs \in ArgLists /\ userArgs \in ArgLists
    BY <1>1, <1>3, <1>6
  <2>2. /\ cmdNeedsUpdate \in [Cmds -> BOOLEAN]
        /\ lastScratch \in [Cmds -> Handles \cup {NoBo}]
    BY <1>6
  <2>3. {buf.scratch, buf.preempt, buf.waitBo, lastWaitBo, preemptBo} \subseteq Handles \cup {NoBo}
    BY <1>6, <1>10
  <2>4. buf.bo \in Handles /\ ToSet(buf.handles) \subseteq Handles /\ OwnFirst(buf)
    BY <1>1, <1>8, <1>9, <1>10, <1>12 DEF OwnFirst
  <2>5. submits \in 0 .. MaxSubmits /\ calls \in 0 .. MaxCalls
    BY <1>0, <1>6
  <2>. QED
    BY <1>6, <1>10, <1>11, <2>1, <2>2, <2>3, <2>4, <2>5 DEF TypeInv
<1>14. ApartInv
  <2>1. Fences = {bo}
    BY <1>1, <1>6, <1>10 DEF Fences
  <2>. QED
    BY <1>0, <1>1, <1>5, <1>6, <1>10, <2>1 DEF ApartInv, top
<1>. QED
  BY <1>13, <1>14 DEF ListInv

\* A buffer object of somebody else is a new one.
LEMMA NewOne ==
    ASSUME ListInv, MayAllocate(1), NEW h, h = NewHandle(Open)
    PROVE  /\ h \in Handles /\ h \notin Users /\ h \notin scratchCache /\ h \notin Fences
           /\ h # preemptBo
<1>0. NoBo \notin Handles
  BY Parameters
<1>1. /\ Users \subseteq Open /\ scratchCache \subseteq Open /\ Fences \subseteq Open
      /\ preemptBo \in Open \cup {NoBo}
  BY OpenFacts DEF ListInv
<1>2. Handles \ Open # {}
  <2>1. Cardinality({}) = 0
    BY FS_EmptySet
  <2>. QED
    BY <2>1 DEF MayAllocate
<1>3. h \in Handles /\ h \notin Open
  BY <1>2, NewHandleFree
<1>. QED
  BY <1>0, <1>1, <1>3

\* The submission bound and the bound on calls.
LEMMA Counted ==
    ASSUME TypeInv
    PROVE  /\ Call => calls' \in 0 .. MaxCalls
           /\ submits < MaxSubmits => submits + 1 \in 0 .. MaxSubmits
BY ParametersAssumption DEF TypeInv, Call

\* A submission, failed or not: what it leaves in the state is consistent, given a
\* consistent command buffer b.
LEMMA SubmitKeepsListInv ==
    ASSUME ListInv, NEW queue \in {"default", "inorder"}, MayAllocate(SubmitNeeds(queue)),
           NEW p, p = PreemptionBuffer, NEW s \in ScratchAcquire(Open \cup {p}),
           NEW st, st = UpdateCommands(Start, s),
           NEW b, Sound(b),
           b.bo = buf.bo \/ (b.bo \notin Users /\ b.bo \notin ScratchKept(s)),
           b.waitBo \in {NoBo, buf.waitBo, lastWaitBo},
           \A c \in Cmds : st.last[c] # b.bo,
           submits < MaxSubmits, submits' = submits + 1,
           preemptBo' = p, scratchCache' = ScratchKept(s),
           buf' = b, userArgs' = st.args, cmdNeedsUpdate' = st.needs, lastScratch' = st.last,
           inOrder' \in BOOLEAN, ~inOrder' => b.waitBo = NoBo,
           lastWaitBo' \in {lastWaitBo, b.bo},
           UNCHANGED <<scratchCmds, preemption, held, inputs, others, calls>>
    PROVE  ListInv'
<1>0. NoBo \notin Handles /\ NoBo \in Nat /\ Handles \subseteq Nat
  BY Parameters
<1>1. /\ st \in StateType /\ Done(st, NumCmds, s)
      /\ s \in Handles \cup {NoBo} /\ s \notin Users /\ s \notin Fences
      /\ p \in Handles \cup {NoBo} /\ p \notin Users
      /\ ~preemption => p = NoBo
      /\ ArgHandles(st.args) \subseteq Users
      /\ \A c \in Cmds : st.last[c] \in Handles \cup {NoBo} /\ (c \notin scratchCmds => st.last[c] = NoBo)
      /\ ScratchKept(s) \subseteq Handles
      /\ ScratchKept(s) \cap Users = {} /\ ScratchKept(s) \cap Fences = {}
      /\ p \notin ScratchKept(s)
  BY BeforeIoctl
<1>2. /\ st.args \in ArgLists /\ st.needs \in [Cmds -> BOOLEAN]
      /\ st.last \in [Cmds -> Handles \cup {NoBo}]
  <2>1. st.args \in ArgLists /\ st.needs \in [Cmds -> BOOLEAN] /\ st.last \in [Cmds -> Nat]
    BY <1>1 DEF StateType
  <2>. QED
    BY <1>1, <2>1
<1>3. submits' \in 0 .. MaxSubmits
  BY Counted DEF ListInv
<1>4. /\ b \in BufType /\ b.bo \in Handles /\ OwnFirst(b)
      /\ {b.scratch, b.preempt, b.waitBo} \subseteq Handles \cup {NoBo}
      /\ ToSet(b.handles) \subseteq Handles
      /\ b.preempt = NoBo => b.index = 0
      /\ b.preempt # NoBo => b.index >= 1
  BY DEF Sound
<1>5. lastWaitBo' \in Handles \cup {NoBo}
  BY <1>4 DEF ListInv, TypeInv
<1>6. OwnFirst(buf)'
  BY <1>4 DEF OwnFirst
<1>7. TypeInv'
  <2>1. /\ scratchCmds' \subseteq Cmds /\ preemption' \in BOOLEAN
        /\ held' \subseteq Handles /\ scratchCache' \subseteq Handles /\ others' \subseteq Handles
        /\ inputs' \in ArgLists /\ calls' \in 0 .. MaxCalls
    BY <1>1 DEF ListInv, TypeInv
  <2>. QED
    BY <1>1, <1>2, <1>3, <1>4, <1>5, <1>6, <2>1 DEF TypeInv
<1>8. Users' \subseteq Users
  BY <1>1 DEF Users, ArgHandles
<1>9. Fences' \subseteq Fences \cup {b.bo}
  BY DEF Fences
<1>10. buf.bo \in Fences
  BY <1>0 DEF Fences, ListInv, TypeInv
<1>11. Users \cap Fences = {}
  BY DEF ListInv, ApartInv
<1>12. Users' \cap scratchCache' = {} /\ Users' \cap Fences' = {} /\ scratchCache' \cap Fences' = {}
  BY <1>1, <1>8, <1>9, <1>10, <1>11
<1>13. ApartInv'
  BY <1>1, <1>8, <1>12 DEF ApartInv
<1>. QED
  BY <1>7, <1>13 DEF ListInv

\* A command buffer a failed update leaves behind.
LEMMA FailedSound ==
    ASSUME ListInv, NEW queue, MayAllocate(SubmitNeeds(queue)),
           NEW p, p = PreemptionBuffer, NEW s \in ScratchAcquire(Open \cup {p}),
           NEW st, st = UpdateCommands(Start, s)
    PROVE  /\ Sound(st.buf)
           /\ st.buf.bo = buf.bo /\ st.buf.waitBo = buf.waitBo
           /\ st.buf.preempt = buf.preempt /\ st.buf.index = buf.index
           /\ st.buf.scratch = s
           /\ \A c \in Cmds : st.last[c] # buf.bo
<1>1. /\ st \in StateType /\ Done(st, NumCmds, s)
      /\ s \in Handles \cup {NoBo}
      /\ \A c \in Cmds : st.last[c] # buf.bo
  BY BeforeIoctl
<1>2. /\ st.buf \in BufType
      /\ st.buf.bo = buf.bo /\ st.buf.scratch = s /\ st.buf.preempt = buf.preempt
      /\ st.buf.index = buf.index /\ st.buf.waitBo = buf.waitBo
      /\ ToSet(st.buf.handles) \subseteq Handles /\ OwnFirst(st.buf)
  BY <1>1 DEF StateType, Done
<1>. QED
  BY <1>1, <1>2, BufferSound DEF Sound

\* A step of SubmitFailsUpdate, and of Submit, by what the submission acquires and
\* what the updates make of the list.
FailStep(queue, p, s, st) ==
    /\ p = PreemptionBuffer /\ s \in ScratchAcquire(Open \cup {p})
    /\ st = UpdateCommands(Start, s) /\ ~st.ok
    /\ ~run.on /\ submits < MaxSubmits /\ MayAllocate(SubmitNeeds(queue)) /\ SubmitAllowed(queue)
    /\ submits' = submits + 1
    /\ preemptBo' = p /\ scratchCache' = ScratchKept(s)
    /\ buf' = st.buf /\ userArgs' = st.args /\ cmdNeedsUpdate' = st.needs
    /\ lastScratch' = st.last
    /\ UNCHANGED <<scratchCmds, preemption, held, inputs, inOrder, lastWaitBo, others, calls, run>>

LEMMA FailedStep ==
    ASSUME NEW queue, SubmitFailsUpdate(queue)
    PROVE  \E p, s, st : FailStep(queue, p, s, st)
<1>1. PICK s \in ScratchAcquire(Open \cup {PreemptionBuffer}) :
         LET st == UpdateCommands(Start, s)
         IN  /\ ~st.ok
             /\ preemptBo' = PreemptionBuffer /\ scratchCache' = ScratchKept(s)
             /\ buf' = st.buf /\ userArgs' = st.args /\ cmdNeedsUpdate' = st.needs
             /\ lastScratch' = st.last
  BY DEF SubmitFailsUpdate, Start
<1>2. /\ ~run.on /\ submits < MaxSubmits /\ MayAllocate(SubmitNeeds(queue)) /\ SubmitAllowed(queue)
      /\ submits' = submits + 1
      /\ UNCHANGED <<scratchCmds, preemption, held, inputs, inOrder, lastWaitBo, others, calls, run>>
  BY DEF SubmitFailsUpdate
<1>. DEFINE p == PreemptionBuffer
            st == UpdateCommands(Start, s)
<1>3. FailStep(queue, p, s, st)
  BY <1>1, <1>2 DEF FailStep
<1>. HIDE DEF p, st
<1>. QED
  BY <1>3

SubmitStep(queue, p, s, st, b) ==
    /\ p = PreemptionBuffer /\ s \in ScratchAcquire(Open \cup {p})
    /\ st = UpdateCommands(Start, s) /\ st.ok
    /\ b = Prepared(AddPreemptionBuffer(st.buf, p), st.args, queue, Open \cup {p, s})
    /\ ~run.on /\ submits < MaxSubmits /\ MayAllocate(SubmitNeeds(queue)) /\ SubmitAllowed(queue)
    /\ submits' = submits + 1
    /\ preemptBo' = p /\ scratchCache' = ScratchKept(s)
    /\ buf' = b /\ userArgs' = st.args /\ cmdNeedsUpdate' = st.needs
    /\ lastScratch' = st.last
    /\ inOrder' = (queue = "inorder")
    /\ lastWaitBo' = (IF queue = "inorder" THEN b.bo ELSE lastWaitBo)
    /\ UNCHANGED <<scratchCmds, preemption, held, inputs, others, calls>>
    /\ Ioctl(b, st.args, st.last)

LEMMA Submitted ==
    ASSUME NEW queue, Submit(queue)
    PROVE  \E p, s, st, b : SubmitStep(queue, p, s, st, b)
<1>1. PICK s \in ScratchAcquire(Open \cup {PreemptionBuffer}) :
         LET st == UpdateCommands(Start, s)
             b  == Prepared(AddPreemptionBuffer(st.buf, PreemptionBuffer), st.args, queue,
                            Open \cup {PreemptionBuffer, s})
         IN  /\ st.ok
             /\ preemptBo' = PreemptionBuffer /\ scratchCache' = ScratchKept(s)
             /\ buf' = b /\ userArgs' = st.args /\ cmdNeedsUpdate' = st.needs
             /\ lastScratch' = st.last
             /\ inOrder' = (queue = "inorder")
             /\ lastWaitBo' = (IF queue = "inorder" THEN b.bo ELSE lastWaitBo)
             /\ UNCHANGED <<scratchCmds, preemption, held, inputs, others, calls>>
             /\ Ioctl(b, st.args, st.last)
  BY DEF Submit, Start
<1>2. /\ ~run.on /\ submits < MaxSubmits /\ MayAllocate(SubmitNeeds(queue)) /\ SubmitAllowed(queue)
      /\ submits' = submits + 1
  BY DEF Submit
<1>. DEFINE p == PreemptionBuffer
            st == UpdateCommands(Start, s)
            b == Prepared(AddPreemptionBuffer(st.buf, p), st.args, queue, Open \cup {p, s})
<1>3. SubmitStep(queue, p, s, st, b)
  BY <1>1, <1>2 DEF SubmitStep
<1>. HIDE DEF p, st, b
<1>. QED
  BY <1>3

LEMMA FailKeepsListInv ==
    ASSUME ListInv, NEW queue \in {"default", "inorder"}, SubmitFailsUpdate(queue)
    PROVE  ListInv'
<1>1. PICK p, s, st : FailStep(queue, p, s, st)
  BY FailedStep
<1>2. /\ p = PreemptionBuffer /\ s \in ScratchAcquire(Open \cup {p})
      /\ st = UpdateCommands(Start, s) /\ MayAllocate(SubmitNeeds(queue))
  BY <1>1 DEF FailStep
<1>. DEFINE b == st.buf
<1>3. /\ Sound(b)
      /\ b.bo = buf.bo /\ b.waitBo = buf.waitBo
      /\ \A c \in Cmds : st.last[c] # b.bo
  BY <1>2, FailedSound
<1>4. /\ submits < MaxSubmits /\ submits' = submits + 1
      /\ preemptBo' = p /\ scratchCache' = ScratchKept(s)
      /\ buf' = b /\ userArgs' = st.args /\ cmdNeedsUpdate' = st.needs
      /\ lastScratch' = st.last
      /\ UNCHANGED <<scratchCmds, preemption, held, inputs, inOrder, lastWaitBo, others, calls>>
  BY <1>1 DEF FailStep
<1>5. inOrder' \in BOOLEAN /\ (~inOrder' => b.waitBo = NoBo)
  BY <1>3, <1>4 DEF ListInv, TypeInv
<1>. HIDE DEF b
<1>. QED
  BY <1>2, <1>3, <1>4, <1>5, SubmitKeepsListInv

LEMMA DoneKeepsListInv ==
    ASSUME ListInv, NEW queue \in {"default", "inorder"}, Submit(queue)
    PROVE  ListInv'
<1>1. PICK p, s, st, b : SubmitStep(queue, p, s, st, b)
  BY Submitted
<1>2. /\ p = PreemptionBuffer /\ s \in ScratchAcquire(Open \cup {p})
      /\ st = UpdateCommands(Start, s) /\ st.ok /\ MayAllocate(SubmitNeeds(queue))
      /\ b = Prepared(AddPreemptionBuffer(st.buf, p), st.args, queue, Open \cup {p, s})
  BY <1>1 DEF SubmitStep
<1>3. /\ Sound(b)
      /\ b.bo \notin Users /\ b.bo \notin ScratchKept(s)
      /\ b.waitBo \in {NoBo, lastWaitBo}
      /\ queue # "inorder" => b.waitBo = NoBo
      /\ \A c \in Cmds : st.last[c] # b.bo
  <2>1. PreparedResult(queue, s, st, b)
    BY <1>2, PreparedFacts
  <2>. QED
    BY <2>1 DEF PreparedResult
<1>4. /\ submits < MaxSubmits /\ submits' = submits + 1
      /\ preemptBo' = p /\ scratchCache' = ScratchKept(s)
      /\ buf' = b /\ userArgs' = st.args /\ cmdNeedsUpdate' = st.needs
      /\ lastScratch' = st.last
      /\ inOrder' = (queue = "inorder")
      /\ lastWaitBo' = (IF queue = "inorder" THEN b.bo ELSE lastWaitBo)
      /\ UNCHANGED <<scratchCmds, preemption, held, inputs, others, calls>>
  BY <1>1 DEF SubmitStep
<1>5. inOrder' \in BOOLEAN /\ (~inOrder' => b.waitBo = NoBo) /\ lastWaitBo' \in {lastWaitBo, b.bo}
  BY <1>3, <1>4
<1>. QED
  BY <1>2, <1>3, <1>4, <1>5, SubmitKeepsListInv

LEMMA NextListInv ==
    ASSUME ListInv, [Next]_vars
    PROVE  ListInv'
<1>0. NoBo \notin Handles /\ NoBo \in Nat /\ Handles \subseteq Nat
  BY Parameters
<1>. USE DEF ListInv
<1>1. ASSUME Allocate PROVE ListInv'
  <2>1. PICK h : h = NewHandle(Open)
    OBVIOUS
  <2>2. /\ held' = held \cup {h} /\ MayAllocate(1) /\ Call
        /\ UNCHANGED <<scratchCmds, preemption, inputs, userArgs, cmdNeedsUpdate, lastScratch, buf,
                       inOrder, lastWaitBo, scratchCache, preemptBo, others, submits>>
    BY <1>1, <2>1 DEF Allocate
  <2>3. /\ h \in Handles /\ h \notin scratchCache /\ h \notin Fences /\ h # preemptBo
    BY <2>1, <2>2, NewOne
  <2>4. calls' \in 0 .. MaxCalls
    BY <2>2, Counted
  <2>5. TypeInv'
    BY <2>2, <2>3, <2>4 DEF TypeInv, OwnFirst
  <2>6. Users' = Users \cup {h} /\ Fences' = Fences
    BY <2>2 DEF Users, ArgHandles, Fences
  <2>7. ApartInv'
    BY <2>2, <2>3, <2>6 DEF ApartInv
  <2>. QED
    BY <2>5, <2>7
<1>2. ASSUME NEW h \in Handles, Free(h) PROVE ListInv'
  <2>1. /\ held' = held \ {h} /\ Call
        /\ UNCHANGED <<scratchCmds, preemption, inputs, userArgs, cmdNeedsUpdate, lastScratch, buf,
                       inOrder, lastWaitBo, scratchCache, preemptBo, others, submits>>
    BY <1>2 DEF Free
  <2>2. calls' \in 0 .. MaxCalls
    BY <2>1, Counted
  <2>3. TypeInv'
    BY <2>1, <2>2 DEF TypeInv, OwnFirst
  <2>4. Users' \subseteq Users /\ Fences' = Fences
    BY <2>1 DEF Users, ArgHandles, Fences
  <2>5. ApartInv'
    BY <2>1, <2>4 DEF ApartInv
  <2>. QED
    BY <2>3, <2>5
<1>3. ASSUME NEW c \in Cmds, NEW a \in Args, NEW h \in Handles, SetUpdates(c, a, h) PROVE ListInv'
  <2>1. /\ inputs' = [inputs EXCEPT ![c][a] = h]
        /\ cmdNeedsUpdate' = [cmdNeedsUpdate EXCEPT ![c] = TRUE]
        /\ UNCHANGED <<scratchCmds, preemption, held, userArgs, lastScratch, buf, inOrder,
                       lastWaitBo, scratchCache, preemptBo, others, submits, calls>>
    BY <1>3 DEF SetUpdates
  <2>2. inputs' \in ArgLists
    BY <2>1 DEF TypeInv, ArgLists
  <2>3. cmdNeedsUpdate' \in [Cmds -> BOOLEAN]
    BY <2>1 DEF TypeInv
  <2>4. TypeInv'
    BY <2>1, <2>2, <2>3 DEF TypeInv, OwnFirst
  <2>5. Users' = Users /\ Fences' = Fences
    BY <2>1 DEF Users, ArgHandles, Fences
  <2>6. ApartInv'
    BY <2>1, <2>5 DEF ApartInv
  <2>. QED
    BY <2>4, <2>6
<1>4. ASSUME NEW queue \in {"default", "inorder"}, SubmitFailsUpdate(queue) PROVE ListInv'
  BY <1>4, FailKeepsListInv
<1>5. ASSUME NEW queue \in {"default", "inorder"}, Submit(queue) PROVE ListInv'
  BY <1>5, DoneKeepsListInv
<1>6. ASSUME WaitForCompletion PROVE ListInv'
  <2>. DEFINE r == WaitDone(buf)
  <2>1. /\ buf' = r
        /\ UNCHANGED <<scratchCmds, preemption, held, inputs, userArgs, cmdNeedsUpdate, lastScratch,
                       inOrder, lastWaitBo, scratchCache, preemptBo, others, submits, calls>>
    BY <1>6 DEF WaitForCompletion
  <2>2. Sound(r) /\ r.bo = buf.bo /\ r.waitBo = buf.waitBo
    BY BufferSound, WaitSound
  <2>. HIDE DEF r
  <2>3. /\ r \in BufType /\ r.bo \in Handles /\ OwnFirst(r)
        /\ {r.scratch, r.preempt, r.waitBo} \subseteq Handles \cup {NoBo}
        /\ ToSet(r.handles) \subseteq Handles
        /\ r.preempt = NoBo => r.index = 0
        /\ r.preempt # NoBo => r.index >= 1
    BY <2>2 DEF Sound
  <2>4. OwnFirst(buf)'
    BY <2>1, <2>3 DEF OwnFirst
  <2>5. TypeInv'
    BY <2>1, <2>2, <2>3, <2>4 DEF TypeInv
  <2>6. Users' = Users /\ Fences' = Fences
    BY <2>1, <2>2 DEF Users, ArgHandles, Fences
  <2>7. ApartInv'
    BY <2>1, <2>2, <2>6 DEF ApartInv
  <2>. QED
    BY <2>5, <2>7
<1>7. ASSUME NEW s \in Handles, ScratchPrune(s) PROVE ListInv'
  <2>1. /\ scratchCache' = scratchCache \ {s} /\ Call
        /\ UNCHANGED <<scratchCmds, preemption, held, inputs, userArgs, cmdNeedsUpdate, lastScratch,
                       buf, inOrder, lastWaitBo, preemptBo, others, submits>>
    BY <1>7 DEF ScratchPrune
  <2>2. calls' \in 0 .. MaxCalls
    BY <2>1, Counted
  <2>3. TypeInv'
    BY <2>1, <2>2 DEF TypeInv, OwnFirst
  <2>4. Users' = Users /\ Fences' = Fences
    BY <2>1 DEF Users, ArgHandles, Fences
  <2>5. ApartInv'
    BY <2>1, <2>4 DEF ApartInv
  <2>. QED
    BY <2>3, <2>5
<1>8. ASSUME CloseOther PROVE ListInv'
  <2>1. PICK h : h = NewHandle(Open)
    OBVIOUS
  <2>2. /\ others' = others \cup {h} /\ MayAllocate(1) /\ Call
        /\ UNCHANGED <<scratchCmds, preemption, held, inputs, userArgs, cmdNeedsUpdate, lastScratch,
                       buf, inOrder, lastWaitBo, scratchCache, preemptBo, submits>>
    BY <1>8, <2>1 DEF CloseOther
  <2>3. /\ h \in Handles /\ h \notin Users /\ h \notin scratchCache
    BY <2>1, <2>2, NewOne
  <2>4. calls' \in 0 .. MaxCalls
    BY <2>2, Counted
  <2>5. TypeInv'
    BY <2>2, <2>3, <2>4 DEF TypeInv, OwnFirst
  <2>6. Users' = Users /\ Fences' \subseteq Fences \cup {h}
    BY <2>2 DEF Users, ArgHandles, Fences
  <2>7. ApartInv'
    BY <2>2, <2>3, <2>6 DEF ApartInv
  <2>. QED
    BY <2>5, <2>7
<1>9. ASSUME NEW o \in Handles, SubmitOther(o) PROVE ListInv'
  <2>1. /\ lastWaitBo' = o /\ o \in others
        /\ UNCHANGED <<scratchCmds, preemption, held, inputs, userArgs, cmdNeedsUpdate, lastScratch,
                       buf, inOrder, scratchCache, preemptBo, others, submits, calls>>
    BY <1>9 DEF SubmitOther
  <2>2. TypeInv'
    BY <2>1 DEF TypeInv, OwnFirst
  <2>3. Users' = Users /\ Fences' \subseteq Fences
    BY <2>1 DEF Users, ArgHandles, Fences
  <2>4. ApartInv'
    BY <2>1, <2>3 DEF ApartInv
  <2>. QED
    BY <2>2, <2>4
<1>10. ASSUME NEW o \in Handles, DestroyOther(o) PROVE ListInv'
  <2>1. /\ others' = others \ {o} /\ Call
        /\ UNCHANGED <<scratchCmds, preemption, held, inputs, userArgs, cmdNeedsUpdate, lastScratch,
                       buf, inOrder, lastWaitBo, scratchCache, preemptBo, submits>>
    BY <1>10 DEF DestroyOther
  <2>2. calls' \in 0 .. MaxCalls
    BY <2>1, Counted
  <2>3. TypeInv'
    BY <2>1, <2>2 DEF TypeInv, OwnFirst
  <2>4. Users' = Users /\ Fences' \subseteq Fences
    BY <2>1 DEF Users, ArgHandles, Fences
  <2>5. ApartInv'
    BY <2>1, <2>4 DEF ApartInv
  <2>. QED
    BY <2>3, <2>5
<1>11. ASSUME UNCHANGED vars PROVE ListInv'
  <2>1. TypeInv' /\ Users' = Users /\ Fences' = Fences
    BY <1>11 DEF TypeInv, OwnFirst, Users, ArgHandles, Fences, vars
  <2>. QED
    BY <1>11, <2>1 DEF ApartInv, vars
<1>. QED
  BY <1>1, <1>2, <1>3, <1>4, <1>5, <1>6, <1>7, <1>8, <1>9, <1>10, <1>11 DEF Next

-----------------------------------------------------------------------------
(* How the command buffer of the ioctl comes about, for the properties of a *)
(* submission.                                                             *)

PreparedBy(queue, p, s, st, b, a) ==
    /\ PreemptionResult(st.buf, p, a) /\ Sound(a)
    /\ \/ /\ queue = "inorder" /\ lastWaitBo = buf.bo
          /\ \E d : Sound(d) /\ WaitedResult(a, d) /\ WaitResult(d, NoBo, b)
       \/ /\ queue = "inorder" /\ lastWaitBo # buf.bo
          /\ WaitResult(a, lastWaitBo, b)
       \/ /\ queue # "inorder" /\ inOrder
          /\ StrippedResult(st.args, s, b)
       \/ /\ queue # "inorder" /\ ~inOrder
          /\ b = a

LEMMA PreparedWays ==
    ASSUME ListInv, NEW queue \in {"default", "inorder"},
           NEW p, NEW s, NEW st, NEW b, SubmitStep(queue, p, s, st, b)
    PROVE  \E a : PreparedBy(queue, p, s, st, b, a)
<1>0. NoBo \notin Handles /\ NoBo \in Nat /\ Handles \subseteq Nat
  BY Parameters
<1>1. /\ p = PreemptionBuffer /\ s \in ScratchAcquire(Open \cup {p})
      /\ st = UpdateCommands(Start, s) /\ st.ok /\ MayAllocate(SubmitNeeds(queue))
      /\ b = Prepared(AddPreemptionBuffer(st.buf, p), st.args, queue, Open \cup {p, s})
  BY DEF SubmitStep
<1>2. /\ Sound(st.buf) /\ st.buf.bo = buf.bo /\ st.buf.waitBo = buf.waitBo
  BY <1>1, FailedSound
<1>3. /\ st \in StateType /\ p \in Handles \cup {NoBo} /\ ArgHandles(st.args) \subseteq Users
  BY <1>1, BeforeIoctl
<1>4. st.args \in ArgLists
  BY <1>3 DEF StateType
<1>. DEFINE e == st.buf
            a == AddPreemptionBuffer(e, p)
<1>5. b = Prepared(a, st.args, queue, Open \cup {p, s})
  BY <1>1
<1>. HIDE DEF e
<1>6. Sound(e) /\ e.bo = buf.bo /\ e.waitBo = buf.waitBo
  BY <1>2 DEF e
<1>7. Sound(a) /\ a.bo = e.bo /\ a.waitBo = e.waitBo
  BY <1>3, <1>6, PreemptionSound
<1>8. PreemptionResult(e, p, a)
  <2>1. e \in BufType /\ p \in Nat
    BY <1>0, <1>3, <1>6 DEF Sound
  <2>. QED
    BY <2>1, PreemptionAdded
<1>. HIDE DEF a
<1>9. PreemptionResult(st.buf, p, a)
  BY <1>8 DEF e
<1>10. /\ a \in BufType /\ OwnFirst(a)
       /\ a.preempt = NoBo => a.index = 0
       /\ a.preempt # NoBo => a.index >= 1
  BY <1>7 DEF Sound
<1>11. CASE queue = "inorder" /\ lastWaitBo = buf.bo
  <2>. DEFINE d == WaitDone(a)
  <2>1. b = AddWaitAtHead(d, NoBo)
    BY <1>5, <1>6, <1>7, <1>11 DEF Prepared, MakeInOrder
  <2>2. Sound(d) /\ WaitedResult(a, d)
    BY <1>7, <1>10, WaitSound, WaitedDone
  <2>. HIDE DEF d
  <2>3. d \in BufType /\ OwnFirst(d)
    BY <2>2 DEF Sound
  <2>4. WaitResult(d, NoBo, b)
    BY <1>0, <2>1, <2>3, WaitAdded
  <2>. QED
    BY <1>7, <1>9, <1>11, <2>2, <2>4 DEF PreparedBy
<1>12. CASE queue = "inorder" /\ lastWaitBo # buf.bo
  <2>1. b = AddWaitAtHead(a, lastWaitBo)
    BY <1>5, <1>6, <1>7, <1>12 DEF Prepared, MakeInOrder
  <2>2. lastWaitBo \in Nat
    BY <1>0 DEF ListInv, TypeInv
  <2>3. WaitResult(a, lastWaitBo, b)
    BY <1>10, <2>1, <2>2, WaitAdded
  <2>. QED
    BY <1>7, <1>9, <1>12, <2>3 DEF PreparedBy
<1>13. CASE queue # "inorder" /\ inOrder
  <2>1. b = StripInOrder(buf, st.args, (Open \cup {p, s})
                            \ ({buf.bo, buf.waitBo} \ ({lastWaitBo} \cup others)))
    BY <1>5, <1>6, <1>7, <1>13 DEF Prepared, StripInOrder
  <2>. DEFINE args == st.args
  <2>2. args \in ArgLists /\ ArgHandles(args) \subseteq Users
    BY <1>3, <1>4
  <2>3. b = StripInOrder(buf, args, (Open \cup {p, s})
                            \ ({buf.bo, buf.waitBo} \ ({lastWaitBo} \cup others)))
    BY <2>1
  <2>. HIDE DEF args
  <2>4. StrippedResult(args, s, b)
    BY <1>1, <1>13, <2>2, <2>3, Stripped
  <2>. QED
    BY <1>7, <1>9, <1>13, <2>4 DEF PreparedBy, args
<1>14. CASE queue # "inorder" /\ ~inOrder
  <2>1. b = a
    BY <1>5, <1>14 DEF Prepared
  <2>. QED
    BY <1>7, <1>9, <1>14, <2>1 DEF PreparedBy
<1>15. inOrder \in BOOLEAN
  BY DEF ListInv, TypeInv
<1>. QED
  BY <1>11, <1>12, <1>13, <1>14, <1>15

\* Every other step leaves the command buffer and the last ioctl alone.
Elsewhere ==
    \/ Allocate
    \/ \E h \in Handles : Free(h)
    \/ \E c \in Cmds, a \in Args, h \in Handles : SetUpdates(c, a, h)
    \/ \E s \in Handles : ScratchPrune(s)
    \/ CloseOther
    \/ \E o \in Handles : SubmitOther(o) \/ DestroyOther(o)
    \/ UNCHANGED vars

LEMMA ElsewhereSame ==
    ASSUME Elsewhere
    PROVE  UNCHANGED <<scratchCmds, preemption, userArgs, lastScratch, buf, inOrder, preemptBo, run>>
BY DEF Elsewhere, Allocate, Free, SetUpdates, ScratchPrune, CloseOther, SubmitOther, DestroyOther, vars

LEMMA StepCases ==
    ASSUME [Next]_vars
    PROVE  \/ \E queue \in {"default", "inorder"} : SubmitFailsUpdate(queue)
           \/ \E queue \in {"default", "inorder"} : Submit(queue)
           \/ WaitForCompletion
           \/ Elsewhere
BY DEF Next, Elsewhere

-----------------------------------------------------------------------------
(* The preemption buffer index.                                            *)

\* Command buffer b knows where the preemption buffer p is in its handles.
Indexed(b, p) ==
    b.preempt # NoBo => /\ b.index < Len(b.handles) /\ b.preempt = p
                        /\ b.handles[b.index + 1] = p

IndexInv ==
    /\ Indexed(buf, preemptBo)
    /\ run.preempt \subseteq {preemptBo} \ {NoBo}

LEMMA SubmitIndexed ==
    ASSUME ListInv, NEW queue \in {"default", "inorder"}, buf.preempt = NoBo,
           NEW p, NEW s, NEW st, NEW b, SubmitStep(queue, p, s, st, b)
    PROVE  Indexed(b, p)
<1>1. PICK a : PreparedBy(queue, p, s, st, b, a)
  BY PreparedWays
<1>2. st.buf.preempt = NoBo
  <2>1. /\ p = PreemptionBuffer /\ s \in ScratchAcquire(Open \cup {p})
        /\ st = UpdateCommands(Start, s) /\ MayAllocate(SubmitNeeds(queue))
    BY DEF SubmitStep
  <2>. QED
    BY <2>1, FailedSound
<1>3. Indexed(a, p)
  BY <1>1, <1>2 DEF PreparedBy, PreemptionResult, Indexed
<1>4. CASE \E d : Sound(d) /\ WaitedResult(a, d) /\ WaitResult(d, NoBo, b)
  BY <1>4 DEF WaitedResult, WaitResult, Indexed
<1>5. CASE WaitResult(a, lastWaitBo, b)
  <2>1. a \in BufType /\ b \in BufType /\ (a.preempt # NoBo => a.index >= 1)
    BY <1>1, <1>5 DEF PreparedBy, Sound, WaitResult
  <2>2. /\ a.index \in Nat /\ Len(a.handles) \in Nat /\ Len(b.handles) \in Nat
    BY <2>1 DEF BufType
  <2>3. /\ b.preempt = a.preempt /\ b.index = a.index /\ Len(a.handles) <= Len(b.handles)
        /\ \A i \in 1 .. Len(a.handles) : b.handles[i] = a.handles[i]
    BY <1>5 DEF WaitResult
  <2>4. ASSUME a.preempt # NoBo
        PROVE  b.index < Len(b.handles) /\ b.handles[b.index + 1] = p /\ b.preempt = p
    <3>1. a.index + 1 \in 1 .. Len(a.handles) /\ a.handles[a.index + 1] = p /\ a.preempt = p
      BY <1>3, <2>2, <2>4 DEF Indexed
    <3>. QED
      BY <2>2, <2>3, <3>1
  <2>. QED
    BY <2>3, <2>4 DEF Indexed
<1>6. CASE StrippedResult(st.args, s, b)
  BY <1>6 DEF StrippedResult, Indexed
<1>7. CASE b = a
  BY <1>3, <1>7
<1>. QED
  BY <1>1, <1>4, <1>5, <1>6, <1>7 DEF PreparedBy

LEMMA NextIndexInv ==
    ASSUME "retry" \in Avoid, ListInv, IndexInv, [Next]_vars
    PROVE  IndexInv'
<1>0. NoBo \notin Handles /\ NoBo \in Nat /\ Handles \subseteq Nat
  BY Parameters
<1>1. ASSUME NEW queue \in {"default", "inorder"}, SubmitFailsUpdate(queue) PROVE IndexInv'
  <2>1. PICK p, s, st : FailStep(queue, p, s, st)
    BY <1>1, FailedStep
  <2>2. /\ p = PreemptionBuffer /\ s \in ScratchAcquire(Open \cup {p})
        /\ st = UpdateCommands(Start, s) /\ MayAllocate(SubmitNeeds(queue))
        /\ buf' = st.buf /\ preemptBo' = p /\ run' = run /\ buf.preempt = NoBo
    BY <2>1 DEF FailStep, SubmitAllowed
  <2>3. st.buf.preempt = NoBo
    BY <2>2, FailedSound
  <2>4. preemptBo \in {p, NoBo}
    BY <2>2, BeforeIoctl
  <2>. QED
    BY <2>2, <2>3, <2>4 DEF IndexInv, Indexed
<1>2. ASSUME NEW queue \in {"default", "inorder"}, Submit(queue) PROVE IndexInv'
  <2>1. PICK p, s, st, b : SubmitStep(queue, p, s, st, b)
    BY <1>2, Submitted
  <2>2. /\ p = PreemptionBuffer /\ s \in ScratchAcquire(Open \cup {p})
        /\ st = UpdateCommands(Start, s) /\ MayAllocate(SubmitNeeds(queue)) /\ st.ok
        /\ b = Prepared(AddPreemptionBuffer(st.buf, p), st.args, queue, Open \cup {p, s})
        /\ buf' = b /\ preemptBo' = p /\ Ioctl(b, st.args, st.last) /\ buf.preempt = NoBo
    BY <2>1 DEF SubmitStep, SubmitAllowed
  <2>3. Indexed(b, p)
    BY <2>1, <2>2, SubmitIndexed
  <2>4. Sound(b)
    <3>1. PreparedResult(queue, s, st, b)
      BY <2>2, PreparedFacts
    <3>. QED
      BY <3>1 DEF PreparedResult
  <2>5. run'.preempt = {b.handles[i] : i \in {b.index + 1} \cap (2 .. Len(b.handles))}
    BY <2>2 DEF Ioctl
  <2>6. run'.preempt \subseteq {p} \ {NoBo}
    <3>1. CASE b.preempt = NoBo
      <4>1. b.index = 0
        BY <2>4, <3>1 DEF Sound
      <4>2. {b.index + 1} \cap (2 .. Len(b.handles)) = {}
        BY <4>1
      <4>. QED
        BY <2>5, <4>2
    <3>2. CASE b.preempt # NoBo
      BY <2>3, <2>5, <3>2 DEF Indexed
    <3>. QED
      BY <3>1, <3>2
  <2>. QED
    BY <2>2, <2>3, <2>6 DEF IndexInv, Indexed
<1>3. ASSUME WaitForCompletion PROVE IndexInv'
  <2>. DEFINE r == WaitDone(buf)
  <2>1. buf' = r /\ run' = NoRun /\ preemptBo' = preemptBo
    BY <1>3 DEF WaitForCompletion
  <2>2. r.preempt = NoBo
    BY BufferSound, WaitSound
  <2>. HIDE DEF r
  <2>. QED
    BY <2>1, <2>2 DEF IndexInv, Indexed, NoRun
<1>4. ASSUME Elsewhere PROVE IndexInv'
  BY <1>4, ElsewhereSame DEF IndexInv, Indexed
<1>. QED
  BY <1>1, <1>2, <1>3, <1>4, StepCases

\* ListInv and IndexInv hold in every state.
LEMMA IndexTypes ==
    ASSUME ListInv, IndexInv
    PROVE  TypeOK /\ PreemptionIndexRight
<1>1. buf.index < Len(buf.handles) /\ buf.handles[1] = buf.bo
  <2>1. CASE buf.preempt = NoBo
    BY <2>1 DEF ListInv, TypeInv, OwnFirst, BufType
  <2>2. CASE buf.preempt # NoBo
    BY <2>2 DEF ListInv, TypeInv, OwnFirst, IndexInv, Indexed
  <2>. QED
    BY <2>1, <2>2
<1>2. inputs \in [Cmds -> [Args -> Handles]] /\ userArgs \in [Cmds -> [Args -> Handles]]
  BY DEF ListInv, TypeInv, ArgLists
<1>. QED
  BY <1>1, <1>2 DEF ListInv, TypeInv, IndexInv, TypeOK, PreemptionIndexRight

LEMMA InitIndexInv == Init => IndexInv
BY DEF Init, NewCommandBuffer, IndexInv, Indexed, NoRun

LEMMA InitIndexTypes == Init => ListInv /\ IndexInv
BY InitListInv, InitIndexInv

(***************************************************************************)
(* The invariant of every list, whatever the application does with it: the *)
(* list begins with its own fence, and no buffer object is user memory and  *)
(* scratch memory, the preemption buffer of the queue or a fence at once, or *)
(* scratch memory and one of the others (VPUCommandBuffer and the caches of *)
(* VPUDeviceContext).                                                      *)
(***************************************************************************)
THEOREM ListsApart == Spec => []ListInv
<1>1. Init => ListInv
  BY InitListInv
<1>2. ListInv /\ [Next]_vars => ListInv'
  BY NextListInv
<1>. QED
  BY <1>1, <1>2, PTL DEF Spec

(***************************************************************************)
(* As long as a list with a preemption buffer does not go out again after a *)
(* failed ioctl, the state keeps its shape: the preemption buffer index     *)
(* stays within the handles, behind the list's own (addPreemptionBuffer,    *)
(* waitForCompletion of VPUCommandBuffer).                                 *)
(***************************************************************************)
THEOREM HandleTypesCorrect ==
    ASSUME "retry" \in Avoid
    PROVE  Spec => []TypeOK
<1>1. Init => ListInv /\ IndexInv
  BY InitIndexTypes
<1>2. ListInv /\ IndexInv /\ [Next]_vars => (ListInv /\ IndexInv)'
  BY NextListInv, NextIndexInv
<1>3. ListInv /\ IndexInv => TypeOK
  BY IndexTypes
<1>. QED
  BY <1>1, <1>2, <1>3, PTL DEF Spec

(***************************************************************************)
(* Under the same condition, the preemption buffer index of every SUBMIT    *)
(* ioctl names the preemption buffer of the queue, and so it does while the *)
(* job runs: setUpdates and update never move it.                          *)
(***************************************************************************)
THEOREM PreemptionIndexCorrect ==
    ASSUME "retry" \in Avoid
    PROVE  Spec => []PreemptionIndexRight
<1>1. Init => ListInv /\ IndexInv
  BY InitIndexTypes
<1>2. ListInv /\ IndexInv /\ [Next]_vars => (ListInv /\ IndexInv)'
  BY NextListInv, NextIndexInv
<1>3. ListInv /\ IndexInv => PreemptionIndexRight
  BY IndexTypes
<1>. QED
  BY <1>1, <1>2, <1>3, PTL DEF Spec

-----------------------------------------------------------------------------
(* The arguments of a submission.                                          *)

LEMMA SubmitApplied ==
    ASSUME "forget" \in Avoid, ListInv, NEW queue \in {"default", "inorder"},
           NEW p, NEW s, NEW st, NEW b, SubmitStep(queue, p, s, st, b)
    PROVE  st.args = inputs
<1>0. Cmds = 1 .. NumCmds /\ NumCmds \in Nat
  BY Parameters DEF Cmds
<1>1. /\ p = PreemptionBuffer /\ s \in ScratchAcquire(Open \cup {p})
      /\ st = UpdateCommands(Start, s) /\ st.ok /\ MayAllocate(SubmitNeeds(queue))
      /\ SubmitAllowed(queue)
  BY DEF SubmitStep
<1>2. st \in StateType /\ Done(st, NumCmds, s)
  BY <1>1, BeforeIoctl
<1>3. ASSUME NEW c \in Cmds PROVE st.args[c] = inputs[c]
  <2>1. c <= NumCmds
    BY <1>0
  <2>2. st.args[c] = inputs[c] \/ (st.args[c] = userArgs[c] /\ ~cmdNeedsUpdate[c])
    BY <1>1, <1>2, <2>1 DEF Done, ArgsDone
  <2>3. cmdNeedsUpdate[c] \/ inputs[c] = userArgs[c]
    BY <1>1 DEF SubmitAllowed
  <2>. QED
    BY <2>2, <2>3
<1>4. st.args \in [Cmds -> [Args -> Handles]] /\ inputs \in [Cmds -> [Args -> Handles]]
  BY <1>2 DEF StateType, ArgLists, ListInv, TypeInv
<1>. QED
  BY <1>3, <1>4

LEMMA NextApplied ==
    ASSUME "forget" \in Avoid, ListInv, ArgumentsApplied, [Next]_vars
    PROVE  ArgumentsApplied'
<1>1. ASSUME NEW queue \in {"default", "inorder"}, SubmitFailsUpdate(queue) PROVE ArgumentsApplied'
  <2>1. run' = run
    BY <1>1 DEF SubmitFailsUpdate
  <2>. QED
    BY <2>1 DEF ArgumentsApplied
<1>2. ASSUME NEW queue \in {"default", "inorder"}, Submit(queue) PROVE ArgumentsApplied'
  <2>1. PICK p, s, st, b : SubmitStep(queue, p, s, st, b)
    BY <1>2, Submitted
  <2>2. st.args = inputs
    BY <2>1, SubmitApplied
  <2>3. run'.applied = (st.args = inputs)
    BY <2>1 DEF SubmitStep, Ioctl
  <2>. QED
    BY <2>2, <2>3 DEF ArgumentsApplied
<1>3. ASSUME WaitForCompletion PROVE ArgumentsApplied'
  BY <1>3 DEF WaitForCompletion, NoRun, ArgumentsApplied
<1>4. ASSUME Elsewhere PROVE ArgumentsApplied'
  BY <1>4, ElsewhereSame DEF ArgumentsApplied
<1>. QED
  BY <1>1, <1>2, <1>3, <1>4, StepCases

(***************************************************************************)
(* A submission runs every inference with the arguments the application set *)
(* last, unless it goes out again after a failed update without a new one   *)
(* (VPUInferenceExecute::update clears cmdNeedsUpdate first).              *)
(***************************************************************************)
THEOREM ArgumentsCorrect ==
    ASSUME "forget" \in Avoid
    PROVE  Spec => []ArgumentsApplied
<1>1. Init => ListInv /\ ArgumentsApplied
  BY InitListInv DEF Init, NoRun, ArgumentsApplied
<1>2. ListInv /\ ArgumentsApplied /\ [Next]_vars => (ListInv /\ ArgumentsApplied)'
  BY NextListInv, NextApplied
<1>. QED
  BY <1>1, <1>2, PTL DEF Spec

-----------------------------------------------------------------------------
(* The handles of a submission name open buffer objects.                   *)

\* What the handles of the list may name.
OpenInv ==
    /\ HandlesFrom(buf.handles, buf.bo, userArgs, lastScratch, others \cup {preemptBo})
    /\ run.closed = {}

\* The handles an update leaves.
LEMMA UpdatedFrom ==
    ASSUME ListInv, OpenInv, NEW queue, MayAllocate(SubmitNeeds(queue)),
           NEW p, p = PreemptionBuffer, NEW s \in ScratchAcquire(Open \cup {p}),
           NEW st, st = UpdateCommands(Start, s)
    PROVE  HandlesFrom(st.buf.handles, buf.bo, st.args, st.last, others \cup {p})
<1>0. NoBo \notin Handles
  BY Parameters
<1>1. Ready(s) /\ preemptBo \in {p, NoBo} /\ Done(st, NumCmds, s)
  BY BeforeIoctl
<1>2. \A rest : HandlesFrom(buf.handles, buf.bo, userArgs, lastScratch, rest)
                   => HandlesFrom(st.buf.handles, buf.bo, st.args, st.last, rest)
  BY <1>1, Updated
<1>3. HandlesFrom(st.buf.handles, buf.bo, st.args, st.last, others \cup {preemptBo})
  BY <1>2 DEF OpenInv
<1>4. ToSet(st.buf.handles) \subseteq Handles
  BY <1>1 DEF Done
<1>. QED
  BY <1>0, <1>1, <1>3, <1>4 DEF HandlesFrom

LEMMA SubmitFrom ==
    ASSUME "destroy" \in Avoid, ListInv, OpenInv, NEW queue \in {"default", "inorder"},
           NEW p, NEW s, NEW st, NEW b, SubmitStep(queue, p, s, st, b)
    PROVE  HandlesFrom(b.handles, b.bo, st.args, st.last, others \cup {p})
<1>0. NoBo \notin Handles
  BY Parameters
<1>1. /\ p = PreemptionBuffer /\ s \in ScratchAcquire(Open \cup {p})
      /\ st = UpdateCommands(Start, s) /\ st.ok /\ MayAllocate(SubmitNeeds(queue))
      /\ SubmitAllowed(queue)
  BY DEF SubmitStep
<1>2. HandlesFrom(st.buf.handles, buf.bo, st.args, st.last, others \cup {p})
  BY <1>1, UpdatedFrom
<1>3. st.buf.bo = buf.bo
  BY <1>1, FailedSound
<1>4. PICK a : PreparedBy(queue, p, s, st, b, a)
  BY PreparedWays
<1>. DEFINE K == {buf.bo} \cup ArgHandles(st.args) \cup {st.last[c] : c \in Cmds} \cup (others \cup {p})
<1>5. a.bo = buf.bo /\ ToSet(a.handles) \subseteq K
  <2>1. ToSet(st.buf.handles) \subseteq K
    BY <1>2 DEF HandlesFrom
  <2>2. a.bo = buf.bo /\ ToSet(a.handles) \subseteq ToSet(st.buf.handles) \cup {p}
    BY <1>3, <1>4 DEF PreparedBy, PreemptionResult
  <2>3. p \in K
    OBVIOUS
  <2>. HIDE DEF K
  <2>. QED
    BY <2>1, <2>2, <2>3
<1>6. buf.bo \in K /\ others \subseteq K
  OBVIOUS
<1>7. ASSUME b.bo = buf.bo, ToSet(b.handles) \subseteq K
      PROVE  HandlesFrom(b.handles, b.bo, st.args, st.last, others \cup {p})
  BY <1>7 DEF HandlesFrom
<1>. HIDE DEF K
<1>8. CASE \E d : Sound(d) /\ WaitedResult(a, d) /\ WaitResult(d, NoBo, b)
  <2>1. b.bo = a.bo /\ ToSet(b.handles) \subseteq ToSet(a.handles)
    BY <1>8 DEF WaitedResult, WaitResult
  <2>. QED
    BY <1>5, <1>7, <2>1
<1>9. CASE queue = "inorder" /\ WaitResult(a, lastWaitBo, b)
  <2>1. lastWaitBo \in {NoBo, buf.bo} \cup others
    BY <1>1, <1>9 DEF SubmitAllowed
  <2>2. b.bo = a.bo /\ ToSet(b.handles) = ToSet(a.handles) \cup ({lastWaitBo} \ {NoBo})
    BY <1>9 DEF WaitResult
  <2>. QED
    BY <1>5, <1>6, <1>7, <2>1, <2>2
<1>10. CASE StrippedResult(st.args, s, b)
  BY <1>10 DEF StrippedResult, HandlesFrom
<1>11. CASE b = a
  BY <1>5, <1>7, <1>11
<1>. QED
  BY <1>4, <1>8, <1>9, <1>10, <1>11 DEF PreparedBy

\* What a submission leaves open.
LEMMA SubmitOpen ==
    ASSUME "destroy" \in Avoid, ListInv, OpenInv, NEW queue \in {"default", "inorder"},
           NEW p, NEW s, NEW st, NEW b, SubmitStep(queue, p, s, st, b)
    PROVE  ToSet(b.handles) \subseteq Open'
<1>0. NoBo \notin Handles
  BY Parameters
<1>1. /\ p = PreemptionBuffer /\ s \in ScratchAcquire(Open \cup {p})
      /\ st = UpdateCommands(Start, s) /\ st.ok /\ MayAllocate(SubmitNeeds(queue))
      /\ b = Prepared(AddPreemptionBuffer(st.buf, p), st.args, queue, Open \cup {p, s})
      /\ buf' = b /\ userArgs' = st.args /\ scratchCache' = ScratchKept(s) /\ preemptBo' = p
      /\ others' = others
  BY DEF SubmitStep
<1>2. ToSet(b.handles) \subseteq Handles
  <2>1. PreparedResult(queue, s, st, b)
    BY <1>1, PreparedFacts
  <2>. QED
    BY <2>1 DEF PreparedResult, Sound
<1>3. ToSet(b.handles) \subseteq {b.bo} \cup ArgHandles(st.args) \cup {st.last[c] : c \in Cmds} \cup (others \cup {p})
  BY SubmitFrom DEF HandlesFrom
<1>4. \A c \in Cmds : st.last[c] \in {s, NoBo}
  BY <1>1, BeforeIoctl
<1>5. {b.bo} \cup ArgHandles(st.args) \cup others \cup {p} \cup scratchCache' \subseteq Open' \cup {NoBo}
  BY <1>1 DEF Open, ArgHandles
<1>6. s \in scratchCache' \cup {NoBo}
  BY <1>1 DEF ScratchKept
<1>. QED
  BY <1>0, <1>2, <1>3, <1>4, <1>5, <1>6

LEMMA NextOpenInv ==
    ASSUME "destroy" \in Avoid, ListInv, OpenInv, [Next]_vars
    PROVE  OpenInv'
<1>1. ASSUME NEW queue \in {"default", "inorder"}, SubmitFailsUpdate(queue) PROVE OpenInv'
  <2>1. PICK p, s, st : FailStep(queue, p, s, st)
    BY <1>1, FailedStep
  <2>2. /\ p = PreemptionBuffer /\ s \in ScratchAcquire(Open \cup {p})
        /\ st = UpdateCommands(Start, s) /\ MayAllocate(SubmitNeeds(queue))
        /\ buf' = st.buf /\ userArgs' = st.args /\ lastScratch' = st.last
        /\ preemptBo' = p /\ run' = run /\ others' = others
    BY <2>1 DEF FailStep
  <2>3. HandlesFrom(st.buf.handles, buf.bo, st.args, st.last, others \cup {p})
    BY <2>2, UpdatedFrom
  <2>4. st.buf.bo = buf.bo
    BY <2>2, FailedSound
  <2>. QED
    BY <2>2, <2>3, <2>4 DEF OpenInv, HandlesFrom, ArgHandles
<1>2. ASSUME NEW queue \in {"default", "inorder"}, Submit(queue) PROVE OpenInv'
  <2>1. PICK p, s, st, b : SubmitStep(queue, p, s, st, b)
    BY <1>2, Submitted
  <2>2. /\ buf' = b /\ userArgs' = st.args /\ lastScratch' = st.last
        /\ preemptBo' = p /\ others' = others /\ Ioctl(b, st.args, st.last)
    BY <2>1 DEF SubmitStep
  <2>3. HandlesFrom(b.handles, b.bo, st.args, st.last, others \cup {p})
    BY <2>1, SubmitFrom
  <2>4. ToSet(b.handles) \subseteq Open'
    BY <2>1, SubmitOpen
  <2>5. run'.closed = ToSet(b.handles) \ Open'
    BY <2>2 DEF Ioctl
  <2>. QED
    BY <2>2, <2>3, <2>4, <2>5 DEF OpenInv, HandlesFrom, ArgHandles
<1>3. ASSUME WaitForCompletion PROVE OpenInv'
  <2>. DEFINE r == WaitDone(buf)
  <2>1. /\ buf' = r /\ run' = NoRun
        /\ UNCHANGED <<userArgs, lastScratch, others, preemptBo>>
    BY <1>3 DEF WaitForCompletion
  <2>2. /\ buf \in BufType /\ OwnFirst(buf) /\ (buf.preempt = NoBo => buf.index = 0)
        /\ (buf.preempt # NoBo => buf.index >= 1)
    BY BufferSound DEF Sound
  <2>3. WaitedResult(buf, r)
    BY <2>2, WaitedDone
  <2>. HIDE DEF r
  <2>4. r.bo = buf.bo /\ ToSet(r.handles) \subseteq ToSet(buf.handles)
    BY <2>3 DEF WaitedResult
  <2>. QED
    BY <2>1, <2>4 DEF OpenInv, HandlesFrom, ArgHandles, NoRun
<1>4. ASSUME Elsewhere PROVE OpenInv'
  <2>1. UNCHANGED <<userArgs, lastScratch, buf, preemptBo, run>>
    BY <1>4, ElsewhereSame
  <2>2. \A o \in others : o \in others' \/ o \notin ToSet(buf.handles)
    BY <1>4 DEF Elsewhere, Allocate, Free, SetUpdates, ScratchPrune, CloseOther, SubmitOther,
                DestroyOther, vars
  <2>. QED
    BY <2>1, <2>2 DEF OpenInv, HandlesFrom, ArgHandles
<1>. QED
  BY <1>1, <1>2, <1>3, <1>4, StepCases

LEMMA InitHandles ==
    ASSUME Init
    PROVE  ToSet(buf.handles) = {buf.bo} \cup ArgHandles(userArgs)
<1>0. Handles \subseteq Nat
  BY Parameters
<1>. DEFINE bo == NumCmds * NumArgs + 1
            f == <<bo>>
            h == CommandHandles(f, userArgs)
<1>1. /\ ListInv
      /\ buf = [bo |-> bo, handles |-> h, scratch |-> NoBo, preempt |-> NoBo, index |-> 0,
                waitBo |-> NoBo]
  BY InitListInv DEF Init, NewCommandBuffer
<1>2. buf.bo = bo /\ buf.handles = h
  BY <1>1
<1>3. userArgs \in ArgLists /\ bo \in Nat
  BY <1>0, <1>1, <1>2 DEF ListInv, TypeInv
<1>. HIDE DEF bo
<1>4. f \in Seq(Nat) /\ ToSet(f) = {bo} /\ Len(f) >= 1 /\ f[1] = bo
  BY <1>3, Single
<1>. HIDE DEF f
<1>5. /\ h \in Seq(Nat) /\ ToSet(h) = ToSet(f) \cup ArgHandles(userArgs)
      /\ Len(h) >= 1 /\ h[1] = f[1]
  BY <1>3, <1>4, CommandsAdded
<1>. QED
  BY <1>2, <1>4, <1>5

LEMMA InitOpenInv == Init => OpenInv
<1>. SUFFICES ASSUME Init PROVE OpenInv
  OBVIOUS
<1>1. ToSet(buf.handles) = {buf.bo} \cup ArgHandles(userArgs)
  BY InitHandles
<1>2. run.closed = {}
  BY DEF Init, NoRun
<1>. QED
  BY <1>1, <1>2 DEF OpenInv, HandlesFrom

(***************************************************************************)
(* No submission is refused for a buffer object that is gone, as long as no *)
(* command buffer goes that the list waits for or once waited for: each     *)
(* handle is the list's own fence, an argument, scratch memory of this      *)
(* submission, the preemption buffer of the queue or a living fence         *)
(* (getBufferHandles, replaceBufferHandles, addWaitAtHead).                *)
(***************************************************************************)
THEOREM HandlesOpenCorrect ==
    ASSUME "destroy" \in Avoid
    PROVE  Spec => []HandlesOpen
<1>1. Init => ListInv /\ OpenInv
  BY InitListInv, InitOpenInv
<1>2. ListInv /\ OpenInv /\ [Next]_vars => (ListInv /\ OpenInv)'
  BY NextListInv, NextOpenInv
<1>3. ListInv /\ OpenInv => HandlesOpen
  BY DEF OpenInv, HandlesOpen
<1>. QED
  BY <1>1, <1>2, <1>3, PTL DEF Spec

-----------------------------------------------------------------------------
(* A submission has the handle of everything it uses.                      *)

\* No two inferences share an argument, patched in or about to be.
ArgsApart(new, old) ==
    \A c, d \in Cmds : c # d =>
       /\ ToSet(new[c]) \cap ToSet(new[d]) = {}
       /\ ToSet(new[c]) \cap ToSet(old[d]) = {}
       /\ ToSet(old[c]) \cap ToSet(old[d]) = {}

CompleteInv ==
    /\ ArgsApart(inputs, userArgs)
    /\ \A c \in Cmds : c # 1 => lastScratch[c] \in scratchCache \cup {NoBo}
    /\ lastScratch[1] \notin ArgHandles(userArgs)
    /\ ArgHandles(userArgs) \subseteq ToSet(buf.handles)
    /\ run.missing = {}

\* What the promises of the application give an update.
LEMMA UpdateSeparate ==
    ASSUME ListInv, CompleteInv, NEW queue, MayAllocate(SubmitNeeds(queue)),
           NEW p, p = PreemptionBuffer, NEW s \in ScratchAcquire(Open \cup {p})
    PROVE  Separate(s)
<1>0. NoBo \notin Handles /\ 1 \in Cmds
  <2>1. NumCmds \in Nat /\ NumCmds >= 1
    BY ParametersAssumption
  <2>. QED
    BY <2>1, Parameters DEF Cmds
<1>. DEFINE st == UpdateCommands(Start, s)
<1>1. s \notin Users
  <2>1. st = UpdateCommands(Start, s)
    OBVIOUS
  <2>. HIDE DEF st
  <2>. QED
    BY <2>1, BeforeIoctl
<1>2. ASSUME NEW d \in Cmds
      PROVE  /\ ToSet(userArgs[d]) \subseteq Users
             /\ ArgumentsFound(d) => ToSet(inputs[d]) \subseteq Users
  <2>1. ToSet(userArgs[d]) \subseteq Users
    BY DEF Users, ArgHandles
  <2>2. ASSUME ArgumentsFound(d) PROVE ToSet(inputs[d]) \subseteq Users
    <3>1. inputs[d] \in [Args -> Handles]
      BY DEF ListInv, TypeInv, ArgLists
    <3>2. ToSet(inputs[d]) = {inputs[d][a] : a \in Args}
      BY <3>1, ArgumentSequence
    <3>. QED
      BY <2>2, <3>2 DEF ArgumentsFound, Users
  <2>. QED
    BY <2>1, <2>2
<1>3. Users \cap scratchCache = {} /\ NoBo \notin Users
  BY <1>0, OpenFacts DEF ListInv, ApartInv
<1>4. ASSUME NEW c \in Cmds, NEW d \in Cmds
      PROVE  /\ lastScratch[c] \notin ToSet(userArgs[d])
             /\ c # 1 /\ ArgumentsFound(d) => lastScratch[c] \notin ToSet(inputs[d])
  <2>1. c # 1 => lastScratch[c] \in scratchCache \cup {NoBo}
    BY DEF CompleteInv
  <2>2. c = 1 => lastScratch[c] \notin ToSet(userArgs[d])
    BY DEF CompleteInv, ArgHandles
  <2>. QED
    BY <1>2, <1>3, <2>1, <2>2
<1>5. ArgsApart(inputs, userArgs)
  BY DEF CompleteInv
<1>. QED
  BY <1>1, <1>2, <1>4, <1>5 DEF Separate, ArgsApart

\* What an update leaves, failed or not.
LEMMA UpdatedWhole ==
    ASSUME ListInv, CompleteInv, NEW queue, MayAllocate(SubmitNeeds(queue)),
           NEW p, p = PreemptionBuffer, NEW s \in ScratchAcquire(Open \cup {p}),
           NEW st, st = UpdateCommands(Start, s)
    PROVE  /\ ArgsApart(inputs, st.args)
           /\ \A c \in Cmds : c # 1 => st.last[c] \in ScratchKept(s) \cup {NoBo}
           /\ st.last[1] \notin ArgHandles(st.args)
           /\ ArgHandles(st.args) \subseteq ToSet(st.buf.handles)
           /\ st.ok /\ scratchCmds # {} => s \in ToSet(st.buf.handles)
<1>0. NoBo \notin Handles /\ 1 \in Cmds /\ Cmds = 1 .. NumCmds
  <2>1. NumCmds \in Nat /\ NumCmds >= 1
    BY ParametersAssumption
  <2>. QED
    BY <2>1, Parameters DEF Cmds
<1>1. /\ Ready(s) /\ Done(st, NumCmds, s)
      /\ s \notin Users /\ ArgHandles(st.args) \subseteq Users
      /\ \A c \in Cmds : c \notin scratchCmds => st.last[c] = NoBo
  BY BeforeIoctl
<1>2. Separate(s)
  BY UpdateSeparate
<1>3. \A c \in Cmds : ToSet(userArgs[c]) \subseteq ToSet(buf.handles)
  BY DEF CompleteInv, ArgHandles
<1>4. /\ Separate(s) /\ (\A c \in Cmds : ToSet(userArgs[c]) \subseteq ToSet(buf.handles))
            => Whole(st, NumCmds, s)
      /\ 1 \in scratchCmds => st.last[1] = s
  BY <1>1, Updated
<1>5. Whole(st, NumCmds, s)
  BY <1>2, <1>3, <1>4
<1>6. ArgsApart(inputs, st.args)
  <2>1. \A c \in Cmds : st.args[c] = userArgs[c] \/ st.args[c] = inputs[c]
    BY <1>1 DEF Done, ArgsFrom
  <2>2. ArgsApart(inputs, userArgs)
    BY DEF CompleteInv
  <2>3. ASSUME NEW c \in Cmds, NEW d \in Cmds, c # d
        PROVE  /\ ToSet(inputs[c]) \cap ToSet(inputs[d]) = {}
               /\ ToSet(inputs[c]) \cap ToSet(st.args[d]) = {}
               /\ ToSet(st.args[c]) \cap ToSet(st.args[d]) = {}
    <3>1. /\ ToSet(inputs[c]) \cap ToSet(inputs[d]) = {}
          /\ ToSet(inputs[c]) \cap ToSet(userArgs[d]) = {}
          /\ ToSet(inputs[d]) \cap ToSet(userArgs[c]) = {}
          /\ ToSet(userArgs[c]) \cap ToSet(userArgs[d]) = {}
      BY <2>2, <2>3 DEF ArgsApart
    <3>2. CASE st.args[c] = userArgs[c] /\ st.args[d] = userArgs[d]
      BY <3>1, <3>2
    <3>3. CASE st.args[c] = userArgs[c] /\ st.args[d] = inputs[d]
      BY <3>1, <3>3
    <3>4. CASE st.args[c] = inputs[c] /\ st.args[d] = userArgs[d]
      BY <3>1, <3>4
    <3>5. CASE st.args[c] = inputs[c] /\ st.args[d] = inputs[d]
      BY <3>1, <3>5
    <3>. QED
      BY <2>1, <3>2, <3>3, <3>4, <3>5
  <2>. QED
    BY <2>3 DEF ArgsApart
<1>7. ASSUME NEW c \in Cmds, c # 1 PROVE st.last[c] \in ScratchKept(s) \cup {NoBo}
  <2>1. st.last[c] \in {lastScratch[c], s}
    BY <1>1 DEF Done, LastFrom
  <2>2. lastScratch[c] \in scratchCache \cup {NoBo}
    BY <1>7 DEF CompleteInv
  <2>. QED
    BY <2>1, <2>2 DEF ScratchKept
<1>8. st.last[1] \notin ArgHandles(st.args)
  <2>1. st.last[1] \in {s, NoBo}
    BY <1>0, <1>1, <1>4
  <2>2. NoBo \notin Users
    BY <1>0, OpenFacts DEF ListInv
  <2>. QED
    BY <1>1, <2>1, <2>2
<1>9. ArgHandles(st.args) \subseteq ToSet(st.buf.handles)
  BY <1>5 DEF Whole, ArgHandles
<1>10. ASSUME st.ok, scratchCmds # {} PROVE s \in ToSet(st.buf.handles)
  <2>1. PICK c : c \in scratchCmds
    BY <1>10
  <2>2. c \in Cmds /\ c <= NumCmds
    BY <1>0, <2>1 DEF ListInv, TypeInv
  <2>. QED
    BY <1>5, <1>10, <2>1, <2>2 DEF Whole
<1>. QED
  BY <1>6, <1>7, <1>8, <1>9, <1>10

\* The fence of the list, the one it waits for, its arguments and its scratch memory
\* are among the handles of the ioctl.
LEMMA SubmitComplete ==
    ASSUME "retry" \in Avoid, "move" \in Avoid, ListInv, CompleteInv,
           NEW queue \in {"default", "inorder"},
           NEW p, NEW s, NEW st, NEW b, SubmitStep(queue, p, s, st, b)
    PROVE  /\ {b.bo, b.waitBo} \subseteq ToSet(b.handles) \cup {NoBo}
           /\ ArgHandles(st.args) \subseteq ToSet(b.handles)
           /\ \A c \in scratchCmds : st.last[c] \in ToSet(b.handles) \cup {NoBo}
<1>0. NoBo \notin Handles
  BY Parameters
<1>1. /\ p = PreemptionBuffer /\ s \in ScratchAcquire(Open \cup {p})
      /\ st = UpdateCommands(Start, s) /\ st.ok /\ MayAllocate(SubmitNeeds(queue))
      /\ b = Prepared(AddPreemptionBuffer(st.buf, p), st.args, queue, Open \cup {p, s})
      /\ SubmitAllowed(queue)
  BY DEF SubmitStep
<1>2. /\ p \notin Users /\ p \notin ScratchKept(s) /\ ~preemption => p = NoBo
      /\ ArgHandles(st.args) \subseteq Users
      /\ \A c \in Cmds : st.last[c] \in {s, NoBo}
  BY <1>1, BeforeIoctl
<1>3. st.buf.preempt = NoBo /\ st.buf.waitBo = buf.waitBo
  BY <1>1, FailedSound DEF SubmitAllowed
<1>4. PICK a : PreparedBy(queue, p, s, st, b, a)
  BY PreparedWays
<1>. DEFINE K == ArgHandles(st.args) \cup {x \in {s} \ {NoBo} : scratchCmds # {}}
<1>5. K \subseteq ToSet(st.buf.handles)
  BY <1>1, UpdatedWhole
<1>6. p \notin K
  <2>1. p \notin ArgHandles(st.args)
    BY <1>1, <1>2, BeforeIoctl
  <2>2. p # s \/ s = NoBo
    <3>1. p \notin ScratchKept(s)
      BY <1>1, BeforeIoctl
    <3>. QED
      BY <3>1 DEF ScratchKept
  <2>. QED
    BY <2>1, <2>2
<1>7. \A c \in scratchCmds : st.last[c] \in K \cup {NoBo}
  <2>1. \A c \in Cmds : st.last[c] \in {s, NoBo}
    BY <1>1, BeforeIoctl
  <2>. QED
    BY <2>1 DEF ListInv, TypeInv
<1>8. /\ PreemptionResult(st.buf, p, a) /\ a.waitBo = buf.waitBo
      /\ ToSet(st.buf.handles) \subseteq ToSet(a.handles)
  BY <1>3, <1>4 DEF PreparedBy, PreemptionResult
<1>9. Sound(b) /\ (queue # "inorder" => b.waitBo = NoBo)
  <2>1. PreparedResult(queue, s, st, b)
    BY <1>1, PreparedFacts
  <2>. QED
    BY <2>1 DEF PreparedResult
<1>10. b.bo \in ToSet(b.handles)
  <2>1. Len(b.handles) >= 1 /\ b.handles[1] = b.bo /\ b.handles \in Seq(Nat)
    BY <1>9 DEF Sound, OwnFirst, BufType
  <2>2. 1 \in DOMAIN b.handles
    BY <2>1
  <2>. QED
    BY <2>1, <2>2 DEF ToSet
<1>. SUFFICES /\ b.waitBo \in ToSet(b.handles) \cup {NoBo}
              /\ K \subseteq ToSet(b.handles) \/ (scratchCmds = {} /\ ArgHandles(st.args) \subseteq ToSet(b.handles))
  BY <1>7, <1>10
<1>. HIDE DEF K
<1>11. CASE \E d : Sound(d) /\ WaitedResult(a, d) /\ WaitResult(d, NoBo, b)
  <2>1. PICK d : WaitedResult(a, d) /\ WaitResult(d, NoBo, b)
    BY <1>11
  <2>2. ToSet(a.handles) \ {p} \subseteq ToSet(d.handles)
    <3>1. CASE p = NoBo
      <4>1. a.preempt = NoBo
        BY <1>3, <1>8, <3>1 DEF PreemptionResult
      <4>. QED
        BY <2>1, <4>1 DEF WaitedResult
    <3>2. CASE p # NoBo
      <4>1. /\ a.preempt = p /\ a.index < Len(a.handles) /\ a.handles[a.index + 1] = p
        BY <1>3, <1>8, <3>2 DEF PreemptionResult
      <4>. QED
        BY <2>1, <3>2, <4>1 DEF WaitedResult
    <3>. QED
      BY <3>1, <3>2
  <2>3. ToSet(d.handles) \subseteq ToSet(b.handles) /\ b.waitBo = NoBo
    BY <2>1 DEF WaitResult
  <2>. QED
    BY <1>5, <1>6, <1>8, <2>2, <2>3
<1>12. CASE queue = "inorder" /\ WaitResult(a, lastWaitBo, b)
  <2>1. /\ b.waitBo = lastWaitBo
        /\ ToSet(b.handles) = ToSet(a.handles) \cup ({lastWaitBo} \ {NoBo})
    BY <1>12 DEF WaitResult
  <2>. QED
    BY <1>5, <1>8, <2>1
<1>13. CASE queue # "inorder" /\ inOrder /\ StrippedResult(st.args, s, b)
  <2>1. scratchCmds = {}
    BY <1>1, <1>13 DEF SubmitAllowed
  <2>2. ArgHandles(st.args) \subseteq ToSet(b.handles)
    BY <1>13 DEF StrippedResult
  <2>. QED
    BY <1>9, <1>13, <2>1, <2>2
<1>14. CASE queue # "inorder" /\ b = a
  BY <1>5, <1>8, <1>9, <1>14
<1>. QED
  BY <1>4, <1>11, <1>12, <1>13, <1>14 DEF PreparedBy

LEMMA NextCompleteInv ==
    ASSUME {"share", "retry", "move", "reuse"} \subseteq Avoid,
           ListInv, IndexInv, CompleteInv, [Next]_vars
    PROVE  CompleteInv'
<1>0. NoBo \notin Handles
  BY Parameters
<1>1. ASSUME NEW queue \in {"default", "inorder"}, SubmitFailsUpdate(queue) PROVE CompleteInv'
  <2>1. PICK p, s, st : FailStep(queue, p, s, st)
    BY <1>1, FailedStep
  <2>2. /\ p = PreemptionBuffer /\ s \in ScratchAcquire(Open \cup {p})
        /\ st = UpdateCommands(Start, s) /\ MayAllocate(SubmitNeeds(queue))
        /\ buf' = st.buf /\ userArgs' = st.args /\ lastScratch' = st.last
        /\ scratchCache' = ScratchKept(s) /\ inputs' = inputs /\ run' = run
    BY <2>1 DEF FailStep
  <2>3. /\ ArgsApart(inputs, st.args)
        /\ \A c \in Cmds : c # 1 => st.last[c] \in ScratchKept(s) \cup {NoBo}
        /\ st.last[1] \notin ArgHandles(st.args)
        /\ ArgHandles(st.args) \subseteq ToSet(st.buf.handles)
        /\ st.ok /\ scratchCmds # {} => s \in ToSet(st.buf.handles)
    BY <2>2, UpdatedWhole
  <2>. QED
    BY <2>2, <2>3 DEF CompleteInv, ArgsApart, ArgHandles
<1>2. ASSUME NEW queue \in {"default", "inorder"}, Submit(queue) PROVE CompleteInv'
  <2>1. PICK p, s, st, b : SubmitStep(queue, p, s, st, b)
    BY <1>2, Submitted
  <2>2. /\ p = PreemptionBuffer /\ s \in ScratchAcquire(Open \cup {p})
        /\ st = UpdateCommands(Start, s) /\ MayAllocate(SubmitNeeds(queue))
        /\ buf' = b /\ userArgs' = st.args /\ lastScratch' = st.last
        /\ scratchCache' = ScratchKept(s) /\ inputs' = inputs /\ Ioctl(b, st.args, st.last)
    BY <2>1 DEF SubmitStep
  <2>3. /\ ArgsApart(inputs, st.args)
        /\ \A c \in Cmds : c # 1 => st.last[c] \in ScratchKept(s) \cup {NoBo}
        /\ st.last[1] \notin ArgHandles(st.args)
        /\ ArgHandles(st.args) \subseteq ToSet(st.buf.handles)
        /\ st.ok /\ scratchCmds # {} => s \in ToSet(st.buf.handles)
    BY <2>2, UpdatedWhole
  <2>4. /\ {b.bo, b.waitBo} \subseteq ToSet(b.handles) \cup {NoBo}
        /\ ArgHandles(st.args) \subseteq ToSet(b.handles)
        /\ \A c \in scratchCmds : st.last[c] \in ToSet(b.handles) \cup {NoBo}
    BY <2>1, SubmitComplete
  <2>5. run'.missing = (({b.bo, b.waitBo} \cup ArgHandles(st.args)
                         \cup {st.last[c] : c \in scratchCmds}) \ {NoBo}) \ ToSet(b.handles)
    BY <2>2 DEF Ioctl, ArgHandles
  <2>6. run'.missing = {}
    BY <2>4, <2>5
  <2>7. (ArgsApart(inputs, userArgs))'
    BY <2>2, <2>3 DEF ArgsApart
  <2>8. (ArgHandles(userArgs) \subseteq ToSet(buf.handles))'
    BY <2>2, <2>4 DEF ArgHandles
  <2>9. (lastScratch[1] \notin ArgHandles(userArgs))'
    BY <2>2, <2>3 DEF ArgHandles
  <2>10. (\A c \in Cmds : c # 1 => lastScratch[c] \in scratchCache \cup {NoBo})'
    BY <2>2, <2>3
  <2>. QED
    BY <2>6, <2>7, <2>8, <2>9, <2>10 DEF CompleteInv
<1>3. ASSUME WaitForCompletion PROVE CompleteInv'
  <2>. DEFINE r == WaitDone(buf)
  <2>1. /\ buf' = r /\ run' = NoRun
        /\ UNCHANGED <<inputs, userArgs, lastScratch, scratchCache>>
    BY <1>3 DEF WaitForCompletion
  <2>2. /\ buf \in BufType /\ OwnFirst(buf) /\ (buf.preempt = NoBo => buf.index = 0)
        /\ (buf.preempt # NoBo => buf.index >= 1)
    BY BufferSound DEF Sound
  <2>3. WaitedResult(buf, r)
    BY <2>2, WaitedDone
  <2>. HIDE DEF r
  <2>4. ToSet(buf.handles) \ {preemptBo} \subseteq ToSet(r.handles)
    <3>1. CASE buf.preempt = NoBo
      BY <2>3, <3>1 DEF WaitedResult
    <3>2. CASE buf.preempt # NoBo
      BY <2>3, <3>2 DEF WaitedResult, IndexInv, Indexed
    <3>. QED
      BY <3>1, <3>2
  <2>5. preemptBo \notin ArgHandles(userArgs)
    BY DEF ListInv, ApartInv, Users
  <2>6. ArgHandles(userArgs) \subseteq ToSet(r.handles)
    BY <2>4, <2>5 DEF CompleteInv
  <2>. QED
    BY <2>1, <2>6 DEF CompleteInv, ArgsApart, ArgHandles, NoRun
<1>4. ASSUME NEW c \in Cmds, NEW a \in Args, NEW h \in Handles, SetUpdates(c, a, h) PROVE CompleteInv'
  <2>1. /\ inputs' = [inputs EXCEPT ![c][a] = h]
        /\ \A d \in Cmds \ {c} : h \notin ToSet(userArgs[d]) \cup ToSet(inputs[d])
        /\ UNCHANGED <<userArgs, lastScratch, buf, scratchCache, run>>
    BY <1>4 DEF SetUpdates
  <2>2. inputs \in [Cmds -> [Args -> Handles]]
    BY DEF ListInv, TypeInv, ArgLists
  <2>3. \A d \in Cmds \ {c} : inputs'[d] = inputs[d]
    BY <2>1, <2>2
  <2>4. ToSet(inputs'[c]) \subseteq ToSet(inputs[c]) \cup {h}
    <3>1. inputs'[c] = [inputs[c] EXCEPT ![a] = h]
      BY <2>1, <2>2
    <3>2. DOMAIN inputs'[c] = DOMAIN inputs[c] /\ DOMAIN inputs[c] = Args
      BY <2>2, <3>1
    <3>. QED
      BY <3>1, <3>2 DEF ToSet
  <2>5. ArgsApart(inputs', userArgs)
    <3>1. ArgsApart(inputs, userArgs)
      BY DEF CompleteInv
    <3>2. ASSUME NEW d \in Cmds, NEW e \in Cmds, d # e
          PROVE  /\ ToSet(inputs'[d]) \cap ToSet(inputs'[e]) = {}
                 /\ ToSet(inputs'[d]) \cap ToSet(userArgs[e]) = {}
                 /\ ToSet(userArgs[d]) \cap ToSet(userArgs[e]) = {}
      <4>1. /\ ToSet(inputs[d]) \cap ToSet(inputs[e]) = {}
            /\ ToSet(inputs[d]) \cap ToSet(userArgs[e]) = {}
            /\ ToSet(userArgs[d]) \cap ToSet(userArgs[e]) = {}
        BY <3>1, <3>2 DEF ArgsApart
      <4>2. CASE d = c
        BY <2>1, <2>3, <2>4, <3>2, <4>1, <4>2
      <4>3. CASE e = c
        BY <2>1, <2>3, <2>4, <3>2, <4>1, <4>3
      <4>4. CASE d # c /\ e # c
        BY <2>3, <4>1, <4>4
      <4>. QED
        BY <4>2, <4>3, <4>4
    <3>. QED
      BY <3>2 DEF ArgsApart
  <2>6. ArgsApart(inputs, userArgs)'
    <3>1. userArgs' = userArgs
      BY <2>1
    <3>. QED
      BY <2>5, <3>1 DEF ArgsApart
  <2>7. ArgHandles(userArgs)' = ArgHandles(userArgs)
    BY <2>1 DEF ArgHandles
  <2>. QED
    BY <2>1, <2>6, <2>7 DEF CompleteInv
<1>5. ASSUME NEW s \in Handles, ScratchPrune(s) PROVE CompleteInv'
  <2>1. /\ scratchCache' = scratchCache \ {s}
        /\ \A c \in Cmds \ {1} : lastScratch[c] # s
        /\ UNCHANGED <<inputs, userArgs, lastScratch, buf, run>>
    BY <1>5 DEF ScratchPrune
  <2>. QED
    BY <2>1 DEF CompleteInv, ArgsApart, ArgHandles
<1>6. ASSUME UNCHANGED <<inputs, userArgs, lastScratch, scratchCache, buf, run>> PROVE CompleteInv'
  BY <1>6 DEF CompleteInv, ArgsApart, ArgHandles
<1>7. CASE Elsewhere
  <2>1. ASSUME NEW h \in Handles, Free(h) \/ SubmitOther(h) \/ DestroyOther(h)
        PROVE  UNCHANGED <<inputs, userArgs, lastScratch, scratchCache, buf, run>>
    BY <2>1 DEF Free, SubmitOther, DestroyOther
  <2>2. ASSUME Allocate \/ CloseOther \/ UNCHANGED vars
        PROVE  UNCHANGED <<inputs, userArgs, lastScratch, scratchCache, buf, run>>
    BY <2>2 DEF Allocate, CloseOther, vars
  <2>. QED
    BY <1>4, <1>5, <1>6, <1>7, <2>1, <2>2 DEF Elsewhere
<1>. QED
  BY <1>1, <1>2, <1>3, <1>7, StepCases

\* The arguments of the list are different ones at first.
LEMMA FirstArgumentsApart ==
    ASSUME NEW c \in Cmds, NEW d \in Cmds, NEW a \in Args, NEW e \in Args, c # d
    PROVE  (c - 1) * NumArgs + a # (d - 1) * NumArgs + e
<1>1. /\ NumArgs \in Nat /\ a \in Nat /\ a >= 1 /\ a <= NumArgs
      /\ e \in Nat /\ e >= 1 /\ e <= NumArgs
      /\ c \in Nat /\ d \in Nat /\ c >= 1 /\ d >= 1
  BY ParametersAssumption DEF Cmds, Args
<1>2. ASSUME NEW i \in Nat, NEW j \in Nat, i >= 1, j >= 1, i < j
      PROVE  (i - 1) * NumArgs + NumArgs <= (j - 1) * NumArgs
  <2>. DEFINE k == j - 1 - i
              m == i - 1
  <2>1. k \in Nat /\ m \in Nat /\ j - 1 = m + 1 + k /\ i - 1 = m
    BY <1>2
  <2>. HIDE DEF k, m
  <2>2. (m + 1 + k) * NumArgs = m * NumArgs + NumArgs + k * NumArgs
    BY <1>1, <2>1
  <2>3. m * NumArgs \in Nat /\ k * NumArgs \in Nat
    BY <1>1, <2>1
  <2>. QED
    BY <1>1, <2>1, <2>2, <2>3
<1>3. (c - 1) * NumArgs \in Nat /\ (d - 1) * NumArgs \in Nat
  <2>1. c - 1 \in Nat /\ d - 1 \in Nat
    BY <1>1
  <2>. QED
    BY <1>1, <2>1
<1>4. CASE c < d
  <2>1. (c - 1) * NumArgs + NumArgs <= (d - 1) * NumArgs
    BY <1>1, <1>2, <1>4
  <2>. QED
    BY <1>1, <1>3, <2>1
<1>5. CASE d < c
  <2>1. (d - 1) * NumArgs + NumArgs <= (c - 1) * NumArgs
    BY <1>1, <1>2, <1>5
  <2>. QED
    BY <1>1, <1>3, <2>1
<1>. QED
  BY <1>1, <1>4, <1>5

LEMMA InitCompleteInv == Init => CompleteInv
<1>. SUFFICES ASSUME Init PROVE CompleteInv
  OBVIOUS
<1>0. NoBo \notin Handles /\ 1 \in Cmds
  <2>1. NumCmds \in Nat /\ NumCmds >= 1
    BY ParametersAssumption
  <2>. QED
    BY <2>1, Parameters DEF Cmds
<1>1. ListInv /\ inputs = userArgs
  BY InitListInv DEF Init
<1>2. \A c \in Cmds : ToSet(userArgs[c]) = {(c - 1) * NumArgs + a : a \in Args}
  <2>1. userArgs = [c \in Cmds |-> [a \in Args |-> (c - 1) * NumArgs + a]]
    BY DEF Init
  <2>2. ASSUME NEW c \in Cmds PROVE ToSet(userArgs[c]) = {userArgs[c][a] : a \in Args}
    <3>1. userArgs[c] \in [Args -> Handles]
      BY <1>1 DEF ListInv, TypeInv, ArgLists
    <3>. QED
      BY <3>1, ArgumentSequence
  <2>. QED
    BY <2>1, <2>2
<1>3. ArgsApart(inputs, userArgs)
  <2>1. ASSUME NEW c \in Cmds, NEW d \in Cmds, c # d
        PROVE  ToSet(userArgs[c]) \cap ToSet(userArgs[d]) = {}
    <3>1. ASSUME NEW v, v \in ToSet(userArgs[c]), v \in ToSet(userArgs[d]) PROVE FALSE
      <4>1. PICK a \in Args : v = (c - 1) * NumArgs + a
        BY <1>2, <3>1
      <4>2. PICK e \in Args : v = (d - 1) * NumArgs + e
        BY <1>2, <3>1
      <4>. QED
        BY <2>1, <4>1, <4>2, FirstArgumentsApart
    <3>. QED
      BY <3>1
  <2>. QED
    BY <1>1, <2>1 DEF ArgsApart
<1>4. lastScratch = [c \in Cmds |-> NoBo] /\ run.missing = {}
  BY DEF Init, NoRun
<1>5. NoBo \notin ArgHandles(userArgs)
  BY <1>0, <1>1, OpenFacts DEF ListInv, Users
<1>6. ArgHandles(userArgs) \subseteq ToSet(buf.handles)
  BY InitHandles
<1>. QED
  BY <1>0, <1>3, <1>4, <1>5, <1>6 DEF CompleteInv

(***************************************************************************)
(* Every buffer object a submission touches is among the handles of its     *)
(* SUBMIT ioctl: the list's fence and the one it waits for, all arguments    *)
(* and the scratch memory, in an application that keeps the arguments of    *)
(* inferences apart, does not submit a list with a preemption buffer again   *)
(* after a failed ioctl or move one off the in-order queue, and while the   *)
(* kernel does not give the handle of a released scratch buffer out again    *)
(* (replaceBufferHandles, updateScratchBuffer, update, waitForCompletion).   *)
(***************************************************************************)
THEOREM HandlesCompleteCorrect ==
    ASSUME {"share", "retry", "move", "reuse"} \subseteq Avoid
    PROVE  Spec => []HandlesComplete
<1>1. Init => ListInv /\ IndexInv /\ CompleteInv
  BY InitIndexTypes, InitCompleteInv
<1>2. ListInv /\ IndexInv /\ CompleteInv /\ [Next]_vars => (ListInv /\ IndexInv /\ CompleteInv)'
  BY NextListInv, NextIndexInv, NextCompleteInv
<1>3. ListInv /\ IndexInv /\ CompleteInv => HandlesComplete
  BY DEF CompleteInv, HandlesComplete
<1>. QED
  BY <1>1, <1>2, <1>3, PTL DEF Spec

=============================================================================
