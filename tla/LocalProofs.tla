----------------------------- MODULE LocalProofs -----------------------------
(***************************************************************************)
(* What the parts that keep to themselves keep to, for any constants: the  *)
(* history of folders, the host picker, the searches for a port, the       *)
(* choices of a release and of a directory, and at the end the ssh         *)
(* configuration.  First, lists that are filtered, and functions that are  *)
(* built step by step.                                                     *)
(***************************************************************************)
EXTENDS LocationHistory, HostPicker, Ports, FetchRelease, InstallPath, SSHConfigInclude,
        SequenceTheorems, WellFoundedInduction, TLAPS

\* A set of numbers that has 0 and with each number the next has all of them.
LEMMA Inductive ==
  ASSUME NEW S \in SUBSET Nat, 0 \in S, \A n \in S : n + 1 \in S
  PROVE  S = Nat
<1> SUFFICES ASSUME Nat \ S # {} PROVE FALSE
  OBVIOUS
<1>1. \E x \in Nat \ S : \A y \in Nat \ S : ~ (<<y, x>> \in OpToRel(<, Nat))
  <2>1. IsWellFoundedOn(OpToRel(<, Nat), Nat) /\ Nat \ S \subseteq Nat
    BY NatLessThanWellFounded
  <2> HIDE DEF OpToRel
  <2> QED BY <2>1, WFMin
<1>2. \A y, x \in Nat : y < x => <<y, x>> \in OpToRel(<, Nat)
  BY DEF OpToRel
<1>3. PICK x \in Nat \ S : \A y \in Nat \ S : ~ (y < x)
  BY <1>1, <1>2
<1>4. x # 0 /\ x - 1 \in Nat /\ x - 1 < x /\ (x - 1) + 1 = x
  BY <1>3
<1> QED BY <1>3, <1>4

\* The function that Kept is built with, as far as n.
IsKept(kept, s, S, n) ==
  kept = [m \in 0..n |-> IF m = 0 THEN <<>>
                         ELSE IF s[m] \in S THEN Append(kept[m - 1], s[m]) ELSE kept[m - 1]]

\* There is such a function, however long the list is.
LEMMA KeptExists == ASSUME NEW s, NEW S, NEW n \in Nat PROVE \E kept : IsKept(kept, s, S, n)
<1> DEFINE All == {m \in Nat : \E kept : IsKept(kept, s, S, m)}
<1>1. 0 \in All
  <2> DEFINE k == [m \in 0..0 |-> <<>>]
  <2>1. IsKept(k, s, S, 0)
    BY DEF IsKept
  <2> QED BY <2>1
<1>2. ASSUME NEW m \in All PROVE m + 1 \in All
  <2>1. PICK kept : IsKept(kept, s, S, m)
    BY <1>2
  <2> DEFINE k == [l \in 0..(m + 1) |->
       IF l <= m THEN kept[l] ELSE IF s[l] \in S THEN Append(kept[m], s[l]) ELSE kept[m]]
  <2>2. m \in Nat
    OBVIOUS
  <2>3. ASSUME NEW l \in 0..(m + 1)
        PROVE  k[l] = IF l = 0 THEN <<>> ELSE IF s[l] \in S THEN Append(k[l - 1], s[l]) ELSE k[l - 1]
    <3>1. CASE l = 0
      BY <2>1, <2>2, <3>1 DEF IsKept
    <3>2. CASE l # 0 /\ l <= m
      <4>1. l \in 0..m /\ l - 1 \in 0..m /\ l - 1 \in 0..(m + 1) /\ l - 1 <= m
        BY <2>2, <3>2
      <4>2. k[l] = kept[l] /\ k[l - 1] = kept[l - 1]
        BY <3>2, <4>1
      <4>3. kept[l] = IF s[l] \in S THEN Append(kept[l - 1], s[l]) ELSE kept[l - 1]
        BY <2>1, <3>2, <4>1 DEF IsKept
      <4> QED BY <3>2, <4>2, <4>3
    <3>3. CASE l = m + 1
      BY <2>2, <3>3
    <3> QED BY <2>2, <3>1, <3>2, <3>3
  <2>4. IsKept(k, s, S, m + 1)
    <3>1. k = [l \in 0..(m + 1) |-> k[l]]
      OBVIOUS
    <3> HIDE DEF k
    <3> QED BY <2>3, <3>1 DEF IsKept
  <2> QED BY <2>2, <2>4
<1>3. All = Nat
  <2> HIDE DEF All
  <2>1. All \in SUBSET Nat
    BY DEF All
  <2> QED BY <1>1, <1>2, <2>1, Inductive
<1> QED BY <1>3

\* What the function for the whole of a list is.
LEMMA KeptFunction ==
  ASSUME NEW T, NEW s \in Seq(T), NEW S
  PROVE  \E kept : /\ Kept(s, S) = kept[Len(s)]
                   /\ kept[0] = <<>>
                   /\ \A n \in 1..Len(s) :
                        kept[n] = IF s[n] \in S THEN Append(kept[n - 1], s[n]) ELSE kept[n - 1]
<1>1. Len(s) \in Nat
  OBVIOUS
<1> DEFINE built == CHOOSE kept : IsKept(kept, s, S, Len(s))
<1>2. IsKept(built, s, S, Len(s))
  BY <1>1, KeptExists
<1>3. Kept(s, S) = built[Len(s)]
  BY DEF Kept, IsKept
<1> HIDE DEF built
<1>4. built[0] = <<>>
  BY <1>1, <1>2 DEF IsKept
<1>5. ASSUME NEW n \in 1..Len(s)
      PROVE  built[n] = IF s[n] \in S THEN Append(built[n - 1], s[n]) ELSE built[n - 1]
  <2>1. n \in 0..Len(s) /\ n # 0
    BY <1>1
  <2> QED BY <1>2, <2>1 DEF IsKept
<1> QED BY <1>3, <1>4, <1>5

\* List t is what set S leaves of the first n elements of s, and e says where
\* each of its elements stood.
IsPicked(t, e, s, S, n) ==
  /\ e \in [1..Len(t) -> 1..n]
  /\ \A j, k \in 1..Len(t) : j < k => e[j] < e[k]
  /\ \A k \in 1..Len(t) : t[k] = s[e[k]] /\ t[k] \in S
  /\ \A i \in 1..n : s[i] \in S => \E k \in 1..Len(t) : e[k] = i

\* One element more.
LEMMA PickOneMore ==
  ASSUME NEW T, NEW s \in Seq(T), NEW S, NEW n \in Nat, n + 1 \in 1..Len(s),
         NEW t \in Seq(T), NEW e, IsPicked(t, e, s, S, n)
  PROVE  LET u == IF s[n + 1] \in S THEN Append(t, s[n + 1]) ELSE t
         IN  u \in Seq(T) /\ \E d : IsPicked(u, d, s, S, n + 1)
<1>1. s[n + 1] \in T /\ Len(t) \in Nat
  OBVIOUS
<1>2. CASE s[n + 1] \notin S
  <2>1. \A i \in 1..n : i \in 1..(n + 1)
    OBVIOUS
  <2>2. \A i \in 1..(n + 1) : i = n + 1 \/ i \in 1..n
    OBVIOUS
  <2>3. e \in [1..Len(t) -> 1..(n + 1)]
    BY <2>1 DEF IsPicked
  <2>4. IsPicked(t, e, s, S, n + 1)
    BY <1>2, <2>2, <2>3 DEF IsPicked
  <2> QED BY <1>2, <2>4
<1>3. CASE s[n + 1] \in S
  <2> DEFINE u == Append(t, s[n + 1])
             d == [k \in 1..(Len(t) + 1) |-> IF k <= Len(t) THEN e[k] ELSE n + 1]
  <2>1. /\ u \in Seq(T) /\ Len(u) = Len(t) + 1 /\ u[Len(t) + 1] = s[n + 1]
        /\ \A k \in 1..Len(t) : u[k] = t[k]
    BY <1>1
  <2> HIDE DEF u
  <2>2. \A k \in 1..(Len(t) + 1) : (k \in 1..Len(t) /\ k <= Len(t)) \/ (k = Len(t) + 1 /\ ~(k <= Len(t)))
    BY <1>1
  <2>3. /\ \A k \in 1..Len(t) : d[k] = e[k] /\ d[k] \in 1..n
        /\ d[Len(t) + 1] = n + 1
    <3>1. Len(t) + 1 \in 1..(Len(t) + 1) /\ ~(Len(t) + 1 <= Len(t))
      BY <1>1
    <3>2. ASSUME NEW k \in 1..Len(t) PROVE k \in 1..(Len(t) + 1) /\ k <= Len(t) /\ e[k] \in 1..n
      BY <1>1 DEF IsPicked
    <3> QED BY <3>1, <3>2
  <2>4. d \in [1..Len(u) -> 1..(n + 1)]
    <3>1. \A k \in 1..(Len(t) + 1) : d[k] \in 1..(n + 1)
      <4> HIDE DEF d
      <4> QED BY <2>2, <2>3
    <3> QED BY <2>1, <3>1
  <2> HIDE DEF d
  <2>5. \A j, k \in 1..Len(u) : j < k => d[j] < d[k]
    BY <1>1, <2>1, <2>2, <2>3 DEF IsPicked
  <2>6. \A k \in 1..Len(u) : u[k] = s[d[k]] /\ u[k] \in S
    BY <1>1, <1>3, <2>1, <2>2, <2>3 DEF IsPicked
  <2>7. \A i \in 1..(n + 1) : s[i] \in S => \E k \in 1..Len(u) : d[k] = i
    <3> SUFFICES ASSUME NEW i \in 1..(n + 1), s[i] \in S PROVE \E k \in 1..Len(u) : d[k] = i
      OBVIOUS
    <3>1. CASE i = n + 1
      BY <1>1, <2>1, <2>3, <3>1
    <3>2. CASE i \in 1..n
      <4>1. PICK k \in 1..Len(t) : e[k] = i
        BY <3>2 DEF IsPicked
      <4> QED BY <1>1, <2>1, <2>3, <4>1
    <3> QED BY <3>1, <3>2
  <2>8. IsPicked(u, d, s, S, n + 1)
    BY <2>4, <2>5, <2>6, <2>7 DEF IsPicked
  <2> QED BY <1>3, <2>1, <2>8 DEF u
<1> QED BY <1>2, <1>3

\* What Kept makes of a list: its elements in S, each once, in their order.
LEMMA KeptPicks ==
  ASSUME NEW T, NEW s \in Seq(T), NEW S
  PROVE  Kept(s, S) \in Seq(T) /\ \E e : IsPicked(Kept(s, S), e, s, S, Len(s))
<1>1. Len(s) \in Nat
  OBVIOUS
<1>2. PICK kept : /\ Kept(s, S) = kept[Len(s)]
                  /\ kept[0] = <<>>
                  /\ \A n \in 1..Len(s) :
                       kept[n] = IF s[n] \in S THEN Append(kept[n - 1], s[n]) ELSE kept[n - 1]
  BY KeptFunction
<1> DEFINE All == {n \in Nat : n <= Len(s) => kept[n] \in Seq(T) /\ \E e : IsPicked(kept[n], e, s, S, n)}
<1>3. 0 \in All
  <2> DEFINE e == [k \in {} |-> k]
  <2>1. <<>> \in Seq(T) /\ 1..Len(<<>>) = {} /\ 1..0 = {}
    OBVIOUS
  <2>2. IsPicked(<<>>, e, s, S, 0)
    BY <2>1 DEF IsPicked
  <2> QED BY <1>2, <2>1, <2>2
<1>4. ASSUME NEW n \in All PROVE n + 1 \in All
  <2> SUFFICES ASSUME n + 1 <= Len(s)
               PROVE  kept[n + 1] \in Seq(T) /\ \E e : IsPicked(kept[n + 1], e, s, S, n + 1)
    OBVIOUS
  <2>1. n \in Nat /\ n <= Len(s) /\ n + 1 \in 1..Len(s) /\ (n + 1) - 1 = n
    BY <1>1
  <2>2. kept[n] \in Seq(T)
    BY <2>1
  <2>3. PICK e : IsPicked(kept[n], e, s, S, n)
    BY <2>1
  <2>4. kept[n + 1] = IF s[n + 1] \in S THEN Append(kept[n], s[n + 1]) ELSE kept[n]
    BY <1>2, <2>1
  <2> HIDE DEF All
  <2> QED BY <2>1, <2>2, <2>3, <2>4, PickOneMore
<1>5. All = Nat
  <2> HIDE DEF All
  <2>1. All \in SUBSET Nat
    BY DEF All
  <2> QED BY <1>3, <1>4, <2>1, Inductive
<1>6. Len(s) \in All
  BY <1>1, <1>5
<1> QED BY <1>1, <1>2, <1>6

\* A list without repetition stays one.
LEMMA KeptOnce ==
  ASSUME NEW T, NEW s \in Seq(T), NEW S, \A i, j \in DOMAIN s : s[i] = s[j] => i = j
  PROVE  \A i, j \in DOMAIN Kept(s, S) : Kept(s, S)[i] = Kept(s, S)[j] => i = j
<1>1. Kept(s, S) \in Seq(T) /\ DOMAIN s = 1..Len(s)
  BY KeptPicks
<1>2. PICK e : IsPicked(Kept(s, S), e, s, S, Len(s))
  BY KeptPicks
<1>3. DOMAIN Kept(s, S) = 1..Len(Kept(s, S))
  BY <1>1
<1> SUFFICES ASSUME NEW i \in 1..Len(Kept(s, S)), NEW j \in 1..Len(Kept(s, S)), i # j
             PROVE  Kept(s, S)[i] # Kept(s, S)[j]
  BY <1>3
<1>4. e[i] # e[j] /\ e[i] \in DOMAIN s /\ e[j] \in DOMAIN s
  <2>1. i \in Int /\ j \in Int /\ (i < j \/ j < i)
    BY <1>1
  <2>2. e[i] \in DOMAIN s /\ e[j] \in DOMAIN s /\ DOMAIN s \subseteq Nat
    <3>1. e \in [1..Len(Kept(s, S)) -> 1..Len(s)]
      BY <1>2 DEF IsPicked
    <3>2. e[i] \in 1..Len(s) /\ e[j] \in 1..Len(s)
      BY <3>1
    <3> QED BY <1>1, <3>2
  <2>3. e[i] < e[j] \/ e[j] < e[i]
    BY <1>2, <2>1 DEF IsPicked
  <2> QED BY <2>2, <2>3
<1> QED BY <1>1, <1>2, <1>4 DEF IsPicked

\* A function for Kept that stays within the elements of its list.
LEMMA KeptTypes ==
  ASSUME NEW T, NEW s \in Seq(T), NEW S
  PROVE  \E kept : /\ Kept(s, S) = kept[Len(s)]
                   /\ kept[0] = <<>>
                   /\ \A n \in 1..Len(s) :
                        kept[n] = IF s[n] \in S THEN Append(kept[n - 1], s[n]) ELSE kept[n - 1]
                   /\ \A n \in 0..Len(s) : kept[n] \in Seq(T)
<1>1. PICK kept : /\ Kept(s, S) = kept[Len(s)]
                  /\ kept[0] = <<>>
                  /\ \A n \in 1..Len(s) :
                       kept[n] = IF s[n] \in S THEN Append(kept[n - 1], s[n]) ELSE kept[n - 1]
  BY KeptFunction
<1> DEFINE All == {n \in Nat : n <= Len(s) => kept[n] \in Seq(T)}
<1>2. 0 \in All
  <2>1. kept[0] = <<>> /\ <<>> \in Seq(T)
    BY <1>1
  <2> QED BY <2>1, Zenon
<1>3. ASSUME NEW n \in All PROVE n + 1 \in All
  <2> SUFFICES ASSUME n + 1 <= Len(s) PROVE kept[n + 1] \in Seq(T)
    OBVIOUS
  <2>1. Len(s) \in Nat /\ n \in Nat /\ n <= Len(s) /\ n + 1 \in 1..Len(s) /\ (n + 1) - 1 = n
    OBVIOUS
  <2>2. kept[n] \in Seq(T) /\ s[n + 1] \in T
    BY <2>1
  <2>3. kept[n + 1] = IF s[n + 1] \in S THEN Append(kept[n], s[n + 1]) ELSE kept[n]
    BY <1>1, <2>1
  <2>4. Append(kept[n], s[n + 1]) \in Seq(T)
    BY <2>2
  <2> HIDE DEF All
  <2> QED BY <2>2, <2>3, <2>4
<1>4. All = Nat
  <2> HIDE DEF All
  <2>1. All \in SUBSET Nat
    BY DEF All
  <2> QED BY <1>2, <1>3, <2>1, Inductive
<1>5. \A n \in 0..Len(s) : kept[n] \in Seq(T)
  BY <1>4
<1> QED BY <1>1, <1>5

\* The functions that take each value from the one before it by g, and a g that
\* stays within S.
Recursive(S, base, L, g) ==
  {f \in [0..L -> S] : f[0] = base /\ \A m \in 1..L : f[m] = g[<<f[m - 1], m>>]}

Closed(S, L, g) == \A x \in S : \A m \in 1..L : g[<<x, m>>] \in S

\* There is such a function, for any number of steps.
LEMMA Recursion ==
  ASSUME NEW S, NEW base \in S, NEW L \in Nat, NEW g, Closed(S, L, g)
  PROVE  \E f : f \in Recursive(S, base, L, g)
<1> DEFINE Good(f, n) == f[0] = base /\ \A m \in 1..n : f[m] = g[<<f[m - 1], m>>]
           All == {n \in Nat : n <= L => \E f \in [0..n -> S] : Good(f, n)}
<1>1. 0 \in All
  <2> DEFINE f == [m \in 0..0 |-> base]
  <2>1. f \in [0..0 -> S] /\ Good(f, 0)
    OBVIOUS
  <2> QED BY <2>1
<1>2. ASSUME NEW n \in All PROVE n + 1 \in All
  <2> HIDE DEF Good
  <2> SUFFICES ASSUME n + 1 <= L PROVE \E f \in [0..(n + 1) -> S] : Good(f, n + 1)
    OBVIOUS
  <2> USE DEF Good
  <2>1. n \in Nat /\ n <= L /\ n + 1 \in 1..L
    OBVIOUS
  <2>2. PICK f \in [0..n -> S] : Good(f, n)
    BY <2>1
  <2> DEFINE h == [m \in 0..(n + 1) |-> IF m <= n THEN f[m] ELSE g[<<f[n], n + 1>>]]
  <2> HIDE DEF All
  <2>3. f[n] \in S /\ g[<<f[n], n + 1>>] \in S
    BY <2>1, <2>2 DEF Closed
  <2>4. h \in [0..(n + 1) -> S]
    BY <2>1, <2>2, <2>3
  <2>5. h[0] = base
    BY <2>1, <2>2
  <2>6. ASSUME NEW m \in 1..(n + 1) PROVE h[m] = g[<<h[m - 1], m>>]
    <3>1. CASE m \in 1..n
      <4>1. m \in 0..(n + 1) /\ m - 1 \in 0..(n + 1) /\ m <= n /\ m - 1 <= n
        BY <2>1, <3>1
      <4>2. h[m] = f[m] /\ h[m - 1] = f[m - 1]
        BY <4>1
      <4> QED BY <2>2, <3>1, <4>2
    <3>2. CASE m = n + 1
      <4>1. m \in 0..(n + 1) /\ m - 1 \in 0..(n + 1) /\ ~(m <= n) /\ m - 1 = n
        BY <2>1, <3>2
      <4>2. h[m] = g[<<f[n], n + 1>>] /\ h[m - 1] = f[n]
        BY <4>1
      <4> QED BY <3>2, <4>2
    <3> QED BY <2>1, <3>1, <3>2
  <2> HIDE DEF h
  <2> QED BY <2>4, <2>5, <2>6
<1>3. All = Nat
  <2> HIDE DEF All
  <2>1. All \in SUBSET Nat
    BY DEF All
  <2> QED BY <1>1, <1>2, <2>1, Inductive
<1>4. L \in All
  BY <1>3
<1> QED BY <1>4 DEF Recursive

----------------------------------------------------------------------------
(* The history of folders. *)

\* Every list is one of folders.
HistoryShape ==
  /\ window \in [Windows -> {"closed", "adding", "open", "broken"}]
  /\ stored \in Seq(Folders) /\ wanted \in Seq(Folders)
  /\ copy \in [Windows -> Seq(Folders)]
  /\ tree \in [Windows -> Seq(Folders)]
  /\ writing \subseteq Windows
  /\ intact \in BOOLEAN

\* A folder more, and one less, in a list that has none twice.
Once(list) == \A i, j \in DOMAIN list : list[i] = list[j] => i = j

\* A folder is added to a list only if it is not there.
LEMMA WithOnce ==
  ASSUME NEW list \in Seq(Folders), NEW f \in Folders
  PROVE  With(list, f) \in Seq(Folders) /\ (Once(list) => Once(With(list, f)))
<1>1. CASE Contains(list, f)
  BY <1>1 DEF With
<1>2. CASE ~Contains(list, f)
  <2> DEFINE more == <<f>> \o list
  <2>1. /\ more \in Seq(Folders) /\ Len(list) \in Nat /\ DOMAIN list = 1..Len(list)
        /\ DOMAIN more = 1..(Len(list) + 1) /\ more[1] = f
        /\ \A i \in 1..(Len(list) + 1) : i # 1 => i - 1 \in DOMAIN list /\ more[i] = list[i - 1]
    OBVIOUS
  <2> HIDE DEF more
  <2>2. ASSUME Once(list), NEW i \in DOMAIN more, NEW j \in DOMAIN more, more[i] = more[j]
        PROVE  i = j
    <3>1. i = 1 <=> j = 1
      BY <1>2, <2>1, <2>2 DEF Contains
    <3>2. i # 1 => i - 1 = j - 1
      BY <2>1, <2>2, <3>1 DEF Once
    <3> QED BY <2>1, <3>1, <3>2
  <2> QED BY <1>2, <2>1, <2>2 DEF With, Once, more
<1> QED BY <1>1, <1>2

\* Removing a folder leaves a list without repetition.
LEMMA WithoutOnce ==
  ASSUME NEW list \in Seq(Folders), NEW f
  PROVE  Without(list, f) \in Seq(Folders) /\ (Once(list) => Once(Without(list, f)))
BY KeptPicks, KeptOnce DEF Without, Once

\* Every step of a window keeps the shape.
LEMMA ShapeStep == ASSUME HistoryShape, [HistoryNext]_historyVars PROVE HistoryShape'
<1> USE DEF HistoryShape
<1>1. CASE UNCHANGED historyVars
  BY <1>1 DEF historyVars
<1>2. ASSUME NEW w \in Windows, StartLocal(w) \/ LoadTree(w) \/ Refresh(w) PROVE HistoryShape'
  BY <1>2 DEF StartLocal, LoadTree, Refresh
<1>3. ASSUME NEW w \in Windows, Write(w) \/ WriteFails(w) \/ CloseWindow(w) PROVE HistoryShape'
  <2>1. <<>> \in Seq(Folders)
    OBVIOUS
  <2>2. CASE Write(w)
    BY <2>2 DEF Write
  <2>3. CASE WriteFails(w)
    BY <2>3 DEF WriteFails
  <2>4. CASE CloseWindow(w)
    <3>1. intact' \in BOOLEAN
      BY <2>4, Zenon DEF CloseWindow
    <3> QED BY <2>1, <2>4, <3>1 DEF CloseWindow
  <2> QED BY <1>3, <2>2, <2>3, <2>4
<1>4. ASSUME NEW w \in Windows, NEW f \in Folders, StartRemote(w, f) \/ Remove(w, f)
      PROVE  HistoryShape'
  <2>1. /\ With(stored, f) \in Seq(Folders) /\ With(wanted, f) \in Seq(Folders)
        /\ Without(copy[w], f) \in Seq(Folders) /\ Without(wanted, f) \in Seq(Folders)
    BY WithOnce, WithoutOnce
  <2>2. CASE StartRemote(w, f)
    BY <2>1, <2>2 DEF StartRemote
  <2>3. CASE Remove(w, f)
    BY <2>1, <2>3 DEF Remove
  <2> QED BY <1>4, <2>2, <2>3
<1> QED BY <1>1, <1>2, <1>3, <1>4 DEF HistoryNext, WindowStep

\* Every step of a window keeps the inductive invariant.
LEMMA HistoryStep ==
  ASSUME HistoryShape, HistoryInv, [HistoryNext]_historyVars PROVE HistoryInv'
<1> USE DEF HistoryShape, HistoryInv, HistoryKept, TreeFollows, Alone
<1>1. CASE UNCHANGED historyVars
  BY <1>1 DEF historyVars
<1>2. ASSUME NEW w \in Windows, StartLocal(w) PROVE HistoryInv'
  <2>1. ASSUME intact' PROVE stored = wanted /\ \A v \in Windows : window[v] = "closed"
    <3>1. \A v \in Windows : window[v] = "closed"
      BY <1>2, <2>1 DEF StartLocal
    <3>2. writing = {}
      BY <3>1
    <3> QED BY <3>1, <3>2, <1>2, <2>1 DEF StartLocal
  <2>2. \A v \in Windows : v # w => /\ window'[v] = window[v] /\ copy'[v] = copy[v]
                                   /\ tree'[v] = tree[v] /\ (v \in loading' <=> v \in loading)
    BY <1>2 DEF StartLocal
  <2>3. window'[w] = "open" /\ copy'[w] = stored /\ w \in loading' /\ w \notin writing
        /\ UNCHANGED <<stored, writing, unrefreshed, wanted>> /\ (intact' => intact)
    BY <1>2 DEF StartLocal
  <2>4. HistoryKept'
    BY <2>1, <2>3
  <2>5. TreeFollows'
    <3>1. \A v \in Windows : window[v] = "open" /\ v \notin writing \cup loading \cup unrefreshed =>
            tree[v] = copy[v]
      OBVIOUS
    <3> HIDE DEF HistoryShape, HistoryInv
    <3> QED BY <2>2, <2>3, <3>1
  <2> QED BY <2>1, <2>2, <2>3, <2>4, <2>5
<1>3. ASSUME NEW w \in Windows, LoadTree(w) PROVE HistoryInv'
  BY <1>3 DEF LoadTree
<1>4. ASSUME NEW w \in Windows, Refresh(w) PROVE HistoryInv'
  BY <1>4 DEF Refresh
<1>5. ASSUME NEW w \in Windows, Write(w) PROVE HistoryInv'
  <2>1. window[w] \in {"adding", "open"}
    BY <1>5 DEF Write
  <2>2. \A v \in Windows : v # w => window'[v] = window[v]
    BY <1>5 DEF Write
  <2>3. window'[w] = "open" /\ w \in loading'
    BY <1>5 DEF Write
  <2>4. HistoryKept'
    BY <1>5, <2>1 DEF Write
  <2>5. TreeFollows'
    BY <1>5, <2>2, <2>3 DEF Write
  <2> QED BY <1>5, <2>1, <2>2, <2>3, <2>4, <2>5 DEF Write
<1>6. ASSUME NEW w \in Windows, WriteFails(w) PROVE HistoryInv'
  BY <1>6 DEF WriteFails
<1>7. ASSUME NEW w \in Windows, CloseWindow(w) PROVE HistoryInv'
  <2>1. ASSUME intact' PROVE writing' = writing /\ intact
    <3>1. intact /\ w \notin writing
      BY <1>7, <2>1, Zenon DEF CloseWindow
    <3>2. writing' = writing \ {w}
      BY <1>7 DEF CloseWindow
    <3> QED BY <3>1, <3>2
  <2>2. HistoryKept'
    BY <1>7, <2>1 DEF CloseWindow
  <2>3. \A v \in Windows : v # w => /\ window'[v] = window[v] /\ copy'[v] = copy[v]
                                   /\ tree'[v] = tree[v] /\ (v \in loading' <=> v \in loading)
                                   /\ (v \in writing' <=> v \in writing)
                                   /\ (v \in unrefreshed' <=> v \in unrefreshed)
    BY <1>7 DEF CloseWindow
  <2>4. window'[w] = "closed" /\ w \notin writing' /\ writing' \subseteq writing /\ UNCHANGED wanted
    BY <1>7 DEF CloseWindow
  <2>5. TreeFollows'
    BY <2>3, <2>4
  <2> QED BY <2>1, <2>2, <2>3, <2>4, <2>5
<1>8. ASSUME NEW w \in Windows, NEW f \in Folders, StartRemote(w, f) PROVE HistoryInv'
  <2>1. ASSUME intact' PROVE stored = wanted /\ \A v \in Windows : window[v] = "closed"
    <3>1. \A v \in Windows : window[v] = "closed"
      BY <1>8, <2>1 DEF StartRemote
    <3>2. writing = {}
      BY <3>1
    <3> QED BY <3>1, <3>2, <1>8, <2>1 DEF StartRemote
  <2>2. \A v \in Windows : v # w => window'[v] = window[v] /\ copy'[v] = copy[v]
    BY <1>8 DEF StartRemote
  <2>3. copy'[w] = With(stored, f) /\ wanted' = With(wanted, f) /\ w \notin writing
        /\ UNCHANGED <<stored, tree, unrefreshed>> /\ (intact' => intact)
    BY <1>8 DEF StartRemote
  <2>4. CASE Contains(stored, f)
    <3>1. window'[w] = "open" /\ loading' = loading \cup {w} /\ UNCHANGED writing
      BY <1>8, <2>4 DEF StartRemote
    <3>2. intact' => With(stored, f) = stored /\ With(wanted, f) = stored
      BY <2>1, <2>4 DEF With
    <3>3. HistoryKept'
      BY <2>1, <2>3, <3>1, <3>2
    <3>4. TreeFollows'
      BY <2>2, <2>3, <3>1
    <3> QED BY <2>1, <2>2, <2>3, <3>1, <3>2, <3>3, <3>4
  <2>5. CASE ~Contains(stored, f)
    <3>1. window'[w] = "adding" /\ writing' = writing \cup {w} /\ UNCHANGED loading
      BY <1>8, <2>5 DEF StartRemote
    <3>2. TreeFollows'
      BY <2>2, <2>3, <3>1
    <3> QED BY <2>1, <2>2, <2>3, <3>1, <3>2
  <2> QED BY <2>4, <2>5
<1>9. ASSUME NEW w \in Windows, NEW f \in Folders, Remove(w, f) PROVE HistoryInv'
  BY <1>9 DEF Remove
<1> QED BY <1>1, <1>2, <1>3, <1>4, <1>5, <1>6, <1>7, <1>8, <1>9 DEF HistoryNext, WindowStep

\* The inductive invariant always holds.
THEOREM HistoryInvariance == HistorySpec => [](HistoryShape /\ HistoryInv)
<1>1. HistoryInit => HistoryShape /\ HistoryInv
  BY DEF HistoryInit, HistoryShape, HistoryInv, HistoryKept, TreeFollows
<1>2. HistoryShape /\ HistoryInv /\ [HistoryNext]_historyVars => (HistoryShape /\ HistoryInv)'
  BY ShapeStep, HistoryStep
<1> QED BY <1>1, <1>2, PTL DEF HistorySpec

\* Windows that come one after the other lose nothing of the history.
THEOREM KeptAlone == HistorySpec => []HistoryKept
<1>1. HistoryInv => HistoryKept
  BY DEF HistoryInv
<1> QED BY <1>1, HistoryInvariance, PTL

\* A tree at rest shows the copy of its window, however windows overlap.
THEOREM TreesFollow == HistorySpec => []TreeFollows
<1>1. HistoryInv => TreeFollows
  BY DEF HistoryInv
<1> QED BY <1>1, HistoryInvariance, PTL
\* Every list that there is has no folder twice.
EachOnce == Once(stored) /\ \A w \in Windows : Once(copy[w]) /\ Once(tree[w])

\* Every step of a window keeps each list free of repetition.
LEMMA OnceStep ==
  ASSUME HistoryShape, EachOnce, [HistoryNext]_historyVars PROVE EachOnce'
<1> USE DEF HistoryShape, EachOnce
<1>1. CASE UNCHANGED historyVars
  BY <1>1 DEF historyVars
<1>2. ASSUME NEW w \in Windows, StartLocal(w) \/ LoadTree(w) \/ Refresh(w) PROVE EachOnce'
  BY <1>2 DEF StartLocal, LoadTree, Refresh
<1>3. Once(<<>>)
  BY DEF Once
<1>4. ASSUME NEW w \in Windows, Write(w) \/ WriteFails(w) \/ CloseWindow(w) PROVE EachOnce'
  BY <1>3, <1>4 DEF Write, WriteFails, CloseWindow
<1>5. ASSUME NEW w \in Windows, NEW f \in Folders, StartRemote(w, f) \/ Remove(w, f)
      PROVE  EachOnce'
  <2>1. Once(With(stored, f)) /\ Once(Without(copy[w], f))
    BY WithOnce, WithoutOnce
  <2>2. CASE StartRemote(w, f)
    BY <2>1, <2>2 DEF StartRemote
  <2>3. CASE Remove(w, f)
    BY <2>1, <2>3 DEF Remove
  <2> QED BY <1>5, <2>2, <2>3
<1> QED BY <1>1, <1>2, <1>4, <1>5 DEF HistoryNext, WindowStep

\* However windows overlap, fail and close, no list has a folder twice.
THEOREM FoldersOnce == HistorySpec => []NoFolderTwice
<1>1. HistoryInit => EachOnce
  BY DEF HistoryInit, EachOnce, Once
<1>2. HistoryShape /\ EachOnce /\ [HistoryNext]_historyVars => EachOnce'
  BY OnceStep
<1>3. EachOnce => NoFolderTwice
  BY DEF EachOnce, Once, NoFolderTwice
<1>4. HistoryShape /\ HistoryInv => HistoryShape
  OBVIOUS
<1> QED BY <1>1, <1>2, <1>3, <1>4, HistoryInvariance, PTL DEF HistorySpec

----------------------------------------------------------------------------
(* The host picker. *)

\* The labels are strings.
PickerType ==
  /\ configuredHosts \in Seq(Labels) /\ typed \in Labels /\ value \in Labels

\* Every step keeps the inductive invariant: the items are set whenever a value
\* is heard.
LEMMA PickerStep ==
  ASSUME PickerType, PickerInv, [PickerNext]_pickerVars PROVE (PickerType /\ PickerInv)'
<1> USE PickerAssumption DEF PickerType, PickerInv, ItemsFor, IsConfigured
<1>1. CASE UNCHANGED pickerVars
  BY <1>1 DEF pickerVars
<1>2. CASE LoadHosts
  <2>1. configuredHosts' \in Seq(Labels)
    <3>1. <<>> \in Seq(Labels)
      OBVIOUS
    <3> QED BY <1>2, <3>1 DEF LoadHosts
  <2> QED BY <1>2, <2>1 DEF LoadHosts
<1>3. CASE EnterHost \/ Accept \/ HidePicker
  BY <1>3 DEF EnterHost, Accept, HidePicker
<1>4. CASE Type
  BY <1>4 DEF Type
<1>5. CASE HearValue
  BY <1>5 DEF HearValue
<1>6. CASE ShowItems
  BY <1>6 DEF ShowItems
<1> QED BY <1>1, <1>2, <1>3, <1>4, <1>5, <1>6 DEF PickerNext

\* The input is the first thing that is shown if it is one of the items.
LEMMA InputFirst ==
  ASSUME NEW list \in Seq(Labels), \E i \in DOMAIN list : list[i] = typed, typed # Blank
  PROVE  Visible(list) # <<>> /\ Head(Visible(list)) = typed
<1> DEFINE others == {pair[2] : pair \in {p \in Within : p[1] = typed}}
           a == Kept(list, {typed})  b == Kept(list, others)
<1>1. a \in Seq(Labels) /\ b \in Seq(Labels)
  BY KeptPicks
<1>2. PICK e : IsPicked(a, e, list, {typed}, Len(list))
  BY KeptPicks
<1>3. Visible(list) = a \o b
  BY DEF Visible
<1> HIDE DEF a, b
<1>4. 1 \in 1..Len(a) /\ a[1] = typed
  <2>0. DOMAIN list = 1..Len(list)
    OBVIOUS
  <2>1. PICK i \in DOMAIN list : list[i] = typed
    OBVIOUS
  <2>2. PICK k \in 1..Len(a) : e[k] = i
    BY <1>2, <2>0, <2>1 DEF IsPicked
  <2>3. 1 \in 1..Len(a)
    <3>1. Len(a) \in Nat
      BY <1>1
    <3> QED BY <2>2, <3>1
  <2> QED BY <1>2, <2>3 DEF IsPicked
<1>5. (a \o b) # <<>> /\ Head(a \o b) = a[1]
  <2>1. Len(a) \in Nat /\ Len(b) \in Nat /\ Len(a \o b) = Len(a) + Len(b) /\ (a \o b)[1] = a[1]
    BY <1>1, <1>4
  <2>2. a \o b \in Seq(Labels) /\ Len(a \o b) # 0
    BY <1>1, <1>4, <2>1
  <2>3. (a \o b) # <<>> /\ Head(a \o b) = (a \o b)[1]
    BY <2>2
  <2> QED BY <2>1, <2>3
<1> QED BY <1>3, <1>4, <1>5

\* Once what is typed has been heard and its items are shown, Enter takes it.
THEOREM EnterIsTyped == PickerSpec => []EnterTakesTyped
<1>1. PickerInit => PickerType /\ PickerInv
  <2>1. <<>> \in Seq(Labels) /\ Blank \in Labels
    BY PickerAssumption
  <2> QED BY <2>1 DEF PickerInit, PickerType, PickerInv
<1>2. PickerType /\ PickerInv /\ [PickerNext]_pickerVars => (PickerType /\ PickerInv)'
  BY PickerStep
<1>3. PickerType /\ PickerInv => EnterTakesTyped
  <2> SUFFICES ASSUME PickerType, PickerInv, prompt = "pick", typed # Blank, value = typed, shown = items
               PROVE  Picked = typed
    BY DEF EnterTakesTyped
  <2>1. shown = ItemsFor(typed)
    BY DEF PickerInv
  <2>2. shown \in Seq(Labels) /\ \E i \in DOMAIN shown : shown[i] = typed
    <3>1. CASE IsConfigured(typed)
      BY <2>1, <3>1 DEF ItemsFor, IsConfigured, PickerType
    <3>2. CASE ~IsConfigured(typed)
      <4>1. shown = <<typed>> \o configuredHosts
        BY <2>1, <3>2 DEF ItemsFor
      <4>2. typed \in Labels /\ configuredHosts \in Seq(Labels)
        BY DEF PickerType
      <4>3. shown \in Seq(Labels) /\ 1 \in DOMAIN shown /\ shown[1] = typed
        BY <4>1, <4>2
      <4> QED BY <4>3
    <3> QED BY <3>1, <3>2
  <2> QED BY <2>2, InputFirst DEF Picked
<1> QED BY <1>1, <1>2, <1>3, PTL DEF PickerSpec

----------------------------------------------------------------------------
(* The searches for a port. *)

\* A search that comes to its end leaves nobody waiting.
LEMMA SettledPort ==
  ASSUME NEW p \in LocalPorts \cup {0, Rejected}, SettlePort(p) PROVE PortInv'
<1>1. p # Pending
  BY DEF LocalPorts, Rejected, Pending
<1>2. port' # Pending
  BY <1>1 DEF SettlePort
<1> QED BY <1>2 DEF PortInv

\* A search that goes on keeps its timeout.
LEMMA TriedPort ==
  ASSUME PortInv, search.by # "random", NEW next, TryNext(next) \/ UNCHANGED <<timer, port>>,
         UNCHANGED search
  PROVE  PortInv'
BY DEF PortInv, TryNext

\* The safety half of PortSettles: an answer that is not given has a timeout, or
\* the system, to give it.
THEOREM NobodyForgotten == PortSpec => []PortInv
<1>1. PortInit => PortInv
  BY Zenon DEF PortInit, PortInv
<1>2. PortInv /\ [PortNext]_portVars => PortInv'
  <2> SUFFICES ASSUME PortInv, [PortNext]_portVars PROVE PortInv'
    OBVIOUS
  <2>1. CASE UNCHANGED portVars
    BY <2>1 DEF portVars, PortInv
  <2>2. CASE NoSuchPort
    BY <2>2, TriedPort DEF NoSuchPort
  <2>3. CASE ConnectToPort
    BY <2>3, TriedPort, SettledPort DEF ConnectToPort
  <2>4. CASE ListenOnPort
    BY <2>4, TriedPort, SettledPort DEF ListenOnPort
  <2>5. CASE RandomPort
    BY <2>5, SettledPort DEF RandomPort
  <2>6. CASE Timeout
    <3>1. port' # Pending
      BY <2>6 DEF Timeout, Pending
    <3> QED BY <3>1 DEF PortInv
  <2> QED BY <2>1, <2>2, <2>3, <2>4, <2>5, <2>6 DEF PortNext, Searching
<1> QED BY <1>1, <1>2, PTL DEF PortSpec

----------------------------------------------------------------------------
(* The choice of a release. *)

\* Versions and builds are numbers.
LEMMA ReleaseNumbers == ASSUME NEW r \in Release PROVE r.version \in Nat /\ r.build \in Nat
<1>1. CASE r \in [version: Versions, build: Builds, digits: {"plain", "padded"}]
  BY <1>1, ReleaseAssumption
<1>2. CASE r \in [version: Versions, build: {0}, digits: {"none"}]
  <2>1. r.version \in Versions /\ r.build \in {0}
    BY <1>2
  <2>2. r.version \in Nat
    BY <2>1, ReleaseAssumption
  <2>3. r.build \in Nat
    BY <2>1
  <2> QED BY <2>2, <2>3
<1> QED BY <1>1, <1>2 DEF Release

\* Newer is a strict order.
LEMMA NewerOrder ==
  /\ \A r \in Release : ~Newer(r, r)
  /\ \A r, s, t \in Release : Newer(r, s) /\ Newer(s, t) => Newer(r, t)
BY ReleaseNumbers DEF Newer

\* Numbers have a least one.
LEMMA Least == ASSUME NEW S \in SUBSET Nat, S # {} PROVE \E m \in S : \A k \in S : m <= k
<1>1. \E x \in S : \A y \in S : ~ (<<y, x>> \in OpToRel(<, Nat))
  <2>1. IsWellFoundedOn(OpToRel(<, Nat), Nat) /\ S \subseteq Nat
    BY NatLessThanWellFounded
  <2> HIDE DEF OpToRel
  <2> QED BY <2>1, WFMin
<1>2. \A y, x \in Nat : y < x => <<y, x>> \in OpToRel(<, Nat)
  BY DEF OpToRel
<1>3. PICK x \in S : \A y \in S : ~ (y < x)
  BY <1>1, <1>2
<1> QED BY <1>3

\* A list that is sorted but for its last element: that one goes before the first
\* that it is newer than.
LEMMA Inserted ==
  ASSUME NEW n \in Nat, NEW s \in Seq(Release), Len(s) = n + 1,
         NEW p \in Bijection(1..n, 1..n), \A i, j \in 1..n : i < j => ~Newer(s[p[j]], s[p[i]])
  PROVE  \E q \in Bijection(1..(n + 1), 1..(n + 1)) :
           \A i, j \in 1..(n + 1) : i < j => ~Newer(s[q[j]], s[q[i]])
<1>1. /\ p \in [1..n -> 1..n]
      /\ \A i, j \in 1..n : p[i] = p[j] => i = j
      /\ \A k \in 1..n : \E i \in 1..n : p[i] = k
  BY DEF Bijection, Injection, Surjection, IsInjective
<1>2. \A i \in 1..(n + 1) : s[i] \in Release
  OBVIOUS
<1> DEFINE behind == {k \in 1..n : Newer(s[n + 1], s[p[k]])} \cup {n + 1}
<1>3. PICK m \in behind : \A k \in behind : m <= k
  <2>1. behind \in SUBSET Nat /\ n + 1 \in behind
    OBVIOUS
  <2> HIDE DEF behind
  <2> QED BY <2>1, Least
<1>4. m \in 1..(n + 1) /\ (m # n + 1 => m \in 1..n /\ Newer(s[n + 1], s[p[m]]))
  BY <1>3
<1>5. \A k \in 1..n : k < m => ~Newer(s[n + 1], s[p[k]])
  BY <1>3, <1>4
<1> HIDE DEF behind
<1> DEFINE q == [i \in 1..(n + 1) |-> IF i < m THEN p[i] ELSE IF i = m THEN n + 1 ELSE p[i - 1]]
<1>6. ASSUME NEW i \in 1..(n + 1)
      PROVE  \/ i < m /\ i \in 1..n /\ q[i] = p[i]
             \/ i = m /\ q[i] = n + 1
             \/ i > m /\ i - 1 \in 1..n /\ i - 1 >= m /\ q[i] = p[i - 1]
  BY <1>4
<1>7. /\ \A k \in 1..n : k < m => k \in 1..(n + 1) /\ q[k] = p[k]
      /\ \A k \in 1..n : k >= m => k + 1 \in 1..(n + 1) /\ q[k + 1] = p[k]
      /\ q[m] = n + 1
  BY <1>4
<1>8. q \in [1..(n + 1) -> 1..(n + 1)]
  <2>1. \A i \in 1..(n + 1) : q[i] \in 1..(n + 1)
    <3>1. n + 1 \in 1..(n + 1) /\ \A k \in 1..n : p[k] \in 1..n /\ p[k] \in 1..(n + 1)
      BY <1>1
    <3> HIDE DEF q
    <3> QED BY <1>6, <3>1
  <2> QED BY <2>1
<1> HIDE DEF q
<1>9. ASSUME NEW i \in 1..(n + 1), NEW j \in 1..(n + 1), q[i] = q[j] PROVE i = j
  <2>1. \A k \in 1..n : p[k] # n + 1
    BY <1>1
  <2>2. i \in Nat /\ j \in Nat /\ m \in Nat
    BY <1>4
  <2>3. CASE i < m /\ i \in 1..n /\ q[i] = p[i]
    <3>1. ~(j = m /\ q[j] = n + 1)
      BY <1>9, <2>1, <2>3
    <3>2. (j < m /\ j \in 1..n /\ q[j] = p[j]) \/ (j > m /\ j - 1 \in 1..n /\ j - 1 >= m /\ q[j] = p[j - 1])
      BY <1>6, <3>1
    <3>3. j > m /\ j - 1 >= m => ~(i = j - 1)
      BY <2>2, <2>3
    <3> QED BY <1>1, <1>9, <2>3, <3>2, <3>3
  <2>4. CASE i = m /\ q[i] = n + 1
    BY <1>1, <1>6, <1>9, <2>1, <2>2, <2>4
  <2>5. CASE i > m /\ i - 1 \in 1..n /\ i - 1 >= m /\ q[i] = p[i - 1]
    <3>1. ~(j = m /\ q[j] = n + 1)
      BY <1>9, <2>1, <2>5
    <3>2. (j < m /\ j \in 1..n /\ q[j] = p[j]) \/ (j > m /\ j - 1 \in 1..n /\ j - 1 >= m /\ q[j] = p[j - 1])
      BY <1>6, <3>1
    <3>3. j < m => ~(i - 1 = j)
      BY <2>2, <2>5
    <3>4. i - 1 = j - 1 => i = j
      BY <2>2
    <3> QED BY <1>1, <1>9, <2>5, <3>2, <3>3, <3>4
  <2> QED BY <1>6, <2>3, <2>4, <2>5
<1>10. ASSUME NEW k \in 1..(n + 1) PROVE \E i \in 1..(n + 1) : q[i] = k
  <2>1. CASE k = n + 1
    BY <1>4, <1>7, <2>1
  <2>2. CASE k \in 1..n
    <3>1. PICK l \in 1..n : p[l] = k
      BY <1>1, <2>2
    <3>2. l < m \/ l >= m
      BY <1>4
    <3> QED BY <1>7, <3>1, <3>2
  <2> QED BY <2>1, <2>2
<1>11. q \in Bijection(1..(n + 1), 1..(n + 1))
  BY <1>8, <1>9, <1>10 DEF Bijection, Injection, Surjection, IsInjective
<1>12. ASSUME NEW i \in 1..(n + 1), NEW j \in 1..(n + 1), i < j
       PROVE  ~Newer(s[q[j]], s[q[i]])
  <2>1. i \in Nat /\ j \in Nat /\ m \in Nat
    BY <1>4
  <2>2. CASE j < m
    BY <1>6, <1>12, <2>1, <2>2
  <2>3. CASE j = m
    BY <1>5, <1>6, <1>12, <2>1, <2>3
  <2>4. CASE j > m /\ i < m
    <3>1. q[j] = p[j - 1] /\ q[i] = p[i] /\ j - 1 \in 1..n /\ i \in 1..n /\ i < j - 1
      BY <1>6, <2>1, <2>4
    <3> QED BY <3>1
  <2>5. CASE j > m /\ i > m
    <3>1. q[j] = p[j - 1] /\ q[i] = p[i - 1] /\ j - 1 \in 1..n /\ i - 1 \in 1..n /\ i - 1 < j - 1
      BY <1>6, <1>12, <2>1, <2>5
    <3> QED BY <3>1
  <2>6. CASE j > m /\ i = m
    <3>1. q[j] = p[j - 1] /\ q[i] = n + 1 /\ j - 1 \in 1..n /\ m <= j - 1 /\ m \in 1..n
      BY <1>4, <1>6, <2>1, <2>6
    <3>2. /\ s[n + 1] \in Release /\ s[p[m]] \in Release /\ s[p[j - 1]] \in Release
          /\ Newer(s[n + 1], s[p[m]])
      <4>1. \A k \in 1..n : s[p[k]] \in Release
        <5>1. \A k \in 1..n : p[k] \in 1..(n + 1)
          BY <1>1
        <5> QED BY <1>2, <5>1
      <4>2. n + 1 \in 1..(n + 1) /\ m # n + 1
        BY <2>1, <3>1
      <4> QED BY <1>2, <1>4, <3>1, <4>1, <4>2
    <3>3. ~Newer(s[p[j - 1]], s[p[m]])
      <4>1. CASE j - 1 = m
        BY <3>2, <4>1, NewerOrder
      <4>2. CASE j - 1 # m
        BY <2>1, <3>1, <4>2
      <4> QED BY <4>1, <4>2
    <3> QED BY <3>1, <3>2, <3>3, NewerOrder
  <2> QED BY <1>12, <2>1, <2>2, <2>3, <2>4, <2>5, <2>6
<1> QED BY <1>11, <1>12

\* Every list can be sorted.
LEMMA CanSort ==
  ASSUME NEW n \in Nat
  PROVE  \A s \in Seq(Release) : Len(s) = n =>
           \E p \in Bijection(1..n, 1..n) : \A i, j \in 1..n : i < j => ~Newer(s[p[j]], s[p[i]])
<1> DEFINE P(k) == \A s \in Seq(Release) : Len(s) = k =>
                     \E p \in Bijection(1..k, 1..k) : \A i, j \in 1..k : i < j => ~Newer(s[p[j]], s[p[i]])
           All == {k \in Nat : P(k)}
<1>1. 0 \in All
  <2> DEFINE p == [i \in {} |-> i]
  <2>1. 1..0 = {}
    OBVIOUS
  <2>2. p \in Bijection(1..0, 1..0)
    BY <2>1 DEF Bijection, Injection, Surjection, IsInjective
  <2> QED BY <2>1, <2>2
<1>2. ASSUME NEW k \in All PROVE k + 1 \in All
  <2>1. k \in Nat /\ P(k)
    OBVIOUS
  <2> SUFFICES ASSUME NEW s \in Seq(Release), Len(s) = k + 1
               PROVE  \E p \in Bijection(1..(k + 1), 1..(k + 1)) :
                        \A i, j \in 1..(k + 1) : i < j => ~Newer(s[p[j]], s[p[i]])
    BY <2>1
  <2> DEFINE r == SubSeq(s, 1, k)
  <2>2. r \in Seq(Release) /\ Len(r) = k /\ \A i \in 1..k : r[i] = s[i]
    BY <2>1
  <2> HIDE DEF r
  <2>3. PICK p \in Bijection(1..k, 1..k) : \A i, j \in 1..k : i < j => ~Newer(r[p[j]], r[p[i]])
    BY <2>1, <2>2
  <2>4. \A i, j \in 1..k : i < j => ~Newer(s[p[j]], s[p[i]])
    <3>1. \A i \in 1..k : p[i] \in 1..k
      BY <2>3 DEF Bijection, Injection
    <3> QED BY <2>2, <2>3, <3>1
  <2> QED BY <2>1, <2>4, Inserted
<1>3. All = Nat
  <2> HIDE DEF All
  <2>1. All \in SUBSET Nat
    BY DEF All
  <2> QED BY <1>1, <1>2, <2>1, Inductive
<1> QED BY <1>3

\* What sorting gives: the elements of the list, none before a newer one.
LEMMA SortedList ==
  ASSUME NEW s \in Seq(Release)
  PROVE  /\ Sorted(s) \in Seq(Release) /\ Falling(Sorted(s))
         /\ \A r : (\E i \in DOMAIN s : s[i] = r) <=> (\E i \in DOMAIN Sorted(s) : Sorted(s)[i] = r)
<1>1. Len(s) \in Nat /\ DOMAIN s = 1..Len(s)
  OBVIOUS
<1>2. PICK p \in Bijection(DOMAIN s, DOMAIN s) :
        \A i, j \in DOMAIN s : i < j => ~Newer(s[p[j]], s[p[i]])
  BY <1>1, CanSort
<1> DEFINE t == [i \in DOMAIN s |-> s[p[i]]]
<1>3. t \in Reordered(s) /\ Falling(t)
  BY <1>2 DEF Reordered, Falling
<1>4. Sorted(s) \in Reordered(s) /\ Falling(Sorted(s))
  BY <1>3 DEF Sorted
<1>5. PICK q \in Bijection(DOMAIN s, DOMAIN s) : Sorted(s) = [i \in DOMAIN s |-> s[q[i]]]
  BY <1>4 DEF Reordered
<1>6. q \in [DOMAIN s -> DOMAIN s] /\ \A k \in DOMAIN s : \E i \in DOMAIN s : q[i] = k
  BY <1>5 DEF Bijection, Injection, Surjection
<1>7. Sorted(s) \in Seq(Release)
  BY <1>1, <1>5, <1>6
<1> QED BY <1>4, <1>5, <1>6, <1>7

\* What a lookup knows; it goes on only if it was asked to look for something.
ReleaseType ==
  /\ listed \in Seq(Release) /\ local \in Versions /\ objective \in Objectives
  /\ lookup = "fetching" => objective.ask # "match"

\* The newest release that fits heads the list that is left.
LEMMA FetchedIsBest == ASSUME ReleaseType, Fetched PROVE BestIsChosen'
<1> DEFINE valid == Kept(listed, {r \in Release : Valid(r)})
           fitting == Kept(Sorted(valid), {r \in Release : Fits(r)})
<1>1. /\ release' = IF fitting = <<>> THEN Local ELSE Head(fitting)
      /\ lookup' = "chosen" /\ UNCHANGED <<listed, local, objective>> /\ objective.ask # "match"
  BY DEF Fetched, ReleaseType
<1>2. listed \in Seq(Release) /\ valid \in Seq(Release)
  BY KeptPicks DEF ReleaseType
<1>3. PICK e : IsPicked(valid, e, listed, {r \in Release : Valid(r)}, Len(listed))
  BY KeptPicks, <1>2
<1>4. \A r : (\E k \in 1..Len(valid) : valid[k] = r) <=> r \in Answer /\ Valid(r)
  <2>1. DOMAIN listed = 1..Len(listed) /\ \A i \in 1..Len(listed) : listed[i] \in Release
    BY <1>2
  <2> HIDE DEF valid
  <2> QED BY <1>3, <2>1 DEF IsPicked, Answer
<1> HIDE DEF valid
<1>5. /\ Sorted(valid) \in Seq(Release) /\ Falling(Sorted(valid))
      /\ \A r : (\E i \in 1..Len(valid) : valid[i] = r)
                  <=> (\E i \in 1..Len(Sorted(valid)) : Sorted(valid)[i] = r)
  <2>1. /\ Sorted(valid) \in Seq(Release) /\ Falling(Sorted(valid))
        /\ \A r : (\E i \in DOMAIN valid : valid[i] = r)
                    <=> (\E i \in DOMAIN Sorted(valid) : Sorted(valid)[i] = r)
    BY <1>2, SortedList
  <2>2. DOMAIN Sorted(valid) = 1..Len(Sorted(valid)) /\ DOMAIN valid = 1..Len(valid)
    BY <1>2, <2>1
  <2> QED BY <2>1, <2>2
<1> DEFINE sorted == Sorted(valid)
<1> HIDE DEF sorted
<1>6. sorted \in Seq(Release) /\ \A i, j \in 1..Len(sorted) : i < j => ~Newer(sorted[j], sorted[i])
  <2>1. sorted \in Seq(Release) /\ DOMAIN sorted = 1..Len(sorted)
    BY <1>5 DEF sorted
  <2> QED BY <1>5, <2>1 DEF sorted, Falling
<1>7. \A r : (\E i \in 1..Len(sorted) : sorted[i] = r) <=> r \in Answer /\ Valid(r)
  BY <1>4, <1>5 DEF sorted
<1>8. fitting = Kept(sorted, {r \in Release : Fits(r)})
  BY DEF sorted
<1> HIDE DEF fitting
<1>9. fitting \in Seq(Release)
  BY <1>6, <1>8, KeptPicks
<1>10. PICK d : IsPicked(fitting, d, sorted, {r \in Release : Fits(r)}, Len(sorted))
  BY <1>6, <1>8, KeptPicks
<1>11. \A r : Fits(r) <=> Wanted(r)
  <2>1. objective.ask \in {"latest", "closest", "version", "release"}
    BY <1>1 DEF ReleaseType, Objectives
  <2> QED BY <2>1 DEF Fits, Wanted
<1>12. /\ d \in [1..Len(fitting) -> 1..Len(sorted)]
       /\ \A j, k \in 1..Len(fitting) : j < k => d[j] < d[k]
       /\ \A k \in 1..Len(fitting) : fitting[k] = sorted[d[k]] /\ Fits(fitting[k])
       /\ \A i \in 1..Len(sorted) : sorted[i] \in Release
       /\ \A i \in 1..Len(sorted) : Fits(sorted[i]) => \E k \in 1..Len(fitting) : d[k] = i
  <2>1. \A i \in 1..Len(sorted) : sorted[i] \in Release
    BY <1>6
  <2> QED BY <1>10, <2>1 DEF IsPicked
<1> DEFINE candidates == {r \in Answer : Valid(r) /\ Wanted(r)}
<1>13. \A r : r \in candidates <=> \E k \in 1..Len(fitting) : fitting[k] = r
  <2>1. ASSUME NEW r \in candidates PROVE \E k \in 1..Len(fitting) : fitting[k] = r
    <3>1. PICK i \in 1..Len(sorted) : sorted[i] = r
      BY <1>7
    <3>2. Fits(sorted[i])
      BY <1>11, <3>1
    <3>3. PICK k \in 1..Len(fitting) : d[k] = i
      BY <1>12, <3>2
    <3> QED BY <1>12, <3>1, <3>3
  <2>2. ASSUME NEW k \in 1..Len(fitting) PROVE fitting[k] \in candidates
    <3>1. d[k] \in 1..Len(sorted) /\ fitting[k] = sorted[d[k]] /\ Fits(fitting[k])
      BY <1>12
    <3>2. fitting[k] \in Answer /\ Valid(fitting[k])
      BY <1>7, <3>1
    <3> QED BY <1>11, <3>1, <3>2
  <2> QED BY <2>1, <2>2
<1>14. \A j, k \in 1..Len(fitting) : j < k => ~Newer(fitting[k], fitting[j])
  BY <1>6, <1>12
<1>15. candidates' = candidates /\ \A r, s : Newer(r, s)' <=> Newer(r, s)
  BY <1>1 DEF Answer, Valid, Wanted, Newer
<1> HIDE DEF candidates
<1>16. IF candidates = {} THEN release' = Local
       ELSE release' \in candidates /\ \A r \in candidates : ~Newer(r, release')
  <2>1. CASE fitting = <<>>
    <3>1. 1..Len(fitting) = {}
      BY <2>1
    <3> QED BY <1>1, <1>13, <2>1, <3>1
  <2>2. CASE fitting # <<>>
    <3>1. 1 \in 1..Len(fitting) /\ Head(fitting) = fitting[1] /\ fitting[1] \in Release
          /\ \A k \in 1..Len(fitting) : k = 1 \/ 1 < k
      BY <1>9, <2>2
    <3>2. release' = fitting[1] /\ release' \in candidates
      BY <1>1, <1>13, <2>2, <3>1
    <3>3. ASSUME NEW r \in candidates PROVE ~Newer(r, fitting[1])
      <4>1. PICK k \in 1..Len(fitting) : fitting[k] = r
        BY <1>13
      <4> QED BY <1>14, <3>1, <4>1, NewerOrder
    <3> QED BY <3>2, <3>3
  <2> QED BY <2>1, <2>2
<1>17. Local' = Local
  BY <1>1 DEF Local
<1> QED BY <1>15, <1>16, <1>17 DEF BestIsChosen, candidates

\* Whatever list GitHub answers with, the newest valid release of those asked
\* for is returned, and the editor's own only if there is none.
THEOREM BestChosen == ReleaseSpec => []BestIsChosen
<1>1. ReleaseInit => ReleaseType /\ BestIsChosen
  <2> SUFFICES ASSUME ReleaseInit PROVE ReleaseType /\ BestIsChosen
    OBVIOUS
  <2>1. listed \in Seq(Release)
    BY DEF ReleaseInit
  <2> QED BY <2>1 DEF ReleaseInit, ReleaseType, BestIsChosen
<1>2. ReleaseType /\ BestIsChosen /\ [ReleaseNext]_releaseVars => (ReleaseType /\ BestIsChosen)'
  <2> SUFFICES ASSUME ReleaseType, BestIsChosen, [ReleaseNext]_releaseVars
               PROVE  (ReleaseType /\ BestIsChosen)'
    OBVIOUS
  <2>1. CASE UNCHANGED releaseVars
    BY <2>1 DEF releaseVars, ReleaseType, BestIsChosen, Answer, Valid, Wanted, Newer, Local
  <2>2. CASE Decline
    BY <2>2 DEF Decline, ReleaseType, BestIsChosen
  <2>3. CASE Ask
    BY <2>3 DEF Ask, ReleaseType, BestIsChosen
  <2>4. CASE FetchFails
    BY <2>4 DEF FetchFails, ReleaseType, BestIsChosen
  <2>5. CASE Fetched
    BY <2>5, FetchedIsBest DEF Fetched, ReleaseType
  <2> QED BY <2>1, <2>2, <2>3, <2>4, <2>5 DEF ReleaseNext
<1> QED BY <1>1, <1>2, PTL DEF ReleaseSpec

----------------------------------------------------------------------------
(* The choice of a directory. *)

Elements == Characters \cup {Star}

\* The lengths that element c of a pattern makes of those before it.
Extended(name, before, c) ==
  IF c = Star THEN {i \in 0..Len(name) : \E k \in before : k <= i}
  ELSE {i \in 1..Len(name) : i - 1 \in before /\ name[i] = c}

\* Matches by the function it is built with.
LEMMA EndsFunction ==
  ASSUME NEW name \in Seq(Characters), NEW pattern \in Seq(Elements)
  PROVE  \E ends \in [0..Len(pattern) -> SUBSET (0..Len(name))] :
           /\ Matches(name, pattern) <=> Len(name) \in ends[Len(pattern)]
           /\ ends[0] = {0}
           /\ \A j \in 1..Len(pattern) : ends[j] = Extended(name, ends[j - 1], pattern[j])
<1> DEFINE S == SUBSET (0..Len(name))
           L == Len(pattern)
           g == [y \in S \X (1..L) |-> Extended(name, y[1], pattern[y[2]])]
           IsEnds(ends) ==
             ends = [j \in 0..L |->
                      IF j = 0 THEN {0}
                      ELSE IF pattern[j] = Star THEN {i \in 0..Len(name) : \E k \in ends[j - 1] : k <= i}
                      ELSE {i \in 1..Len(name) : i - 1 \in ends[j - 1] /\ name[i] = pattern[j]}]
           Good(ends) == /\ ends[0] = {0}
                         /\ \A j \in 1..L : ends[j] = Extended(name, ends[j - 1], pattern[j])
<1>1. L \in Nat /\ Len(name) \in Nat
  OBVIOUS
<1>2. {0} \in S
  BY <1>1
<1>3. ASSUME NEW x \in S, NEW m \in 1..L PROVE g[<<x, m>>] = Extended(name, x, pattern[m]) /\ g[<<x, m>>] \in S
  <2>1. Extended(name, x, pattern[m]) \subseteq 0..Len(name)
    BY <1>1 DEF Extended
  <2>2. Extended(name, x, pattern[m]) \in S
    BY <2>1
  <2> HIDE DEF S, L
  <2>3. <<x, m>> \in S \X (1..L) /\ <<x, m>>[1] = x /\ <<x, m>>[2] = m
    OBVIOUS
  <2>4. g[<<x, m>>] = Extended(name, <<x, m>>[1], pattern[<<x, m>>[2]])
    BY <2>3
  <2> QED BY <2>2, <2>3, <2>4
<1> HIDE DEF g
<1>4. \E e : e \in Recursive(S, {0}, L, g)
  <2>1. Closed(S, L, g)
    BY <1>3 DEF Closed
  <2> HIDE DEF S, L
  <2> QED BY <1>1, <1>2, <2>1, Recursion
<1>5. PICK e \in [0..L -> S] : e[0] = {0} /\ \A m \in 1..L : e[m] = g[<<e[m - 1], m>>]
  BY <1>4 DEF Recursive
<1>6. Good(e)
  <2> SUFFICES ASSUME NEW j \in 1..L PROVE e[j] = Extended(name, e[j - 1], pattern[j])
    BY <1>5
  <2>1. j - 1 \in 0..L
    BY <1>1
  <2>2. e[j - 1] \in S
    BY <1>5, <2>1
  <2> HIDE DEF S
  <2> QED BY <1>3, <1>5, <2>2
<1>7. IsEnds(e)
  <2>1. \A j \in 0..L : j = 0 \/ j \in 1..L
    BY <1>1
  <2> QED BY <1>5, <1>6, <2>1 DEF Extended
<1> DEFINE built == CHOOSE ends : IsEnds(ends)
<1>8. IsEnds(built)
  BY <1>7
<1>9. Matches(name, pattern) <=> Len(name) \in built[L]
  BY DEF Matches
<1> HIDE DEF built
<1>10. built[0] = {0}
  BY <1>1, <1>8
<1>11. ASSUME NEW j \in 1..L PROVE built[j] = Extended(name, built[j - 1], pattern[j])
  <2>1. j \in 0..L /\ j # 0
    BY <1>1
  <2> QED BY <1>8, <2>1 DEF Extended
<1>12. built \in [0..L -> S]
  <2>1. built = [j \in 0..L |-> built[j]]
    BY <1>8
  <2>2. ASSUME NEW j \in 0..L PROVE built[j] \in S
    <3>1. CASE j = 0
      BY <1>2, <1>10, <3>1
    <3>2. CASE j # 0
      <4>1. j \in 1..L
        BY <1>1, <3>2
      <4>2. built[j] = Extended(name, built[j - 1], pattern[j])
        BY <1>11, <4>1
      <4>3. Extended(name, built[j - 1], pattern[j]) \subseteq 0..Len(name)
        BY <1>1 DEF Extended
      <4> QED BY <4>2, <4>3
    <3> QED BY <3>1, <3>2
  <2> HIDE DEF S
  <2> QED BY <2>1, <2>2
<1> QED BY <1>9, <1>10, <1>11, <1>12

\* An element of a pattern is a character or a star.
LEMMA ElementKinds == ASSUME NEW c \in Elements PROVE c = Star <=> c \notin Characters
BY PathAssumption DEF Elements

\* A name that a pattern matches has at least the characters of the pattern.
LEMMA MatchedIsLonger ==
  ASSUME NEW name \in Seq(Characters), NEW pattern \in Seq(Elements), Matches(name, pattern)
  PROVE  Literals(pattern) <= Len(name)
<1> DEFINE L == Len(pattern)
<1>1. L \in Nat /\ Len(name) \in Nat
  OBVIOUS
<1>2. PICK ends \in [0..L -> SUBSET (0..Len(name))] :
        /\ Matches(name, pattern) <=> Len(name) \in ends[L]
        /\ ends[0] = {0}
        /\ \A j \in 1..L : ends[j] = Extended(name, ends[j - 1], pattern[j])
  BY EndsFunction
<1>3. PICK kept : /\ Kept(pattern, Characters) = kept[L]
                  /\ kept[0] = <<>>
                  /\ \A n \in 1..L :
                       kept[n] = IF pattern[n] \in Characters
                                 THEN Append(kept[n - 1], pattern[n]) ELSE kept[n - 1]
                  /\ \A n \in 0..L : kept[n] \in Seq(Elements)
  BY KeptTypes
<1> DEFINE All == {j \in Nat : j <= L => \A i \in ends[j] : Len(kept[j]) <= i}
<1>4. 0 \in All
  BY <1>2, <1>3
<1>5. ASSUME NEW j \in All PROVE j + 1 \in All
  <2> SUFFICES ASSUME j + 1 <= L, NEW i \in ends[j + 1] PROVE Len(kept[j + 1]) <= i
    OBVIOUS
  <2>1. /\ j \in Nat /\ j <= L /\ j \in 0..L /\ j + 1 \in 1..L /\ j + 1 \in 0..L /\ (j + 1) - 1 = j
        /\ \A k \in ends[j] : Len(kept[j]) <= k
    BY <1>1
  <2> HIDE DEF All
  <2>2. pattern[j + 1] \in Elements /\ kept[j] \in Seq(Elements) /\ ends[j] \subseteq 0..Len(name)
    <3>1. pattern[j + 1] \in Elements
      BY <2>1
    <3>2. kept[j] \in Seq(Elements)
      BY <1>3, <2>1
    <3>3. ends[j] \in SUBSET (0..Len(name))
      BY <2>1
    <3> QED BY <3>1, <3>2, <3>3
  <2>3. ends[j + 1] = Extended(name, ends[j], pattern[j + 1])
    BY <1>2, <2>1
  <2>4. kept[j + 1] = IF pattern[j + 1] \in Characters THEN Append(kept[j], pattern[j + 1]) ELSE kept[j]
    BY <1>3, <2>1
  <2>5. CASE pattern[j + 1] = Star
    <3>1. PICK k \in ends[j] : k <= i /\ i \in 0..Len(name)
      BY <2>3, <2>5 DEF Extended
    <3>2. kept[j + 1] = kept[j]
      BY <2>2, <2>4, <2>5, ElementKinds
    <3>3. Len(kept[j]) \in Nat /\ k \in Nat /\ i \in Nat /\ Len(kept[j]) <= k
      BY <1>1, <2>1, <2>2, <3>1
    <3> QED BY <3>1, <3>2, <3>3
  <2>6. CASE pattern[j + 1] # Star
    <3>1. i \in 1..Len(name) /\ i - 1 \in ends[j]
      BY <2>3, <2>6 DEF Extended
    <3>2. kept[j + 1] = Append(kept[j], pattern[j + 1])
      BY <2>2, <2>4, <2>6, ElementKinds
    <3>3. Len(kept[j + 1]) = Len(kept[j]) + 1 /\ Len(kept[j]) \in Nat
      BY <2>2, <3>2
    <3>4. Len(kept[j]) <= i - 1
      BY <2>1, <3>1
    <3> QED BY <1>1, <3>1, <3>3, <3>4
  <2> QED BY <2>5, <2>6
<1>6. All = Nat
  <2> HIDE DEF All
  <2>1. All \in SUBSET Nat
    BY DEF All
  <2> QED BY <1>4, <1>5, <2>1, Inductive
<1>7. L \in All /\ Len(name) \in ends[L]
  BY <1>1, <1>2, <1>6
<1> QED BY <1>3, <1>7 DEF Literals

\* The characters of a pattern, without its stars, are a name that it matches.
LEMMA InstanceMatches ==
  ASSUME NEW pattern \in Seq(Elements)
  PROVE  /\ Kept(pattern, Characters) \in Seq(Characters)
         /\ Matches(Kept(pattern, Characters), pattern)
<1> DEFINE L == Len(pattern)
           name == Kept(pattern, Characters)
<1>1. L \in Nat
  OBVIOUS
<1>2. name \in Seq(Characters)
  <2>1. name \in Seq(Elements)
    BY KeptPicks
  <2>2. PICK e : IsPicked(name, e, pattern, Characters, L)
    BY KeptPicks
  <2>3. \A i \in 1..Len(name) : name[i] \in Characters
    BY <2>2 DEF IsPicked
  <2> HIDE DEF name
  <2>4. name = [i \in 1..Len(name) |-> name[i]] /\ Len(name) \in Nat
    BY <2>1
  <2> QED BY <2>3, <2>4
<1> HIDE DEF name
<1>3. PICK ends \in [0..L -> SUBSET (0..Len(name))] :
        /\ Matches(name, pattern) <=> Len(name) \in ends[L]
        /\ ends[0] = {0}
        /\ \A j \in 1..L : ends[j] = Extended(name, ends[j - 1], pattern[j])
  BY <1>2, EndsFunction
<1>4. PICK kept : /\ name = kept[L]
                  /\ kept[0] = <<>>
                  /\ \A n \in 1..L :
                       kept[n] = IF pattern[n] \in Characters
                                 THEN Append(kept[n - 1], pattern[n]) ELSE kept[n - 1]
                  /\ \A n \in 0..L : kept[n] \in Seq(Elements)
  BY KeptTypes DEF name
<1> DEFINE Begins(s, t) == Len(s) <= Len(t) /\ \A i \in 1..Len(s) : s[i] = t[i]
           Longer == {n \in Nat : n <= L => \A j \in 0..n : Begins(kept[j], kept[n])}
           All == {j \in Nat : j <= L => Len(kept[j]) \in ends[j]}
<1>5. 0 \in Longer
  <2>1. Len(kept[0]) = 0 /\ 0..0 = {0}
    BY <1>4
  <2>2. \A j \in 0..0 : Begins(kept[j], kept[0])
    BY <2>1
  <2> QED BY <2>2
<1>6. ASSUME NEW n \in Longer PROVE n + 1 \in Longer
  <2> SUFFICES ASSUME n + 1 <= L, NEW j \in 0..(n + 1) PROVE Begins(kept[j], kept[n + 1])
    OBVIOUS
  <2>1. n \in Nat /\ n \in 0..L /\ n + 1 \in 0..L /\ n + 1 \in 1..L /\ (n + 1) - 1 = n /\ j \in 0..L
    BY <1>1
  <2>2. j = n + 1 \/ (j \in 0..n /\ Begins(kept[j], kept[n]))
    BY <2>1
  <2> HIDE DEF Longer
  <2>3. kept[n] \in Seq(Elements) /\ kept[j] \in Seq(Elements) /\ kept[n + 1] \in Seq(Elements)
    BY <1>4, <2>1
  <2>4. pattern[n + 1] \in Elements
    BY <2>1
  <2>5. kept[n + 1] = Append(kept[n], pattern[n + 1]) \/ kept[n + 1] = kept[n]
    BY <1>4, <2>1
  <2>6. Begins(kept[n], kept[n + 1])
    BY <2>3, <2>4, <2>5
  <2>7. CASE j = n + 1
    BY <2>3, <2>7
  <2>8. CASE j \in 0..n /\ Begins(kept[j], kept[n])
    <3>1. Len(kept[j]) \in Nat /\ Len(kept[n]) \in Nat /\ Len(kept[n + 1]) \in Nat
      BY <2>3
    <3> QED BY <2>6, <2>8, <3>1
  <2> QED BY <2>2, <2>7, <2>8
<1>7. Longer = Nat
  <2> HIDE DEF Longer
  <2>1. Longer \in SUBSET Nat
    BY DEF Longer
  <2> QED BY <1>5, <1>6, <2>1, Inductive
<1>8. \A j \in 0..L : Begins(kept[j], name)
  <2>1. L \in Longer /\ L <= L
    BY <1>1, <1>7
  <2>2. \A j \in 0..L : Begins(kept[j], kept[L])
    BY <2>1
  <2> QED BY <1>4, <2>2
<1>9. 0 \in All
  <2>1. Len(kept[0]) = 0 /\ 0 \in {0}
    BY <1>4
  <2>2. Len(kept[0]) \in ends[0]
    BY <1>3, <2>1
  <2> QED BY <2>2
<1>10. ASSUME NEW j \in All PROVE j + 1 \in All
  <2> SUFFICES ASSUME j + 1 <= L PROVE Len(kept[j + 1]) \in ends[j + 1]
    OBVIOUS
  <2>1. /\ j \in Nat /\ j \in 0..L /\ j + 1 \in 0..L /\ j + 1 \in 1..L /\ (j + 1) - 1 = j
        /\ Len(kept[j]) \in ends[j]
    BY <1>1
  <2> HIDE DEF All
  <2>2. kept[j] \in Seq(Elements) /\ kept[j + 1] \in Seq(Elements)
    BY <1>4, <2>1
  <2>3. pattern[j + 1] \in Elements
    BY <2>1
  <2>4. kept[j + 1] = IF pattern[j + 1] \in Characters THEN Append(kept[j], pattern[j + 1]) ELSE kept[j]
    BY <1>4, <2>1
  <2>5. ends[j + 1] = Extended(name, ends[j], pattern[j + 1])
    BY <1>3, <2>1
  <2>6. Begins(kept[j + 1], name)
    BY <1>8, <2>1
  <2>7. Len(name) \in Nat /\ Len(kept[j]) \in Nat /\ Len(kept[j + 1]) \in Nat
    BY <1>2, <2>2
  <2>8. CASE pattern[j + 1] = Star
    <3>1. kept[j + 1] = kept[j]
      BY <2>3, <2>4, <2>8, ElementKinds
    <3>2. Len(kept[j]) \in 0..Len(name) /\ Len(kept[j]) <= Len(kept[j])
      BY <2>6, <2>7, <3>1
    <3> QED BY <2>1, <2>5, <2>8, <3>1, <3>2 DEF Extended
  <2>9. CASE pattern[j + 1] # Star
    <3>1. kept[j + 1] = Append(kept[j], pattern[j + 1])
      BY <2>3, <2>4, <2>9, ElementKinds
    <3>2. Len(kept[j + 1]) = Len(kept[j]) + 1 /\ kept[j + 1][Len(kept[j + 1])] = pattern[j + 1]
      BY <2>2, <2>3, <3>1
    <3>3. /\ Len(kept[j + 1]) \in 1..Len(name) /\ Len(kept[j + 1]) - 1 = Len(kept[j])
          /\ name[Len(kept[j + 1])] = pattern[j + 1]
      <4>1. Len(kept[j + 1]) \in 1..Len(name) /\ Len(kept[j + 1]) - 1 = Len(kept[j])
        BY <2>6, <2>7, <3>2
      <4>2. name[Len(kept[j + 1])] = kept[j + 1][Len(kept[j + 1])]
        BY <2>6, <4>1
      <4> QED BY <3>2, <4>1, <4>2
    <3> QED BY <2>1, <2>5, <2>9, <3>3 DEF Extended
  <2> QED BY <2>8, <2>9
<1>11. All = Nat
  <2> HIDE DEF All
  <2>1. All \in SUBSET Nat
    BY DEF All
  <2> QED BY <1>9, <1>10, <2>1, Inductive
<1>12. Len(name) \in ends[L]
  BY <1>1, <1>4, <1>11
<1> QED BY <1>2, <1>3, <1>12 DEF name

\* Stars match everything.
LEMMA StarsMatch ==
  ASSUME NEW name \in Seq(Characters), NEW pattern \in Seq(Elements), pattern # <<>>,
         \A j \in 1..Len(pattern) : pattern[j] = Star
  PROVE  Matches(name, pattern)
<1> DEFINE L == Len(pattern)
<1>1. L \in Nat /\ L > 0 /\ Len(name) \in Nat
  OBVIOUS
<1>2. PICK ends \in [0..L -> SUBSET (0..Len(name))] :
        /\ Matches(name, pattern) <=> Len(name) \in ends[L]
        /\ ends[0] = {0}
        /\ \A j \in 1..L : ends[j] = Extended(name, ends[j - 1], pattern[j])
  BY EndsFunction
<1> DEFINE All == {j \in Nat : j <= L => 0 \in ends[j]}
<1>3. 0 \in All
  BY <1>2
<1>4. ASSUME NEW j \in All PROVE j + 1 \in All
  <2> SUFFICES ASSUME j + 1 <= L PROVE 0 \in ends[j + 1]
    OBVIOUS
  <2>1. j \in Nat /\ j + 1 \in 1..L /\ (j + 1) - 1 = j /\ 0 \in ends[j] /\ 0 \in 0..Len(name)
    BY <1>1
  <2>2. ends[j + 1] = Extended(name, ends[j], Star)
    BY <1>2, <2>1
  <2> QED BY <2>1, <2>2 DEF Extended
<1>5. All = Nat
  <2> HIDE DEF All
  <2>1. All \in SUBSET Nat
    BY DEF All
  <2> QED BY <1>3, <1>4, <2>1, Inductive
<1>6. L \in 1..L /\ L - 1 \in Nat /\ L - 1 <= L
  BY <1>1
<1>7. 0 \in ends[L - 1]
  BY <1>5, <1>6
<1>8. ends[L] = Extended(name, ends[L - 1], Star)
  BY <1>2, <1>6
<1>9. Len(name) \in 0..Len(name) /\ 0 <= Len(name)
  BY <1>1
<1>10. Len(name) \in ends[L]
  BY <1>7, <1>8, <1>9 DEF Extended
<1> QED BY <1>2, <1>10

\* A pattern without stars matches itself and nothing else.
LEMMA LiteralMatches ==
  ASSUME NEW name \in Seq(Characters), NEW pattern \in Seq(Characters)
  PROVE  Matches(name, pattern) <=> name = pattern
<1> DEFINE L == Len(pattern)
<1>1. L \in Nat /\ Len(name) \in Nat
  OBVIOUS
<1>2. pattern \in Seq(Elements)
  <2>1. Characters \subseteq Elements
    BY DEF Elements
  <2> QED BY <2>1
<1>3. PICK ends \in [0..L -> SUBSET (0..Len(name))] :
        /\ Matches(name, pattern) <=> Len(name) \in ends[L]
        /\ ends[0] = {0}
        /\ \A j \in 1..L : ends[j] = Extended(name, ends[j - 1], pattern[j])
  BY <1>2, EndsFunction
<1> DEFINE Agree(j) == \A k \in 1..j : name[k] = pattern[k]
           All == {j \in Nat : j <= L =>
                    \A i \in 0..Len(name) : i \in ends[j] <=> i = j /\ Agree(j)}
<1>4. 0 \in All
  <2>1. Agree(0)
    OBVIOUS
  <2> QED BY <1>3, <2>1
<1>5. ASSUME NEW j \in All PROVE j + 1 \in All
  <2> SUFFICES ASSUME j + 1 <= L, NEW i \in 0..Len(name)
               PROVE  i \in ends[j + 1] <=> i = j + 1 /\ Agree(j + 1)
    OBVIOUS
  <2>1. /\ j \in Nat /\ j + 1 \in 1..L /\ (j + 1) - 1 = j /\ i \in Nat
        /\ \A k \in 0..Len(name) : k \in ends[j] <=> k = j /\ Agree(j)
    BY <1>1
  <2> HIDE DEF All
  <2>2. pattern[j + 1] \in Characters
    BY <2>1
  <2>3. pattern[j + 1] # Star
    BY <2>2, PathAssumption
  <2>4. i \in ends[j + 1] <=> i \in 1..Len(name) /\ i - 1 \in ends[j] /\ name[i] = pattern[j + 1]
    BY <1>3, <2>1, <2>3 DEF Extended
  <2>5. Agree(j + 1) <=> Agree(j) /\ name[j + 1] = pattern[j + 1]
    <3>1. \A k \in 1..(j + 1) : k \in 1..j \/ k = j + 1
      BY <2>1
    <3>2. (\A k \in 1..j : k \in 1..(j + 1)) /\ j + 1 \in 1..(j + 1)
      BY <2>1
    <3> QED BY <3>1, <3>2
  <2> HIDE DEF Agree
  <2>6. i \in 1..Len(name) => i - 1 \in 0..Len(name) /\ (i - 1 = j <=> i = j + 1)
    BY <1>1, <2>1
  <2>7. i = j + 1 => i \in 1..Len(name)
    BY <1>1, <2>1
  <2> QED BY <2>1, <2>4, <2>5, <2>6, <2>7
<1>6. All = Nat
  <2> HIDE DEF All
  <2>1. All \in SUBSET Nat
    BY DEF All
  <2> QED BY <1>4, <1>5, <2>1, Inductive
<1>7. Len(name) \in ends[L] <=> Len(name) = L /\ Agree(L)
  BY <1>1, <1>6
<1>8. Len(name) = L /\ Agree(L) <=> name = pattern
  <2>1. ASSUME Len(name) = L, Agree(L) PROVE name = pattern
    BY <2>1
  <2> QED BY <2>1
<1> QED BY <1>3, <1>7, <1>8

\* A pattern scores if it matches, and not otherwise.
LEMMA ScoreOfMatch ==
  ASSUME NEW name \in Seq(Characters), NEW pattern \in Seq(Elements), pattern # <<>>
  PROVE  /\ Score(name, pattern) \in Int
         /\ Score(name, pattern) > 0 <=> Matches(name, pattern)
         /\ Literals(pattern) \in Nat
<1>1. Literals(pattern) \in Nat
  <2>1. Kept(pattern, Characters) \in Seq(Characters)
    BY InstanceMatches
  <2> HIDE DEF Kept
  <2> QED BY <2>1 DEF Literals
<1>2. CASE name = pattern
  <2>1. Matches(name, pattern)
    BY <1>2, LiteralMatches
  <2> QED BY <1>1, <1>2, <2>1 DEF Score
<1>3. CASE name # pattern /\ pattern = <<Star>>
  <2>1. \A j \in 1..Len(pattern) : pattern[j] = Star
    BY <1>3
  <2>2. Matches(name, pattern)
    BY <2>1, StarsMatch
  <2> QED BY <1>1, <1>3, <2>2 DEF Score
<1>4. CASE name # pattern /\ pattern # <<Star>>
  <2>1. Score(name, pattern) = IF Matches(name, pattern) THEN 10 + Literals(pattern) ELSE -1
    BY <1>4 DEF Score
  <2> QED BY <1>1, <2>1
<1> QED BY <1>2, <1>3, <1>4

\* FindServerInstallPath by the function it is built with.
LEMMA BestFunction ==
  ASSUME NEW name, NEW map \in Seq(Patterns)
  PROVE  \E best : /\ FindServerInstallPath(name, map) = best[Len(map)]
                   /\ best[0] = <<>>
                   /\ \A n \in 1..Len(map) : best[n] = Better(name, best[n - 1], map[n])
<1> DEFINE L == Len(map)
           S == Patterns \cup {<<>>}
           g == [y \in S \X (1..L) |-> Better(name, y[1], map[y[2]])]
           IsBest(best) ==
             best = [n \in 0..L |-> IF n = 0 THEN <<>> ELSE Better(name, best[n - 1], map[n])]
<1>1. L \in Nat
  OBVIOUS
<1>2. ASSUME NEW x \in S, NEW m \in 1..L PROVE g[<<x, m>>] = Better(name, x, map[m]) /\ g[<<x, m>>] \in S
  <2>1. map[m] \in Patterns
    OBVIOUS
  <2>2. Better(name, x, map[m]) \in S
    BY <2>1 DEF Better
  <2> HIDE DEF S, L
  <2>3. <<x, m>> \in S \X (1..L) /\ <<x, m>>[1] = x /\ <<x, m>>[2] = m
    OBVIOUS
  <2>4. g[<<x, m>>] = Better(name, <<x, m>>[1], map[<<x, m>>[2]])
    BY <2>3
  <2> QED BY <2>2, <2>3, <2>4
<1> HIDE DEF g
<1>3. <<>> \in S
  OBVIOUS
<1>4. \E b : b \in Recursive(S, <<>>, L, g)
  <2>1. Closed(S, L, g)
    BY <1>2 DEF Closed
  <2> HIDE DEF S, L
  <2> QED BY <1>1, <1>3, <2>1, Recursion
<1>5. PICK b \in [0..L -> S] : b[0] = <<>> /\ \A m \in 1..L : b[m] = g[<<b[m - 1], m>>]
  BY <1>4 DEF Recursive
<1>6. ASSUME NEW n \in 1..L PROVE b[n] = Better(name, b[n - 1], map[n])
  <2>1. n - 1 \in 0..L
    BY <1>1
  <2>2. b[n - 1] \in S
    BY <1>5, <2>1
  <2> HIDE DEF S
  <2> QED BY <1>2, <1>5, <2>2
<1>7. IsBest(b)
  <2>1. \A n \in 0..L : n = 0 \/ (n # 0 /\ n \in 1..L)
    BY <1>1
  <2>2. ASSUME NEW n \in 0..L PROVE b[n] = IF n = 0 THEN <<>> ELSE Better(name, b[n - 1], map[n])
    BY <1>5, <1>6, <2>1
  <2> HIDE DEF S, L
  <2>3. b = [n \in 0..L |-> b[n]]
    BY <1>5
  <2> QED BY <2>2, <2>3
<1> DEFINE built == CHOOSE best : IsBest(best)
<1>8. IsBest(built)
  BY <1>7
<1>9. FindServerInstallPath(name, map) = built[L]
  BY DEF FindServerInstallPath
<1> HIDE DEF built
<1>10. built[0] = <<>>
  BY <1>1, <1>8
<1>11. ASSUME NEW n \in 1..L PROVE built[n] = Better(name, built[n - 1], map[n])
  <2>1. n \in 0..L /\ n # 0
    BY <1>1
  <2> HIDE DEF L
  <2> QED BY <1>8, <2>1
<1> QED BY <1>9, <1>10, <1>11

\* A pattern is none of no characters.
LEMMA PatternTypes == ASSUME NEW p \in Patterns PROVE p \in Seq(Elements) /\ p # <<>>
<1>1. PICK n \in 1..MaxPattern : p \in [1..n -> Characters \cup {Star}]
  BY DEF Patterns
<1>2. n \in Nat /\ n > 0
  BY PathAssumption
<1> QED BY <1>1, <1>2 DEF Elements

\* What the loop is left with is the first of the patterns that score highest.
LEMMA FirstBest ==
  ASSUME NEW name \in Seq(Characters), NEW map \in Seq(Patterns)
  PROVE  \/ /\ FindServerInstallPath(name, map) = <<>>
            /\ \A i \in 1..Len(map) : ~(Score(name, map[i]) > 0)
         \/ \E m \in 1..Len(map) :
              /\ FindServerInstallPath(name, map) = map[m]
              /\ Score(name, map[m]) > 0
              /\ \A i \in 1..Len(map) : Score(name, map[i]) <= Score(name, map[m])
              /\ \A i \in 1..(m - 1) : Score(name, map[i]) < Score(name, map[m])
<1> DEFINE L == Len(map)
           score(i) == Score(name, map[i])
           NoneYet(b, n) == b = <<>> /\ \A i \in 1..n : ~(score(i) > 0)
           Leads(b, n, m) == /\ b = map[m] /\ score(m) > 0
                             /\ \A i \in 1..n : score(i) <= score(m)
                             /\ \A i \in 1..(m - 1) : score(i) < score(m)
<1>1. L \in Nat
  OBVIOUS
<1>2. PICK best : /\ FindServerInstallPath(name, map) = best[L]
                  /\ best[0] = <<>>
                  /\ \A n \in 1..L : best[n] = Better(name, best[n - 1], map[n])
  BY BestFunction
<1> DEFINE All == {n \in Nat : n <= L =>
                    NoneYet(best[n], n) \/ \E m \in 1..n : Leads(best[n], n, m)}
<1>3. 0 \in All
  <2>1. 1..0 = {}
    OBVIOUS
  <2>2. NoneYet(best[0], 0)
    BY <1>2, <2>1
  <2> QED BY <2>2
<1>4. ASSUME NEW n \in All PROVE n + 1 \in All
  <2> HIDE DEF NoneYet, Leads, L
  <2> SUFFICES ASSUME n + 1 <= L
               PROVE  \/ NoneYet(best[n + 1], n + 1)
                      \/ \E m \in 1..(n + 1) : Leads(best[n + 1], n + 1, m)
    OBVIOUS
  <2>1. /\ n \in Nat /\ n + 1 \in 1..L /\ (n + 1) - 1 = n
        /\ \A i \in 1..(n + 1) : i \in 1..L /\ (i \in 1..n \/ i = n + 1)
        /\ \A i \in 1..n : i \in 1..L
        /\ NoneYet(best[n], n) \/ \E m \in 1..n : Leads(best[n], n, m)
    BY <1>1
  <2> USE DEF NoneYet, Leads, L
  <2>2. \A i \in 1..L : map[i] \in Patterns /\ score(i) \in Int /\ map[i] # <<>>
    <3> SUFFICES ASSUME NEW i \in 1..L PROVE map[i] \in Patterns /\ score(i) \in Int /\ map[i] # <<>>
      OBVIOUS
    <3>1. map[i] \in Patterns
      OBVIOUS
    <3> HIDE DEF L
    <3> QED BY <3>1, PatternTypes, ScoreOfMatch
  <2> HIDE DEF All
  <2>3. best[n + 1] = IF score(n + 1) > 0 /\ (best[n] = <<>> \/ score(n + 1) > Score(name, best[n]))
                      THEN map[n + 1] ELSE best[n]
    BY <1>2, <2>1 DEF Better
  <2> HIDE DEF L
  <2>4. CASE NoneYet(best[n], n)
    <3>1. CASE score(n + 1) > 0
      <4>1. Leads(best[n + 1], n + 1, n + 1)
        <5>1. best[n + 1] = map[n + 1]
          BY <2>3, <2>4, <3>1
        <5>2. \A i \in 1..n : score(i) < score(n + 1)
          BY <2>1, <2>2, <2>4, <3>1
        <5>3. ASSUME NEW i \in 1..(n + 1) PROVE score(i) <= score(n + 1)
          <6>1. CASE i = n + 1
            BY <2>1, <2>2, <6>1
          <6>2. CASE i \in 1..n
            <7>1. score(i) < score(n + 1) /\ score(i) \in Int /\ score(n + 1) \in Int
              BY <2>1, <2>2, <5>2, <6>2
            <7> HIDE DEF score
            <7> QED BY <7>1
          <6> QED BY <2>1, <6>1, <6>2
        <5> QED BY <2>1, <3>1, <5>1, <5>2, <5>3
      <4> QED BY <2>1, <4>1
    <3>2. CASE ~(score(n + 1) > 0)
      <4>1. NoneYet(best[n + 1], n + 1)
        BY <2>1, <2>3, <2>4, <3>2
      <4> QED BY <4>1
    <3> QED BY <3>1, <3>2
  <2>5. ASSUME NEW m \in 1..n, Leads(best[n], n, m)
        PROVE  \E k \in 1..(n + 1) : Leads(best[n + 1], n + 1, k)
    <3>1. /\ m \in 1..L /\ m \in 1..(n + 1) /\ best[n] # <<>> /\ score(m) \in Int /\ score(n + 1) \in Int
          /\ \A i \in 1..(m - 1) : i \in 1..n
      BY <2>1, <2>2, <2>5
    <3>2. CASE score(n + 1) > score(m)
      <4>1. best[n + 1] = map[n + 1] /\ score(n + 1) > 0
        BY <2>3, <2>5, <3>1, <3>2
      <4>2. \A i \in 1..n : score(i) < score(n + 1)
        BY <2>1, <2>2, <2>5, <3>1, <3>2
      <4>3. ASSUME NEW i \in 1..(n + 1) PROVE score(i) <= score(n + 1)
        <5>1. CASE i = n + 1
          <6> HIDE DEF score
          <6> QED BY <3>1, <5>1
        <5>2. CASE i \in 1..n
          <6>1. score(i) < score(n + 1) /\ score(i) \in Int
            BY <2>1, <2>2, <4>2, <5>2
          <6> HIDE DEF score
          <6> QED BY <3>1, <6>1
        <5> QED BY <2>1, <5>1, <5>2
      <4>4. Leads(best[n + 1], n + 1, n + 1)
        BY <2>1, <4>1, <4>2, <4>3
      <4> QED BY <2>1, <4>4
    <3>3. CASE ~(score(n + 1) > score(m))
      <4>1. best[n + 1] = best[n]
        BY <2>3, <2>5, <3>1, <3>3
      <4>2. ASSUME NEW i \in 1..(n + 1) PROVE score(i) <= score(m)
        <5>1. CASE i = n + 1
          <6> HIDE DEF score
          <6> QED BY <3>1, <3>3, <5>1
        <5>2. CASE i \in 1..n
          BY <2>5, <5>2
        <5> QED BY <2>1, <5>1, <5>2
      <4>3. Leads(best[n + 1], n + 1, m)
        BY <2>5, <4>1, <4>2
      <4> QED BY <3>1, <4>3
    <3> QED BY <3>2, <3>3
  <2> QED BY <2>1, <2>4, <2>5
<1>5. All = Nat
  <2> HIDE DEF All
  <2>1. All \in SUBSET Nat
    BY DEF All
  <2> QED BY <1>3, <1>4, <2>1, Inductive
<1>6. NoneYet(best[L], L) \/ \E m \in 1..L : Leads(best[L], L, m)
  BY <1>1, <1>5
<1> QED BY <1>2, <1>6

\* The hosts of HostNames, and what is one.
LEMMA NameTypes ==
  /\ \A name \in HostNames : name \in Seq(Characters) /\ Len(name) \in 1..MaxName
  /\ \A name \in Seq(Characters) : Len(name) \in 1..MaxName => name \in HostNames
<1>1. MaxName \in Nat
  BY PathAssumption
<1>2. ASSUME NEW name \in HostNames PROVE name \in Seq(Characters) /\ Len(name) \in 1..MaxName
  <2>1. PICK n \in 1..MaxName : name \in [1..n -> Characters]
    BY DEF HostNames
  <2> QED BY <1>1, <2>1
<1>3. ASSUME NEW name \in Seq(Characters), Len(name) \in 1..MaxName PROVE name \in HostNames
  <2>1. name \in [1..Len(name) -> Characters]
    OBVIOUS
  <2> QED BY <1>3, <2>1 DEF HostNames
<1> QED BY <1>2, <1>3

\* A pattern that scores as high as another, and is for no names but the
\* other's, is for the same names or has as many characters.
LEMMA ScoresAgree ==
  ASSUME NEW name \in HostNames, NEW p \in Patterns, NEW q \in Patterns,
         Matches(name, p), Matches(name, q), Score(name, p) <= Score(name, q),
         Covers(p) \subseteq Covers(q)
  PROVE  \/ p = q
         \/ Covers(q) \subseteq Covers(p)
         \/ Literals(p) = Literals(q) /\ Score(name, p) = Score(name, q)
<1>1. /\ name \in Seq(Characters) /\ Len(name) \in Nat /\ Len(name) <= MaxName /\ MaxName < 990
      /\ MaxName \in Nat
  BY NameTypes, PathAssumption
<1>2. p \in Seq(Elements) /\ p # <<>> /\ q \in Seq(Elements) /\ q # <<>>
  BY PatternTypes
<1>3. /\ Literals(p) \in Nat /\ Literals(q) \in Nat
      /\ Literals(p) <= Len(name) /\ Literals(q) <= Len(name)
  BY <1>1, <1>2, ScoreOfMatch, MatchedIsLonger
<1>4. CASE q = name
  <2>1. \A other \in HostNames : Matches(other, q) => other = name
    BY <1>1, <1>4, LiteralMatches, NameTypes
  <2> QED BY <2>1 DEF Covers
<1>5. CASE p = <<Star>>
  <2>1. \A j \in 1..Len(p) : p[j] = Star
    BY <1>5
  <2>2. \A other \in HostNames : Matches(other, p)
    BY <1>2, <2>1, StarsMatch, NameTypes
  <2> QED BY <2>2 DEF Covers
<1>6. CASE q # name /\ p # <<Star>>
  <2>1. Score(name, q) = IF q = <<Star>> THEN 1 ELSE 10 + Literals(q)
    BY <1>6 DEF Score
  <2>2. Score(name, p) = IF p = name THEN 1000 ELSE 10 + Literals(p)
    BY <1>6 DEF Score
  <2>3. p # name /\ q # <<Star>> /\ Literals(p) <= Literals(q)
    BY <1>1, <1>3, <2>1, <2>2
  <2> DEFINE instance == Kept(p, Characters)
  <2>4. instance \in Seq(Characters) /\ Matches(instance, p) /\ Literals(p) = Len(instance)
    BY <1>2, InstanceMatches DEF Literals
  <2> HIDE DEF instance
  <2>5. CASE Literals(p) = 0
    <3>1. ASSUME NEW j \in 1..Len(p) PROVE p[j] = Star
      <4>1. PICK e : IsPicked(instance, e, p, Characters, Len(p))
        BY <1>2, KeptPicks DEF instance
      <4>2. 1..Len(instance) = {}
        BY <2>4, <2>5
      <4>3. p[j] \notin Characters
        BY <4>1, <4>2 DEF IsPicked
      <4>4. p[j] \in Elements
        BY <1>2
      <4> QED BY <4>3, <4>4, ElementKinds
    <3>2. \A other \in HostNames : Matches(other, p)
      BY <1>2, <3>1, StarsMatch, NameTypes
    <3> QED BY <3>2 DEF Covers
  <2>6. CASE Literals(p) # 0
    <3>1. instance \in HostNames
      <4>1. Len(instance) \in 1..MaxName
        BY <1>1, <1>3, <2>4, <2>6
      <4> QED BY <2>4, <4>1, NameTypes
    <3>2. Matches(instance, q)
      BY <2>4, <3>1 DEF Covers
    <3>3. Literals(q) <= Len(instance)
      BY <1>2, <2>4, <3>2, MatchedIsLonger
    <3>4. Literals(p) = Literals(q)
      BY <1>3, <2>3, <2>4, <3>3
    <3> QED BY <2>1, <2>2, <2>3, <3>4
  <2> QED BY <2>5, <2>6
<1> QED BY <1>4, <1>5, <1>6

\* Of any patterns for a host, a more specific one is never passed over for a more
\* general one, unless they have as many characters and it stands behind.
THEOREM SpecificChosen == PathInit => SpecificWins
<1> SUFFICES ASSUME PathInit, pathMap # <<>> PROVE SpecificWins
  BY DEF SpecificWins
<1> DEFINE L == Len(pathMap)
           found == FindServerInstallPath(hostname, pathMap)
           score(i) == Score(hostname, pathMap[i])
<1>1. hostname \in HostNames /\ hostname \in Seq(Characters)
  BY NameTypes DEF PathInit
<1>2. pathMap \in Seq(Patterns) /\ L \in Nat /\ DOMAIN pathMap = 1..L
  <2>1. PICK n \in 0..MaxEntries : pathMap \in [1..n -> Patterns]
    BY DEF PathInit
  <2>2. n \in Nat
    BY PathAssumption
  <2> QED BY <2>1, <2>2
<1>3. ASSUME NEW i \in 1..L
      PROVE  /\ pathMap[i] \in Patterns /\ pathMap[i] # <<>> /\ score(i) \in Int
             /\ score(i) > 0 <=> Matches(hostname, pathMap[i])
  <2>1. pathMap[i] \in Patterns
    BY <1>2
  <2> QED BY <1>1, <2>1, PatternTypes, ScoreOfMatch
<1>4. \/ found = <<>> /\ \A i \in 1..L : ~(score(i) > 0)
      \/ \E m \in 1..L : /\ found = pathMap[m] /\ score(m) > 0
                         /\ \A i \in 1..L : score(i) <= score(m)
                         /\ \A i \in 1..(m - 1) : score(i) < score(m)
  BY <1>1, <1>2, FirstBest
<1> HIDE DEF found, L
<1>5. CASE found = <<>> /\ \A i \in 1..L : ~(score(i) > 0)
  BY <1>2, <1>3, <1>5 DEF SpecificWins, found
<1>6. ASSUME NEW m \in 1..L, found = pathMap[m], score(m) > 0,
             \A i \in 1..L : score(i) <= score(m),
             \A i \in 1..(m - 1) : score(i) < score(m)
      PROVE  SpecificWins
  <2>1. found \in Patterns /\ found # <<>> /\ Matches(hostname, found)
    BY <1>3, <1>6
  <2>2. ASSUME NEW i \in 1..L, Matches(hostname, pathMap[i]), Covers(pathMap[i]) \subseteq Covers(found)
        PROVE  \/ pathMap[i] = found
               \/ Covers(found) \subseteq Covers(pathMap[i])
               \/ /\ Literals(pathMap[i]) = Literals(found)
                  /\ \E j \in 1..(i - 1) : pathMap[j] = found
    <3>1. \/ pathMap[i] = found
          \/ Covers(found) \subseteq Covers(pathMap[i])
          \/ Literals(pathMap[i]) = Literals(found) /\ score(i) = score(m)
      BY <1>1, <1>3, <1>6, <2>1, <2>2, ScoresAgree
    <3>2. ASSUME score(i) = score(m) PROVE i = m \/ m \in 1..(i - 1)
      <4>1. ~(i \in 1..(m - 1))
        <5>1. score(i) \in Int
          BY <1>3
        <5> HIDE DEF score
        <5> QED BY <1>6, <3>2, <5>1
      <4> QED BY <1>2, <4>1
    <3> QED BY <1>6, <3>1, <3>2
  <2>3. m \in {i \in 1..L : Matches(hostname, pathMap[i])}
    BY <1>6, <2>1
  <2> QED BY <1>2, <2>1, <2>2, <2>3 DEF SpecificWins, found
<1> QED BY <1>4, <1>5, <1>6

----------------------------------------------------------------------------
\* What is built step by step from values in S stays in S.
LEMMA Built ==
  ASSUME NEW S, NEW base \in S, NEW L \in Nat, NEW g, Closed(S, L, g), NEW f,
         f = [m \in 0..L |-> f[m]], f[0] = base,
         \A m \in 1..L : f[m - 1] \in S => f[m] = g[<<f[m - 1], m>>]
  PROVE  f \in Recursive(S, base, L, g)
<1> DEFINE All == {n \in Nat : n <= L => f[n] \in S}
<1>1. 0 \in All
  OBVIOUS
<1>2. ASSUME NEW n \in All PROVE n + 1 \in All
  <2> SUFFICES ASSUME n + 1 <= L PROVE f[n + 1] \in S
    OBVIOUS
  <2>1. n \in Nat /\ n + 1 \in 1..L /\ (n + 1) - 1 = n /\ f[n] \in S
    OBVIOUS
  <2> QED BY <2>1 DEF Closed
<1>3. All = Nat
  <2> HIDE DEF All
  <2>1. All \in SUBSET Nat
    BY DEF All
  <2> QED BY <1>1, <1>2, <2>1, Inductive
<1>4. \A m \in 0..L : f[m] \in S
  BY <1>3
<1>5. \A m \in 1..L : m - 1 \in 0..L
  OBVIOUS
<1> QED BY <1>4, <1>5 DEF Recursive

\* Two functions that give the same for every list so far and every index.
Agree(S, L, g, h) == \A x \in S : \A m \in 1..L : g[<<x, m>>] = h[<<x, m>>]

\* Two functions that take the same steps are the same, as far as they do.
LEMMA SameSteps ==
  ASSUME NEW S, NEW base \in S, NEW L \in Nat, NEW M \in Nat, L <= M, NEW g, NEW h,
         NEW d \in Recursive(S, base, L, g), NEW e \in Recursive(S, base, M, h),
         Agree(S, L, g, h)
  PROVE  d[L] = e[L]
<1> DEFINE All == {n \in Nat : n <= L => d[n] = e[n]}
<1>1. 0 \in All
  BY DEF Recursive
<1>2. ASSUME NEW n \in All PROVE n + 1 \in All
  <2> SUFFICES ASSUME n + 1 <= L PROVE d[n + 1] = e[n + 1]
    OBVIOUS
  <2>1. /\ n \in Nat /\ n \in 0..L /\ n + 1 \in 1..L /\ n + 1 \in 1..M /\ (n + 1) - 1 = n
        /\ d[n] = e[n]
    OBVIOUS
  <2>2. d[n] \in S
    BY <2>1 DEF Recursive
  <2>3. d[n + 1] = g[<<d[n], n + 1>>] /\ e[n + 1] = h[<<e[n], n + 1>>]
    BY <2>1 DEF Recursive
  <2> QED BY <2>1, <2>2, <2>3 DEF Agree
<1>3. All = Nat
  <2> HIDE DEF All
  <2>1. All \in SUBSET Nat
    BY DEF All
  <2> QED BY <1>1, <1>2, <2>1, Inductive
<1> QED BY <1>3

----------------------------------------------------------------------------
(* Lists that are mapped to lists. *)

\* A list over U for each element of T.
Lister(T, U) == [T -> Seq(U)]

\* Its values are lists.
LEMMA ListerOf == ASSUME NEW T, NEW U, NEW f \in Lister(T, U), NEW e \in T PROVE f[e] \in Seq(U)
BY DEF Lister

\* The steps of FlatMap on list s.
FlatSteps(s, f, U) == [y \in Seq(U) \X (1..Len(s)) |-> y[1] \o f[s[y[2]]]]

\* FlatMap by the function it is built with.
LEMMA FlatFunction ==
  ASSUME NEW T, NEW U, NEW s \in Seq(T), NEW f \in Lister(T, U)
  PROVE  \E flat \in Recursive(Seq(U), <<>>, Len(s), FlatSteps(s, f, U)) : FlatMap(s, f) = flat[Len(s)]
<1> DEFINE S == Seq(U)
           L == Len(s)
           g == FlatSteps(s, f, U)
           IsFlat(flat) == flat = [n \in 0..L |-> IF n = 0 THEN <<>> ELSE flat[n - 1] \o f[s[n]]]
<1>1. L \in Nat /\ <<>> \in S
  OBVIOUS
<1>2. ASSUME NEW x \in S, NEW m \in 1..L PROVE g[<<x, m>>] = x \o f[s[m]] /\ g[<<x, m>>] \in S
  <2>1. s[m] \in T
    OBVIOUS
  <2>2. x \o f[s[m]] \in S
    BY <2>1, ListerOf
  <2> HIDE DEF S, L
  <2>3. <<x, m>> \in S \X (1..L) /\ <<x, m>>[1] = x /\ <<x, m>>[2] = m
    OBVIOUS
  <2>4. g = [y \in S \X (1..L) |-> y[1] \o f[s[y[2]]]]
    BY DEF FlatSteps, S, L
  <2> HIDE DEF g
  <2>5. g[<<x, m>>] = <<x, m>>[1] \o f[s[<<x, m>>[2]]]
    BY <2>3, <2>4
  <2> QED BY <2>2, <2>3, <2>5
<1> HIDE DEF g
<1>3. Closed(S, L, g)
  BY <1>2 DEF Closed
<1>4. \E b : b \in Recursive(S, <<>>, L, g)
  <2> HIDE DEF S, L
  <2> QED BY <1>1, <1>3, Recursion
<1>5. PICK b \in [0..L -> S] : b[0] = <<>> /\ \A m \in 1..L : b[m] = g[<<b[m - 1], m>>]
  BY <1>4 DEF Recursive
<1>6. IsFlat(b)
  <2>1. \A n \in 0..L : n = 0 \/ (n # 0 /\ n \in 1..L /\ n - 1 \in 0..L)
    BY <1>1
  <2>2. ASSUME NEW n \in 0..L PROVE b[n] = IF n = 0 THEN <<>> ELSE b[n - 1] \o f[s[n]]
    <3>1. CASE n = 0
      BY <1>5, <3>1
    <3>2. CASE n # 0
      <4>1. n \in 1..L /\ b[n - 1] \in S
        BY <1>5, <2>1, <3>2
      <4> HIDE DEF S, L
      <4> QED BY <1>2, <1>5, <3>2, <4>1
    <3> QED BY <3>1, <3>2
  <2> HIDE DEF S, L
  <2>3. b = [n \in 0..L |-> b[n]]
    BY <1>5
  <2> QED BY <2>2, <2>3
<1> DEFINE built == CHOOSE flat : IsFlat(flat)
<1>7. IsFlat(built)
  BY <1>6
<1>8. FlatMap(s, f) = built[L]
  BY DEF FlatMap
<1> HIDE DEF built
<1>9. built[0] = <<>> /\ built = [n \in 0..L |-> built[n]]
  BY <1>1, <1>7
<1>10. ASSUME NEW m \in 1..L, built[m - 1] \in S PROVE built[m] = g[<<built[m - 1], m>>]
  <2>1. m \in 0..L /\ m # 0
    BY <1>1
  <2>2. built[m] = built[m - 1] \o f[s[m]]
    BY <1>7, <2>1
  <2> HIDE DEF S, L
  <2> QED BY <1>2, <1>10, <2>2
<1>11. built \in Recursive(S, <<>>, L, g)
  <2> HIDE DEF S, L
  <2> QED BY <1>1, <1>3, <1>9, <1>10, Built
<1> QED BY <1>8, <1>11 DEF g

\* What FlatMap makes is a list.
LEMMA FlatType ==
  ASSUME NEW T, NEW U, NEW s \in Seq(T), NEW f \in Lister(T, U)
  PROVE  FlatMap(s, f) \in Seq(U)
<1>1. PICK flat \in Recursive(Seq(U), <<>>, Len(s), FlatSteps(s, f, U)) : FlatMap(s, f) = flat[Len(s)]
  BY FlatFunction
<1>2. flat \in [0..Len(s) -> Seq(U)] /\ Len(s) \in 0..Len(s)
  BY <1>1 DEF Recursive
<1> QED BY <1>1, <1>2

\* FlatMap of no elements, and of one more.
LEMMA FlatEmpty ==
  ASSUME NEW T, NEW U, NEW f \in Lister(T, U)
  PROVE  FlatMap(<<>>, f) = <<>>
<1>1. ASSUME NEW s \in Seq(T), Len(s) = 0 PROVE FlatMap(s, f) = <<>>
  <2>1. PICK flat \in Recursive(Seq(U), <<>>, Len(s), FlatSteps(s, f, U)) : FlatMap(s, f) = flat[Len(s)]
    BY FlatFunction
  <2>2. flat[0] = <<>>
    BY <2>1 DEF Recursive
  <2> QED BY <1>1, <2>1, <2>2
<1>2. <<>> \in Seq(T) /\ Len(<<>>) = 0
  OBVIOUS
<1> QED BY <1>1, <1>2

\* What one more element adds.
LEMMA FlatAppend ==
  ASSUME NEW T, NEW U, NEW s \in Seq(T), NEW e \in T, NEW f \in Lister(T, U)
  PROVE  FlatMap(Append(s, e), f) = FlatMap(s, f) \o f[e]
<1> DEFINE t == Append(s, e)
           L == Len(s)
<1>1. /\ t \in Seq(T) /\ Len(t) = L + 1 /\ L \in Nat /\ L + 1 \in Nat /\ t[L + 1] = e
      /\ \A m \in 1..L : t[m] = s[m]
  OBVIOUS
<1>0. f[e] \in Seq(U)
  BY ListerOf
<1> HIDE DEF t
<1>2. PICK a \in Recursive(Seq(U), <<>>, L, FlatSteps(s, f, U)) : FlatMap(s, f) = a[L]
  BY FlatFunction
<1>3. PICK b \in Recursive(Seq(U), <<>>, Len(t), FlatSteps(t, f, U)) : FlatMap(t, f) = b[Len(t)]
  BY <1>1, FlatFunction
<1>4. ASSUME NEW x \in Seq(U), NEW m \in 1..(L + 1) PROVE FlatSteps(t, f, U)[<<x, m>>] = x \o f[t[m]]
  <2>1. m \in 1..Len(t)
    BY <1>1
  <2>2. <<x, m>> \in Seq(U) \X (1..Len(t)) /\ <<x, m>>[1] = x /\ <<x, m>>[2] = m
    BY <2>1
  <2> QED BY <2>2 DEF FlatSteps
<1>5. ASSUME NEW x \in Seq(U), NEW m \in 1..L PROVE FlatSteps(s, f, U)[<<x, m>>] = x \o f[s[m]]
  <2>1. <<x, m>> \in Seq(U) \X (1..L) /\ <<x, m>>[1] = x /\ <<x, m>>[2] = m
    OBVIOUS
  <2> QED BY <2>1 DEF FlatSteps
<1>6. ASSUME NEW x \in Seq(U), NEW m \in 1..L
      PROVE  FlatSteps(s, f, U)[<<x, m>>] = FlatSteps(t, f, U)[<<x, m>>]
  <2>1. m \in 1..(L + 1)
    BY <1>1
  <2>2. t[m] = s[m]
    BY <1>1
  <2>3. FlatSteps(s, f, U)[<<x, m>>] = x \o f[s[m]]
    BY <1>5
  <2>4. FlatSteps(t, f, U)[<<x, m>>] = x \o f[t[m]]
    BY <1>4, <2>1
  <2> QED BY <2>2, <2>3, <2>4
<1>7. a[L] = b[L]
  <2>1. <<>> \in Seq(U)
    OBVIOUS
  <2>4. L <= Len(t)
    BY <1>1
  <2>5. Len(t) \in Nat
    BY <1>1
  <2>2. Agree(Seq(U), L, FlatSteps(s, f, U), FlatSteps(t, f, U))
    BY <1>6 DEF Agree
  <2>3. L \in Nat
    BY <1>1
  <2> HIDE DEF L
  <2> DEFINE S == Seq(U)
             M == Len(t)
             g == FlatSteps(s, f, U)
             h == FlatSteps(t, f, U)
             base == <<>>
  <2>6. /\ base \in S /\ M \in Nat /\ L <= M /\ Agree(S, L, g, h)
        /\ a \in Recursive(S, base, L, g) /\ b \in Recursive(S, base, M, h)
    BY <1>2, <1>3, <2>1, <2>2, <2>4, <2>5
  <2> HIDE DEF S, M, g, h, base
  <2> QED BY <2>3, <2>6, SameSteps
<1>8. b[L + 1] = FlatSteps(t, f, U)[<<b[L], L + 1>>] /\ b[L] \in Seq(U)
  <2>1. L + 1 \in 1..Len(t) /\ (L + 1) - 1 = L /\ L \in 0..Len(t)
    BY <1>1
  <2> QED BY <1>3, <2>1 DEF Recursive
<1>9. L + 1 \in 1..(L + 1)
  BY <1>1
<1>10. b[L + 1] = b[L] \o f[e]
  BY <1>1, <1>4, <1>8, <1>9
<1> QED BY <1>0, <1>1, <1>2, <1>3, <1>7, <1>10 DEF t

\* FlatMap of one element.
LEMMA FlatOne ==
  ASSUME NEW T, NEW U, NEW e \in T, NEW f \in Lister(T, U)
  PROVE  FlatMap(<<e>>, f) = f[e]
<1>1. FlatMap(Append(<<>>, e), f) = FlatMap(<<>>, f) \o f[e]
  <2>1. <<>> \in Seq(T)
    OBVIOUS
  <2>2. \A s \in Seq(T) : FlatMap(Append(s, e), f) = FlatMap(s, f) \o f[e]
    BY FlatAppend
  <2> QED BY <2>1, <2>2
<1>2. Append(<<>>, e) = <<e>> /\ FlatMap(<<>>, f) = <<>>
  BY FlatEmpty
<1>3. <<>> \o f[e] = f[e]
  <2>1. f[e] \in Seq(U)
    BY ListerOf
  <2> QED BY <2>1
<1> QED BY <1>1, <1>2, <1>3

\* A list of n + 1 elements is one of n with one more.
LEMMA OneMore ==
  ASSUME NEW T, NEW n \in Nat, NEW s \in Seq(T), Len(s) = n + 1
  PROVE  \E t \in Seq(T), e \in T : s = Append(t, e) /\ Len(t) = n
<1>1. s # <<>>
  OBVIOUS
<1>2. PICK t \in Seq(T), e \in T : s = Append(t, e)
  BY <1>1, SequenceEmptyOrAppend
<1>3. Len(s) = Len(t) + 1 /\ Len(t) \in Nat
  BY <1>2
<1> QED BY <1>2, <1>3

\* The last element of a longer list.
LEMMA LastOf ==
  ASSUME NEW U, NEW x \in Seq(U), NEW e \in U
  PROVE  /\ Append(x, e) \in Seq(U) /\ Append(x, e) # <<>> /\ Len(Append(x, e)) = Len(x) + 1
         /\ Append(x, e)[Len(Append(x, e))] = e /\ Append(x, e)[Len(x) + 1] = e
         /\ \A i \in 1..Len(x) : Append(x, e)[i] = x[i]
         /\ \A i \in 1..(Len(x) + 1) : i \in 1..Len(x) \/ i = Len(x) + 1
OBVIOUS

\* Three lists, one after the other.
Regroups(x, y, z) == (x \o y) \o z = x \o (y \o z)

\* It does not matter which two come together first.
LEMMA Associative ==
  ASSUME NEW U, NEW x \in Seq(U), NEW y \in Seq(U), NEW z \in Seq(U)
  PROVE  Regroups(x, y, z)
BY ConcatAssociative DEF Regroups

\* FlatMap of two lists, one after the other.
LEMMA FlatConcat ==
  ASSUME NEW T, NEW U, NEW f \in Lister(T, U), NEW s \in Seq(T), NEW t \in Seq(T)
  PROVE  FlatMap(s \o t, f) = FlatMap(s, f) \o FlatMap(t, f)
<1> DEFINE Good(u) == FlatMap(s \o u, f) = FlatMap(s, f) \o FlatMap(u, f)
           All == {n \in Nat : \A u \in Seq(T) : Len(u) = n => Good(u)}
<1>1. 0 \in All
  <2> SUFFICES ASSUME NEW u \in Seq(T), Len(u) = 0 PROVE Good(u)
    OBVIOUS
  <2>1. u = <<>> /\ s \o u = s
    OBVIOUS
  <2>2. FlatMap(u, f) = <<>> /\ FlatMap(s, f) \in Seq(U)
    BY <2>1, FlatEmpty, FlatType
  <2>3. FlatMap(s, f) \o <<>> = FlatMap(s, f)
    BY <2>2
  <2> QED BY <2>1, <2>2, <2>3
<1>2. ASSUME NEW n \in All PROVE n + 1 \in All
  <2> SUFFICES ASSUME NEW u \in Seq(T), Len(u) = n + 1 PROVE Good(u)
    OBVIOUS
  <2>1. PICK v \in Seq(T), e \in T : u = Append(v, e) /\ Len(v) = n
    BY OneMore
  <2>2. Good(v)
    BY <2>1
  <2>3. s \o u = Append(s \o v, e)
    BY <2>1
  <2>7. s \o v \in Seq(T)
    OBVIOUS
  <2>4. FlatMap(s \o u, f) = FlatMap(s \o v, f) \o f[e]
    <3> DEFINE w == s \o v
    <3> HIDE DEF w
    <3>1. w \in Seq(T)
      BY <2>7 DEF w
    <3>2. FlatMap(Append(w, e), f) = FlatMap(w, f) \o f[e]
      BY <3>1, FlatAppend
    <3> QED BY <2>3, <3>2 DEF w
  <2>5. FlatMap(u, f) = FlatMap(v, f) \o f[e]
    BY <2>1, FlatAppend
  <2>6. FlatMap(s, f) \in Seq(U) /\ FlatMap(v, f) \in Seq(U) /\ f[e] \in Seq(U)
    BY FlatType, ListerOf
  <2>8. (FlatMap(s, f) \o FlatMap(v, f)) \o f[e] = FlatMap(s, f) \o (FlatMap(v, f) \o f[e])
    <3> DEFINE x == FlatMap(s, f)
               y == FlatMap(v, f)
               z == f[e]
    <3> HIDE DEF x, y, z
    <3>1. x \in Seq(U) /\ y \in Seq(U) /\ z \in Seq(U)
      BY <2>6 DEF x, y, z
    <3>2. Regroups(x, y, z)
      BY <3>1, Associative
    <3> QED BY <3>2 DEF x, y, z, Regroups
  <2> QED BY <2>2, <2>4, <2>5, <2>8
<1>3. All = Nat
  <2> HIDE DEF All
  <2>1. All \in SUBSET Nat
    BY DEF All
  <2> QED BY <1>1, <1>2, <2>1, Inductive
<1>4. Len(t) \in Nat
  OBVIOUS
<1> QED BY <1>3, <1>4

\* FlatMap looks at the values for the elements of its list only.
LEMMA FlatSame ==
  ASSUME NEW T, NEW U, NEW f \in Lister(T, U), NEW g \in Lister(T, U), NEW s \in Seq(T),
         \A i \in 1..Len(s) : f[s[i]] = g[s[i]]
  PROVE  FlatMap(s, f) = FlatMap(s, g)
<1> DEFINE All == {n \in Nat : \A u \in Seq(T) :
                    Len(u) = n /\ (\A i \in 1..Len(u) : f[u[i]] = g[u[i]]) => FlatMap(u, f) = FlatMap(u, g)}
<1>1. 0 \in All
  <2> SUFFICES ASSUME NEW u \in Seq(T), Len(u) = 0 PROVE FlatMap(u, f) = FlatMap(u, g)
    OBVIOUS
  <2>1. u = <<>>
    OBVIOUS
  <2>2. FlatMap(<<>>, f) = <<>> /\ FlatMap(<<>>, g) = <<>>
    BY FlatEmpty
  <2> QED BY <2>1, <2>2
<1>2. ASSUME NEW n \in All PROVE n + 1 \in All
  <2> SUFFICES ASSUME NEW u \in Seq(T), Len(u) = n + 1, \A i \in 1..Len(u) : f[u[i]] = g[u[i]]
               PROVE  FlatMap(u, f) = FlatMap(u, g)
    OBVIOUS
  <2>1. PICK v \in Seq(T), e \in T : u = Append(v, e) /\ Len(v) = n
    BY OneMore
  <2>2. u[Len(u)] = e /\ Len(u) \in 1..Len(u) /\ \A i \in 1..Len(v) : i \in 1..Len(u) /\ u[i] = v[i]
    BY <2>1
  <2>3. f[e] = g[e] /\ \A i \in 1..Len(v) : f[v[i]] = g[v[i]]
    BY <2>2
  <2>4. FlatMap(v, f) = FlatMap(v, g)
    BY <2>1, <2>3
  <2>5. FlatMap(u, f) = FlatMap(v, f) \o f[e]
    BY <2>1, FlatAppend
  <2>6. FlatMap(u, g) = FlatMap(v, g) \o g[e]
    BY <2>1, FlatAppend
  <2> QED BY <2>3, <2>4, <2>5, <2>6
<1>3. All = Nat
  <2> HIDE DEF All
  <2>1. All \in SUBSET Nat
    BY DEF All
  <2> QED BY <1>1, <1>2, <2>1, Inductive
<1>4. Len(s) \in Nat
  OBVIOUS
<1> QED BY <1>3, <1>4

\* FlatMap of what a FlatMap has made.
LEMMA FlatCompose ==
  ASSUME NEW T, NEW U, NEW V, NEW f \in Lister(T, U), NEW g \in Lister(U, V), NEW s \in Seq(T)
  PROVE  FlatMap(FlatMap(s, f), g) = FlatMap(s, [e \in T |-> FlatMap(f[e], g)])
<1> DEFINE h == [e \in T |-> FlatMap(f[e], g)]
           All == {n \in Nat : \A u \in Seq(T) :
                    Len(u) = n => FlatMap(FlatMap(u, f), g) = FlatMap(u, h)}
<1>h. h \in Lister(T, V) /\ \A e \in T : h[e] = FlatMap(f[e], g)
  <2>1. ASSUME NEW e \in T PROVE FlatMap(f[e], g) \in Seq(V)
    <3>1. f[e] \in Seq(U)
      BY ListerOf
    <3> QED BY <3>1, FlatType
  <2> QED BY <2>1 DEF Lister
<1> HIDE DEF h
<1>1. 0 \in All
  <2> SUFFICES ASSUME NEW u \in Seq(T), Len(u) = 0 PROVE FlatMap(FlatMap(u, f), g) = FlatMap(u, h)
    OBVIOUS
  <2>1. u = <<>>
    OBVIOUS
  <2>2. FlatMap(<<>>, f) = <<>> /\ FlatMap(<<>>, g) = <<>> /\ FlatMap(<<>>, h) = <<>>
    BY <1>h, FlatEmpty
  <2> QED BY <2>1, <2>2
<1>2. ASSUME NEW n \in All PROVE n + 1 \in All
  <2> SUFFICES ASSUME NEW u \in Seq(T), Len(u) = n + 1 PROVE FlatMap(FlatMap(u, f), g) = FlatMap(u, h)
    OBVIOUS
  <2>1. PICK v \in Seq(T), e \in T : u = Append(v, e) /\ Len(v) = n
    BY OneMore
  <2>2. FlatMap(FlatMap(v, f), g) = FlatMap(v, h)
    BY <2>1
  <2>3. FlatMap(v, f) \in Seq(U) /\ f[e] \in Seq(U)
    BY FlatType, ListerOf
  <2>4. FlatMap(u, f) = FlatMap(v, f) \o f[e]
    BY <2>1, FlatAppend
  <2>5. FlatMap(FlatMap(v, f) \o f[e], g) = FlatMap(FlatMap(v, f), g) \o FlatMap(f[e], g)
    <3> DEFINE a == FlatMap(v, f)
               b == f[e]
    <3>1. a \in Seq(U) /\ b \in Seq(U)
      BY <2>3
    <3> HIDE DEF a, b
    <3>2. FlatMap(a \o b, g) = FlatMap(a, g) \o FlatMap(b, g)
      BY ONLY <3>1, g \in Lister(U, V), FlatConcat
    <3> QED BY <3>2 DEF a, b
  <2>6. FlatMap(u, h) = FlatMap(v, h) \o h[e]
    BY <1>h, <2>1, FlatAppend
  <2> QED BY <1>h, <2>2, <2>4, <2>5, <2>6
<1>3. All = Nat
  <2> HIDE DEF All
  <2>1. All \in SUBSET Nat
    BY DEF All
  <2> QED BY <1>1, <1>2, <2>1, Inductive
<1>4. Len(s) \in Nat
  OBVIOUS
<1> QED BY <1>3, <1>4 DEF h

\* A set that has the empty list, and with each list every one that is longer by
\* an element, has all lists.
LEMMA EveryList ==
  ASSUME NEW T, NEW P \in SUBSET Seq(T), <<>> \in P, \A s \in P : \A e \in T : Append(s, e) \in P
  PROVE  \A s \in Seq(T) : s \in P
<1> DEFINE All == {n \in Nat : \A s \in Seq(T) : Len(s) = n => s \in P}
<1>1. 0 \in All
  OBVIOUS
<1>2. ASSUME NEW n \in All PROVE n + 1 \in All
  <2> SUFFICES ASSUME NEW s \in Seq(T), Len(s) = n + 1 PROVE s \in P
    OBVIOUS
  <2>1. PICK t \in Seq(T), e \in T : s = Append(t, e) /\ Len(t) = n
    BY OneMore
  <2> QED BY <2>1
<1>3. All = Nat
  <2> HIDE DEF All
  <2>1. All \in SUBSET Nat
    BY DEF All
  <2> QED BY <1>1, <1>2, <2>1, Inductive
<1>4. \A s \in Seq(T) : Len(s) \in Nat
  OBVIOUS
<1> QED BY <1>3, <1>4

\* The element itself if it is in S, else nothing.
Pick(T, S) == [e \in T |-> IF e \in S THEN <<e>> ELSE <<>>]

\* Kept as a FlatMap.
LEMMA KeptFlat ==
  ASSUME NEW T, NEW S, NEW s \in Seq(T)
  PROVE  Pick(T, S) \in Lister(T, T) /\ Kept(s, S) = FlatMap(s, Pick(T, S))
<1> DEFINE f == Pick(T, S)
<1>1. f \in Lister(T, T) /\ \A e \in T : f[e] = IF e \in S THEN <<e>> ELSE <<>>
  BY DEF Pick, Lister
<1> HIDE DEF f
<1>2. PICK kept : /\ Kept(s, S) = kept[Len(s)]
                  /\ kept[0] = <<>>
                  /\ \A n \in 1..Len(s) :
                       kept[n] = IF s[n] \in S THEN Append(kept[n - 1], s[n]) ELSE kept[n - 1]
  BY KeptFunction
<1>3. PICK flat \in Recursive(Seq(T), <<>>, Len(s), FlatSteps(s, f, T)) : FlatMap(s, f) = flat[Len(s)]
  BY <1>1, FlatFunction
<1> DEFINE All == {n \in Nat : n <= Len(s) => kept[n] = flat[n]}
<1>4. 0 \in All
  BY <1>2, <1>3 DEF Recursive
<1>5. ASSUME NEW n \in All PROVE n + 1 \in All
  <2> SUFFICES ASSUME n + 1 <= Len(s) PROVE kept[n + 1] = flat[n + 1]
    OBVIOUS
  <2>1. /\ n \in Nat /\ n \in 0..Len(s) /\ n + 1 \in 1..Len(s) /\ (n + 1) - 1 = n
        /\ kept[n] = flat[n] /\ s[n + 1] \in T
    OBVIOUS
  <2>2. flat[n] \in Seq(T) /\ flat[n + 1] = FlatSteps(s, f, T)[<<flat[n], n + 1>>]
    BY <1>3, <2>1 DEF Recursive
  <2> DEFINE x == flat[n]
  <2> HIDE DEF x
  <2>3. x \in Seq(T) /\ x = flat[n]
    BY <2>2 DEF x
  <2>4. FlatSteps(s, f, T)[<<x, n + 1>>] = x \o f[s[n + 1]]
    <3>1. <<x, n + 1>> \in Seq(T) \X (1..Len(s)) /\ <<x, n + 1>>[1] = x /\ <<x, n + 1>>[2] = n + 1
      BY <2>1, <2>3
    <3> QED BY <3>1 DEF FlatSteps
  <2>5. kept[n + 1] = IF s[n + 1] \in S THEN Append(x, s[n + 1]) ELSE x
    BY <1>2, <2>1, <2>3
  <2>6. x \o <<s[n + 1]>> = Append(x, s[n + 1]) /\ x \o <<>> = x
    BY <2>1, <2>3
  <2> HIDE DEF All
  <2> QED BY <1>1, <2>1, <2>2, <2>3, <2>4, <2>5, <2>6
<1>6. All = Nat
  <2> HIDE DEF All
  <2>1. All \in SUBSET Nat
    BY DEF All
  <2> QED BY <1>4, <1>5, <2>1, Inductive
<1>7. Len(s) \in Nat
  OBVIOUS
<1> QED BY <1>1, <1>2, <1>3, <1>6, <1>7 DEF f

\* What Kept leaves of two lists, one after the other.
LEMMA KeptConcat ==
  ASSUME NEW T, NEW S, NEW s \in Seq(T), NEW t \in Seq(T)
  PROVE  Kept(s \o t, S) = Kept(s, S) \o Kept(t, S)
<1>1. s \o t \in Seq(T)
  OBVIOUS
<1> DEFINE u == s \o t
<1> HIDE DEF u
<1>2. Kept(u, S) = FlatMap(u, Pick(T, S)) /\ Pick(T, S) \in Lister(T, T)
  BY <1>1, KeptFlat DEF u
<1>3. Kept(s, S) = FlatMap(s, Pick(T, S)) /\ Kept(t, S) = FlatMap(t, Pick(T, S))
  BY KeptFlat
<1>4. FlatMap(s \o t, Pick(T, S)) = FlatMap(s, Pick(T, S)) \o FlatMap(t, Pick(T, S))
  BY <1>2, FlatConcat
<1> QED BY <1>2, <1>3, <1>4 DEF u

\* Elements for which a FlatMap puts nothing need not be kept.
LEMMA FlatKept ==
  ASSUME NEW T, NEW U, NEW S, NEW f \in Lister(T, U), \A e \in T : e \notin S => f[e] = <<>>,
         NEW s \in Seq(T)
  PROVE  FlatMap(Kept(s, S), f) = FlatMap(s, f)
<1> DEFINE p == Pick(T, S)
           h == [e \in T |-> FlatMap(p[e], f)]
<1>1. p \in Lister(T, T) /\ Kept(s, S) = FlatMap(s, p)
  BY KeptFlat
<1>2. \A e \in T : p[e] = IF e \in S THEN <<e>> ELSE <<>>
  BY DEF Pick
<1> HIDE DEF p
<1>3. ASSUME NEW e \in T PROVE FlatMap(p[e], f) = f[e]
  <2>1. FlatMap(<<e>>, f) = f[e]
    BY FlatOne
  <2>2. FlatMap(<<>>, f) = <<>>
    BY FlatEmpty
  <2> QED BY <1>2, <2>1, <2>2
<1>4. h = f
  BY <1>3 DEF Lister
<1>5. FlatMap(FlatMap(s, p), f) = FlatMap(s, h)
  BY <1>1, FlatCompose
<1> HIDE DEF h
<1> QED BY <1>1, <1>4, <1>5

----------------------------------------------------------------------------
(* The ssh configuration. *)

\* What the parser makes of a file: sections, each with its children.
Sections == [line : Lines, children : Seq(Lines)]
Configs == Seq(Sections)

\* One line joins the section that is open, or starts one.
LEMMA ParseLineIs ==
  ASSUME NEW config \in Configs, NEW line \in Lines
  PROVE  /\ ParseLine(config, line) \in Configs
         /\ \/ /\ Opens(line) \/ config = <<>> \/ ~Opens(config[Len(config)].line)
               /\ ParseLine(config, line) = Append(config, Section(line, <<>>))
            \/ /\ ~Opens(line)
               /\ \E front \in Configs, last \in Sections :
                    /\ config = Append(front, last) /\ Opens(last.line)
                    /\ ParseLine(config, line)
                         = Append(front, Section(last.line, Append(last.children, line)))
<1>1. CASE Opens(line) \/ config = <<>> \/ ~Opens(config[Len(config)].line)
  <2>1. ParseLine(config, line) = Append(config, Section(line, <<>>))
    BY <1>1 DEF ParseLine
  <2>2. Section(line, <<>>) \in Sections
    BY DEF Section, Sections
  <2>3. Append(config, Section(line, <<>>)) \in Configs
    BY <2>2 DEF Configs
  <2> QED BY <1>1, <2>1, <2>3
<1>2. CASE ~Opens(line) /\ config # <<>> /\ Opens(config[Len(config)].line)
  <2>1. PICK front \in Configs, last \in Sections : config = Append(front, last)
    BY <1>2, SequenceEmptyOrAppend DEF Configs
  <2> DEFINE L == Len(front)
             new == Section(last.line, Append(last.children, line))
  <2>2. /\ L \in Nat /\ Len(config) = L + 1 /\ DOMAIN config = 1..(L + 1) /\ config[L + 1] = last
        /\ L + 1 \in 1..(L + 1) /\ \A i \in 1..L : config[i] = front[i]
    <3>1. front \in Seq(Sections) /\ config \in Seq(Sections)
      BY DEF Configs
    <3>2. /\ Len(Append(front, last)) = Len(front) + 1 /\ Append(front, last)[Len(front) + 1] = last
          /\ \A i \in 1..Len(front) : Append(front, last)[i] = front[i]
      BY <3>1, LastOf
    <3>3. L \in Nat /\ L + 1 \in 1..(L + 1) /\ DOMAIN config = 1..Len(config)
      BY <3>1
    <3> QED BY <2>1, <3>2, <3>3
  <2>3. new \in Sections /\ new = [last EXCEPT !.children = Append(@, line)]
    <3>1. last.line \in Lines /\ last.children \in Seq(Lines)
      BY DEF Sections
    <3>2. last = [line |-> last.line, children |-> last.children]
      BY DEF Sections
    <3> DEFINE c == Append(last.children, line)
    <3>3. c \in Seq(Lines)
      BY <3>1
    <3> HIDE DEF c
    <3>4. [last EXCEPT !.children = c] = [line |-> last.line, children |-> c]
      BY ONLY <3>2
    <3> QED BY <3>1, <3>3, <3>4 DEF Section, Sections, c
  <2>4. ParseLine(config, line) = [config EXCEPT ![L + 1].children = Append(@, line)]
    BY <1>2, <2>2 DEF ParseLine
  <2> HIDE DEF new
  <2>5. [config EXCEPT ![L + 1].children = Append(@, line)] = [config EXCEPT ![L + 1] = new]
    BY <2>2, <2>3
  <2>6. Append(front, new) = [i \in 1..(L + 1) |-> IF i = L + 1 THEN new ELSE front[i]]
    BY <2>3 DEF Configs
  <2>7. [config EXCEPT ![L + 1] = new] = [i \in 1..(L + 1) |-> IF i = L + 1 THEN new ELSE config[i]]
    BY <2>2
  <2>8. \A i \in 1..(L + 1) : i = L + 1 \/ (i \in 1..L /\ config[i] = front[i])
    BY <2>2
  <2>9. ParseLine(config, line) = Append(front, new)
    BY <2>4, <2>5, <2>6, <2>7, <2>8
  <2>10. Append(front, new) \in Configs
    BY <2>3 DEF Configs
  <2> QED BY <1>2, <2>1, <2>2, <2>9, <2>10 DEF new
<1> QED BY <1>1, <1>2

\* The steps of Parse.
ParseSteps(lines) == [y \in Configs \X (1..Len(lines)) |-> ParseLine(y[1], lines[y[2]])]

\* What one step of the parser gives.
LEMMA ParseStep ==
  ASSUME NEW lines \in Seq(Lines), NEW x \in Configs, NEW m \in 1..Len(lines)
  PROVE  /\ ParseSteps(lines)[<<x, m>>] = ParseLine(x, lines[m])
         /\ ParseSteps(lines)[<<x, m>>] \in Configs
<1>1. <<x, m>> \in Configs \X (1..Len(lines)) /\ <<x, m>>[1] = x /\ <<x, m>>[2] = m
  OBVIOUS
<1>2. ParseSteps(lines)[<<x, m>>] = ParseLine(x, lines[m])
  BY <1>1 DEF ParseSteps
<1>3. lines[m] \in Lines
  OBVIOUS
<1> QED BY <1>2, <1>3, ParseLineIs

\* Parse by the function it is built with.
LEMMA ParseFunction ==
  ASSUME NEW lines \in Seq(Lines)
  PROVE  \E parsed \in Recursive(Configs, <<>>, Len(lines), ParseSteps(lines)) :
           Parse(lines) = parsed[Len(lines)]
<1> DEFINE S == Configs
           L == Len(lines)
           g == ParseSteps(lines)
           IsParsed(parsed) == parsed = [n \in 0..L |-> IF n = 0 THEN <<>> ELSE ParseLine(parsed[n - 1], lines[n])]
<1>1. L \in Nat /\ <<>> \in S
  BY DEF Configs
<1>2. \A x \in S : \A m \in 1..L : g[<<x, m>>] = ParseLine(x, lines[m]) /\ g[<<x, m>>] \in S
  BY ParseStep
<1> HIDE DEF g
<1>3. Closed(S, L, g)
  BY <1>2 DEF Closed
<1>4. \E b : b \in Recursive(S, <<>>, L, g)
  <2> HIDE DEF S, L
  <2> QED BY <1>1, <1>3, Recursion
<1>5. PICK b \in [0..L -> S] : b[0] = <<>> /\ \A m \in 1..L : b[m] = g[<<b[m - 1], m>>]
  BY <1>4 DEF Recursive
<1>6. IsParsed(b)
  <2>1. \A n \in 0..L : n = 0 \/ (n # 0 /\ n \in 1..L /\ n - 1 \in 0..L)
    BY <1>1
  <2>2. ASSUME NEW n \in 0..L PROVE b[n] = IF n = 0 THEN <<>> ELSE ParseLine(b[n - 1], lines[n])
    <3>1. CASE n = 0
      BY <1>5, <3>1
    <3>2. CASE n # 0
      <4>1. n \in 1..L /\ b[n - 1] \in S
        BY <1>5, <2>1, <3>2
      <4> HIDE DEF S, L
      <4> QED BY <1>2, <1>5, <3>2, <4>1
    <3> QED BY <3>1, <3>2
  <2> HIDE DEF S, L
  <2>3. b = [n \in 0..L |-> b[n]]
    BY <1>5
  <2> QED BY <2>2, <2>3
<1> DEFINE built == CHOOSE parsed : IsParsed(parsed)
<1>7. IsParsed(built)
  BY <1>6
<1>8. Parse(lines) = built[L]
  BY DEF Parse
<1> HIDE DEF built
<1>9. built[0] = <<>> /\ built = [n \in 0..L |-> built[n]]
  BY <1>1, <1>7
<1>10. ASSUME NEW m \in 1..L, built[m - 1] \in S PROVE built[m] = g[<<built[m - 1], m>>]
  <2>1. m \in 0..L /\ m # 0
    BY <1>1
  <2>2. built[m] = ParseLine(built[m - 1], lines[m])
    BY <1>7, <2>1
  <2> HIDE DEF S, L
  <2> QED BY <1>2, <1>10, <2>2
<1>11. built \in Recursive(S, <<>>, L, g)
  <2> HIDE DEF S, L
  <2> QED BY <1>1, <1>3, <1>9, <1>10, Built
<1> QED BY <1>8, <1>11 DEF g

\* Parse of no lines, and of one more.
LEMMA ParseEmpty == Parse(<<>>) = <<>>
<1>1. ASSUME NEW s \in Seq(Lines), Len(s) = 0 PROVE Parse(s) = <<>>
  <2>1. PICK parsed \in Recursive(Configs, <<>>, Len(s), ParseSteps(s)) : Parse(s) = parsed[Len(s)]
    BY ParseFunction
  <2>2. parsed[0] = <<>>
    BY <2>1 DEF Recursive
  <2> QED BY <1>1, <2>1, <2>2
<1>2. <<>> \in Seq(Lines) /\ Len(<<>>) = 0
  OBVIOUS
<1> QED BY <1>1, <1>2

\* The parser takes one more line by ParseLine.
LEMMA ParseAppend ==
  ASSUME NEW s \in Seq(Lines), NEW line \in Lines
  PROVE  Parse(s) \in Configs /\ Parse(Append(s, line)) = ParseLine(Parse(s), line)
<1> DEFINE t == Append(s, line)
           L == Len(s)
<1>1. /\ t \in Seq(Lines) /\ Len(t) = L + 1 /\ L \in Nat /\ L + 1 \in Nat /\ t[L + 1] = line
      /\ \A m \in 1..L : t[m] = s[m]
  OBVIOUS
<1> HIDE DEF t
<1>2. PICK a \in Recursive(Configs, <<>>, L, ParseSteps(s)) : Parse(s) = a[L]
  BY ParseFunction
<1>3. PICK b \in Recursive(Configs, <<>>, Len(t), ParseSteps(t)) : Parse(t) = b[Len(t)]
  BY <1>1, ParseFunction
<1>4. ASSUME NEW x \in Configs, NEW m \in 1..L PROVE ParseSteps(s)[<<x, m>>] = ParseSteps(t)[<<x, m>>]
  <2>1. m \in 1..Len(t) /\ t[m] = s[m]
    BY <1>1
  <2>2. ParseSteps(s)[<<x, m>>] = ParseLine(x, s[m])
    BY ParseStep
  <2>3. ParseSteps(t)[<<x, m>>] = ParseLine(x, t[m])
    BY <1>1, <2>1, ParseStep
  <2> QED BY <2>1, <2>2, <2>3
<1>5. a[L] = b[L]
  <2> DEFINE M == Len(t)
             g == ParseSteps(s)
             h == ParseSteps(t)
             base == <<>>
  <2>1. Agree(Configs, L, g, h)
    BY <1>4 DEF Agree
  <2>2. /\ base \in Configs /\ L \in Nat /\ M \in Nat /\ L <= M
        /\ a \in Recursive(Configs, base, L, g) /\ b \in Recursive(Configs, base, M, h)
    BY <1>1, <1>2, <1>3 DEF Configs
  <2> HIDE DEF M, g, h, base, L
  <2> QED BY <2>1, <2>2, SameSteps
<1>6. b[L + 1] = ParseSteps(t)[<<b[L], L + 1>>] /\ b[L] \in Configs
  <2>1. L + 1 \in 1..Len(t) /\ (L + 1) - 1 = L /\ L \in 0..Len(t)
    BY <1>1
  <2> QED BY <1>3, <2>1 DEF Recursive
<1>7. b[L + 1] = ParseLine(b[L], line)
  <2> DEFINE x == b[L]
  <2> HIDE DEF x
  <2>1. x \in Configs /\ b[L + 1] = ParseSteps(t)[<<x, L + 1>>]
    BY <1>6 DEF x
  <2>2. L + 1 \in 1..Len(t)
    BY <1>1
  <2>3. ParseSteps(t)[<<x, L + 1>>] = ParseLine(x, t[L + 1])
    BY <1>1, <2>1, <2>2, ParseStep
  <2> QED BY <1>1, <2>1, <2>3 DEF x
<1> QED BY <1>1, <1>2, <1>3, <1>5, <1>6, <1>7 DEF t

\* What Parse makes is a configuration.
LEMMA ParseType == ASSUME NEW s \in Seq(Lines) PROVE Parse(s) \in Configs
<1>1. PICK parsed \in Recursive(Configs, <<>>, Len(s), ParseSteps(s)) : Parse(s) = parsed[Len(s)]
  BY ParseFunction
<1>2. parsed \in [0..Len(s) -> Configs] /\ Len(s) \in 0..Len(s)
  BY <1>1 DEF Recursive
<1> QED BY <1>1, <1>2

\* The end of a list, from one of its elements on.
LEMMA TailFrom ==
  ASSUME NEW T, NEW s \in Seq(T), NEW i \in 1..Len(s)
  PROVE  /\ SubSeq(s, i, Len(s)) \in Seq(T) /\ SubSeq(s, i + 1, Len(s)) \in Seq(T)
         /\ SubSeq(s, i, Len(s)) = <<s[i]>> \o SubSeq(s, i + 1, Len(s))
<1> DEFINE L == Len(s)
           a == SubSeq(s, i, L)
           b == SubSeq(s, i + 1, L)
           c == <<s[i]>>
<1>1. L \in Nat /\ i \in Nat /\ i <= L /\ 1 <= i /\ \A j \in 1..L : s[j] \in T
  OBVIOUS
<1>2. a \in Seq(T) /\ Len(a) = L - i + 1 /\ \A j \in 1..(L - i + 1) : a[j] = s[i + j - 1]
  OBVIOUS
<1>3. b \in Seq(T) /\ Len(b) = L - i /\ \A j \in 1..(L - i) : b[j] = s[i + j]
  OBVIOUS
<1>4. c \in Seq(T) /\ Len(c) = 1 /\ c[1] = s[i]
  OBVIOUS
<1> HIDE DEF a, b, c
<1>5. /\ c \o b \in Seq(T) /\ Len(c \o b) = L - i + 1 /\ (c \o b)[1] = s[i]
      /\ \A j \in 2..(L - i + 1) : (c \o b)[j] = b[j - 1]
  <2> HIDE DEF L
  <2>1. /\ c \o b \in Seq(T) /\ Len(c \o b) = Len(c) + Len(b)
        /\ \A j \in 1..(Len(c) + Len(b)) : (c \o b)[j] = IF j <= Len(c) THEN c[j] ELSE b[j - Len(c)]
    BY <1>3, <1>4, ConcatProperties
  <2>2. Len(c) + Len(b) = L - i + 1 /\ 1 \in 1..(L - i + 1)
    BY <1>1, <1>3, <1>4
  <2>3. (c \o b)[1] = s[i]
    BY <1>4, <2>1, <2>2
  <2>4. ASSUME NEW j \in 2..(L - i + 1) PROVE (c \o b)[j] = b[j - 1]
    <3>1. j \in 1..(L - i + 1) /\ ~(j <= 1)
      BY <1>1
    <3> QED BY <1>4, <2>1, <2>2, <3>1
  <2> QED BY <2>1, <2>2, <2>3, <2>4
<1>6. \A j \in 1..(L - i + 1) : a[j] = (c \o b)[j]
  <2> SUFFICES ASSUME NEW j \in 1..(L - i + 1) PROVE a[j] = (c \o b)[j]
    OBVIOUS
  <2>1. CASE j = 1
    BY <1>1, <1>2, <1>5, <2>1
  <2>2. CASE j # 1
    <3>1. j \in 2..(L - i + 1) /\ j - 1 \in 1..(L - i) /\ i + (j - 1) = i + j - 1
      BY <1>1, <2>2
    <3>2. b[j - 1] = s[i + (j - 1)]
      BY <1>3, <3>1
    <3> QED BY <1>2, <1>5, <3>1, <3>2
  <2> QED BY <2>1, <2>2
<1>7. a = c \o b
  BY <1>1, <1>2, <1>5, <1>6, SeqEqual
<1> QED BY <1>2, <1>3, <1>7 DEF a, b, c

\* The configurations of the files: no Include is left at the top.
NoIncludes(config) == \A i \in 1..Len(config) : ~IsInclude(config[i].line)
\* Configurations of the three files, from which every Include is gone.
Expanded == {expanded \in [1..3 -> Configs] : \A n \in 1..3 : NoIncludes(expanded[n])}

\* What is put in for a line, and for a section.
Put(expanded) == [line \in Lines |-> IF IsInclude(line) THEN expanded[line.of] ELSE <<>>]

\* What a section becomes: itself without its Include lines, and behind it what they
\* stand for; a section that is an Include itself becomes the configuration of its file.
Piece(expanded) ==
  [section \in Sections |->
     IF IsInclude(section.line) THEN expanded[section.line.of]
     ELSE <<WithoutIncludes(section)>> \o FlatMap(Searched(section), Put(expanded))]

\* An Include line names a file.
LEMMA IncludeOf == ASSUME NEW line \in Lines, IsInclude(line) PROVE line.of \in {2, 3}
BY ConfigAssumption DEF Lines, Includes

\* What Put gives.
LEMMA PutIs ==
  ASSUME NEW expanded \in Expanded
  PROVE  /\ Put(expanded) \in Lister(Lines, Sections)
         /\ \A line \in Lines : /\ IsInclude(line) => Put(expanded)[line] = expanded[line.of]
                                /\ ~IsInclude(line) => Put(expanded)[line] = <<>>
<1>1. \A line \in Lines : IsInclude(line) => expanded[line.of] \in Seq(Sections)
  BY IncludeOf DEF Expanded, Configs
<1>2. \A line \in Lines : Put(expanded)[line] \in Seq(Sections)
  BY <1>1 DEF Put
<1> QED BY <1>2 DEF Put, Lister

\* What is searched is a list of lines.
LEMMA SearchedIs ==
  ASSUME NEW section \in Sections
  PROVE  /\ Searched(section) \in Seq(Lines)
         /\ IsHost(section.line) => Searched(section) = section.children
         /\ ~IsHost(section.line) => Searched(section) = <<>>
<1>1. section.children \in Seq(Lines)
  BY DEF Sections
<1> QED BY <1>1 DEF Searched

\* A section without its Include lines is a section, and its line the same.
LEMMA WithoutIs ==
  ASSUME NEW section \in Sections
  PROVE  /\ IsHost(section.line) =>
              WithoutIncludes(section) = Section(section.line, Kept(section.children, Lines \ Includes))
         /\ ~IsHost(section.line) => WithoutIncludes(section) = section
         /\ WithoutIncludes(section) \in Sections
         /\ WithoutIncludes(section).line = section.line
<1>1. section.children \in Seq(Lines) /\ section.line \in Lines /\ section = Section(section.line, section.children)
  BY DEF Sections, Section
<1> DEFINE kept == Kept(section.children, Lines \ Includes)
<1>2. kept \in Seq(Lines)
  BY <1>1, KeptPicks
<1>3. IsHost(section.line) => WithoutIncludes(section) = [section EXCEPT !.children = kept]
  BY DEF WithoutIncludes
<1> HIDE DEF kept
<1>4. [section EXCEPT !.children = kept] = Section(section.line, kept)
  BY <1>1 DEF Section
<1>5. Section(section.line, kept) \in Sections /\ Section(section.line, kept).line = section.line
  BY <1>1, <1>2 DEF Section, Sections
<1>6. CASE IsHost(section.line)
  BY <1>3, <1>4, <1>5, <1>6 DEF kept
<1>7. CASE ~IsHost(section.line)
  BY <1>7 DEF WithoutIncludes
<1> QED BY <1>6, <1>7

\* What Piece gives.
LEMMA PieceIs ==
  ASSUME NEW expanded \in Expanded
  PROVE  /\ Piece(expanded) \in Lister(Sections, Sections)
         /\ \A section \in Sections :
              /\ IsInclude(section.line) => Piece(expanded)[section] = expanded[section.line.of]
              /\ ~IsInclude(section.line) =>
                   Piece(expanded)[section]
                     = <<WithoutIncludes(section)>> \o FlatMap(Searched(section), Put(expanded))
              /\ FlatMap(Searched(section), Put(expanded)) \in Seq(Sections)
<1>1. ASSUME NEW section \in Sections
      PROVE  /\ FlatMap(Searched(section), Put(expanded)) \in Seq(Sections)
             /\ Piece(expanded)[section] \in Seq(Sections)
  <2>1. section.line \in Lines /\ Searched(section) \in Seq(Lines)
    BY SearchedIs DEF Sections
  <2>2. FlatMap(Searched(section), Put(expanded)) \in Seq(Sections)
    BY <2>1, PutIs, FlatType
  <2>3. IsInclude(section.line) => expanded[section.line.of] \in Seq(Sections)
    BY <2>1, IncludeOf DEF Expanded, Configs
  <2>4. <<WithoutIncludes(section)>> \o FlatMap(Searched(section), Put(expanded)) \in Seq(Sections)
    BY <2>2, WithoutIs
  <2> QED BY <2>2, <2>3, <2>4 DEF Piece
<1> QED BY <1>1 DEF Piece, Lister

\* What is hoisted out of a section is put in for its lines, in their order.
LEMMA HoistedIs ==
  ASSUME NEW expanded \in Expanded, NEW includes \in Seq(Lines),
         \A j \in 1..Len(includes) : IsInclude(includes[j])
  PROVE  Hoisted([j \in DOMAIN includes |-> expanded[includes[j].of]]) = FlatMap(includes, Put(expanded))
<1> DEFINE configs == [j \in DOMAIN includes |-> expanded[includes[j].of]]
           f == Put(expanded)
           L == Len(includes)
           End(i) == FlatMap(SubSeq(includes, i, L), f)
           IsHoisted(hoisted) ==
             hoisted = [k \in 0..Len(configs) |->
                          IF k = 0 THEN <<>> ELSE configs[Len(configs) - k + 1] \o hoisted[k - 1]]
<1>1. L \in Nat /\ DOMAIN includes = 1..L /\ Len(configs) = L /\ f \in Lister(Lines, Sections)
  BY PutIs
<1>2. \A j \in 1..L : includes[j] \in Lines /\ configs[j] = f[includes[j]]
  BY <1>1, PutIs
<1>3. End(L + 1) = <<>>
  <2>1. SubSeq(includes, L + 1, L) = <<>>
    BY <1>1
  <2> QED BY <1>1, <2>1, FlatEmpty
<1> HIDE DEF configs, f
<1>4. ASSUME NEW i \in 1..L PROVE End(i) = configs[i] \o End(i + 1)
  <2> DEFINE rest == SubSeq(includes, i + 1, L)
  <2>1. rest \in Seq(Lines) /\ SubSeq(includes, i, L) = <<includes[i]>> \o rest
    BY TailFrom
  <2> HIDE DEF rest
  <2> DEFINE one == <<includes[i]>>
  <2>2. one \in Seq(Lines) /\ FlatMap(one, f) = f[includes[i]]
    BY <1>1, <1>2, FlatOne
  <2> HIDE DEF one
  <2>3. FlatMap(one \o rest, f) = FlatMap(one, f) \o FlatMap(rest, f)
    BY <1>1, <2>1, <2>2, FlatConcat
  <2> QED BY <1>2, <2>1, <2>2, <2>3 DEF rest, one
<1> DEFINE b == [k \in 0..L |-> End(L - k + 1)]
<1> HIDE DEF End
<1>5. IsHoisted(b)
  <2>1. ASSUME NEW k \in 0..L
        PROVE  b[k] = IF k = 0 THEN <<>> ELSE configs[Len(configs) - k + 1] \o b[k - 1]
    <3>1. CASE k = 0
      BY <1>1, <1>3, <3>1
    <3>2. CASE k # 0
      <4>1. L - k + 1 \in 1..L /\ k - 1 \in 0..L /\ L - (k - 1) + 1 = (L - k + 1) + 1
        BY <1>1, <3>2
      <4> QED BY <1>1, <1>4, <3>2, <4>1
    <3> QED BY <3>1, <3>2
  <2>2. b = [k \in 0..L |-> b[k]]
    OBVIOUS
  <2> HIDE DEF b
  <2> QED BY <1>1, <2>1, <2>2
<1> DEFINE built == CHOOSE hoisted : IsHoisted(hoisted)
<1>6. IsHoisted(built)
  <2> HIDE DEF b
  <2> QED BY <1>5
<1>7. Hoisted(configs) = built[L]
  BY <1>1 DEF Hoisted
<1> HIDE DEF built, b
<1> DEFINE All == {k \in Nat : k <= L => built[k] = End(L - k + 1)}
<1>8. 0 \in All
  <2>1. built[0] = <<>>
    BY <1>1, <1>6
  <2>2. L - 0 + 1 = L + 1
    BY <1>1
  <2> QED BY <1>3, <2>1, <2>2
<1>9. ASSUME NEW k \in All PROVE k + 1 \in All
  <2> SUFFICES ASSUME k + 1 <= L PROVE built[k + 1] = End(L - (k + 1) + 1)
    OBVIOUS
  <2>1. /\ k \in Nat /\ k + 1 \in 0..L /\ k + 1 # 0 /\ (k + 1) - 1 = k /\ L - (k + 1) + 1 \in 1..L
        /\ (L - (k + 1) + 1) + 1 = L - k + 1 /\ built[k] = End(L - k + 1)
    BY <1>1
  <2> HIDE DEF All
  <2>2. built[k + 1] = configs[L - (k + 1) + 1] \o built[k]
    BY <1>1, <1>6, <2>1
  <2> QED BY <1>4, <2>1, <2>2
<1>10. All = Nat
  <2> HIDE DEF All
  <2>1. All \in SUBSET Nat
    BY DEF All
  <2> QED BY <1>8, <1>9, <2>1, Inductive
<1>11. built[L] = End(1)
  <2>1. L \in All /\ L - L + 1 = 1
    BY <1>1, <1>10
  <2> QED BY <2>1
<1>12. SubSeq(includes, 1, L) = includes
  BY <1>1
<1> QED BY <1>7, <1>11, <1>12 DEF End, configs, f

\* The two parts of a list.
LEMMA Parts ==
  ASSUME NEW U, NEW x \in Seq(U), NEW y \in Seq(U)
  PROVE  /\ x \o y \in Seq(U) /\ Len(x \o y) = Len(x) + Len(y)
         /\ SubSeq(x \o y, 1, Len(x)) = x
         /\ SubSeq(x \o y, Len(x) + 1, Len(x) + Len(y)) = y
<1> DEFINE z == x \o y
           a == SubSeq(z, 1, Len(x))
           b == SubSeq(z, Len(x) + 1, Len(x) + Len(y))
<1>1. /\ z \in Seq(U) /\ Len(z) = Len(x) + Len(y) /\ Len(x) \in Nat /\ Len(y) \in Nat
      /\ \A i \in 1..(Len(x) + Len(y)) : z[i] = IF i <= Len(x) THEN x[i] ELSE y[i - Len(x)]
  BY ConcatProperties
<1> HIDE DEF z
<1>2. a \in Seq(U) /\ Len(a) = Len(x) /\ \A i \in 1..Len(x) : a[i] = z[i]
  BY <1>1
<1>3. b \in Seq(U) /\ Len(b) = Len(y) /\ \A i \in 1..Len(y) : b[i] = z[Len(x) + i]
  BY <1>1
<1> HIDE DEF a, b
<1>4. \A i \in 1..Len(x) : a[i] = x[i]
  <2>1. \A i \in 1..Len(x) : i \in 1..(Len(x) + Len(y)) /\ i <= Len(x)
    BY <1>1
  <2> QED BY <1>1, <1>2, <2>1
<1>5. \A i \in 1..Len(y) : b[i] = y[i]
  <2>1. \A i \in 1..Len(y) : Len(x) + i \in 1..(Len(x) + Len(y)) /\ ~(Len(x) + i <= Len(x)) /\ (Len(x) + i) - Len(x) = i
    BY <1>1
  <2> QED BY <1>1, <1>3, <2>1
<1>6. a = x
  BY <1>2, <1>4, SeqEqual
<1>7. b = y
  BY <1>3, <1>5, SeqEqual
<1> QED BY <1>1, <1>6, <1>7 DEF a, b, z

\* A list of U with e at its place i, and one more such list.
Around(U, front, e, rest, list, i, x) ==
  /\ front \in Seq(U) /\ e \in U /\ rest \in Seq(U) /\ x \in Seq(U)
  /\ list = Append(front, e) \o rest /\ i = Len(front) + 1

\* What splice makes of a list.
Makes(list, i, deleteCount, x, result) == SpliceIn(list, i, deleteCount, x) = result

\* Instead of one element, or between two: what splice makes of a list.
LEMMA SpliceIs ==
  ASSUME NEW U, NEW front, NEW e, NEW rest, NEW list, NEW i, NEW x, Around(U, front, e, rest, list, i, x)
  PROVE  /\ Makes(list, i, 1, x, front \o (x \o rest))
         /\ Makes(list, i + 1, 0, x, front \o ((<<e>> \o x) \o rest))
<1> DEFINE one == <<e>>
           longer == Append(front, e)
           after == one \o rest
           L == Len(list)
<1>0. /\ front \in Seq(U) /\ e \in U /\ rest \in Seq(U) /\ x \in Seq(U)
      /\ list = Append(front, e) \o rest /\ i = Len(front) + 1
  BY DEF Around
<1>1. /\ one \in Seq(U) /\ Len(one) = 1 /\ longer = front \o one /\ longer \in Seq(U) /\ Len(longer) = i
      /\ list = longer \o rest
  BY <1>0
<1>2. Len(front) \in Nat /\ Len(rest) \in Nat /\ i - 1 = Len(front) /\ i \in Nat
  BY <1>0
<1> HIDE DEF one, longer
<1>3. after \in Seq(U) /\ Len(after) = 1 + Len(rest) /\ list = front \o after
  <2>1. after \in Seq(U) /\ Len(after) = 1 + Len(rest)
    BY <1>0, <1>1, Parts
  <2>2. Regroups(front, one, rest)
    BY <1>0, <1>1, Associative
  <2> QED BY <1>1, <2>1, <2>2 DEF Regroups
<1>4. SubSeq(longer \o rest, Len(longer) + 1, Len(longer) + Len(rest)) = rest /\ Len(longer \o rest) = Len(longer) + Len(rest)
      /\ SubSeq(longer \o rest, 1, Len(longer)) = longer
  <2>1. longer \in Seq(U)
    BY <1>1
  <2> QED BY <1>0, <2>1, Parts
<1>5. SubSeq(front \o after, 1, Len(front)) = front
  BY <1>0, <1>3, Parts
<1>6. L = i + Len(rest) /\ SubSeq(list, i + 1, L) = rest /\ SubSeq(list, 1, i) = longer /\ SubSeq(list, 1, i - 1) = front
  BY <1>1, <1>2, <1>3, <1>4, <1>5
<1> HIDE DEF after
<1>7. SpliceIn(list, i, 1, x) = (front \o x) \o rest
  BY <1>6 DEF SpliceIn
<1>8. SpliceIn(list, i + 1, 0, x) = (longer \o x) \o rest
  <2>1. (i + 1) - 1 = i /\ (i + 1) + 0 = i + 1
    BY <1>2
  <2>2. SpliceIn(list, i + 1, 0, x) = SubSeq(list, 1, (i + 1) - 1) \o x \o SubSeq(list, (i + 1) + 0, L)
    BY DEF SpliceIn
  <2> QED BY <1>6, <2>1, <2>2
<1>9. Regroups(front, x, rest)
  BY <1>0, Associative
<1>10. (longer \o x) \o rest = front \o ((one \o x) \o rest)
  <2>1. Regroups(front, one, x)
    BY <1>0, <1>1, Associative
  <2> DEFINE y == one \o x
  <2>2. y \in Seq(U)
    BY <1>0, <1>1, Parts
  <2> HIDE DEF y
  <2>3. Regroups(front, y, rest)
    BY <1>0, <2>2, Associative
  <2> QED BY <1>1, <2>1, <2>3 DEF y, Regroups
<1> QED BY <1>7, <1>8, <1>9, <1>10 DEF one, Makes, Regroups

\* What is put in for sections leaves no Include.
LEMMA FlatNoIncludes ==
  ASSUME NEW expanded \in Expanded, NEW config \in Configs
  PROVE  /\ FlatMap(config, Piece(expanded)) \in Configs
         /\ NoIncludes(FlatMap(config, Piece(expanded)))
<1> DEFINE f == Piece(expanded)
           q == Put(expanded)
           P == {c \in Configs : NoIncludes(FlatMap(c, f))}
           Q == {s \in Seq(Lines) : NoIncludes(FlatMap(s, q))}
<1>1. ASSUME NEW x \in Configs, NEW y \in Configs, NoIncludes(x), NoIncludes(y) PROVE NoIncludes(x \o y)
  <2>1. /\ Len(x \o y) = Len(x) + Len(y) /\ Len(x) \in Nat /\ Len(y) \in Nat
        /\ \A i \in 1..(Len(x) + Len(y)) : (x \o y)[i] = IF i <= Len(x) THEN x[i] ELSE y[i - Len(x)]
    BY ConcatProperties DEF Configs
  <2> SUFFICES ASSUME NEW i \in 1..(Len(x) + Len(y)) PROVE ~IsInclude((x \o y)[i].line)
    BY <2>1 DEF NoIncludes
  <2>2. CASE i <= Len(x)
    <3>1. i \in 1..Len(x)
      BY <2>1, <2>2
    <3> QED BY <1>1, <2>1, <2>2, <3>1 DEF NoIncludes
  <2>3. CASE ~(i <= Len(x))
    <3>1. i - Len(x) \in 1..Len(y)
      BY <2>1, <2>3
    <3> QED BY <1>1, <2>1, <2>3, <3>1 DEF NoIncludes
  <2> QED BY <2>2, <2>3
<1>2. NoIncludes(<<>>)
  BY DEF NoIncludes
<1>3. f \in Lister(Sections, Sections) /\ q \in Lister(Lines, Sections)
  BY PieceIs, PutIs
<1>4. \A line \in Lines : q[line] \in Configs /\ NoIncludes(q[line])
  <2> SUFFICES ASSUME NEW line \in Lines PROVE q[line] \in Configs /\ NoIncludes(q[line])
    OBVIOUS
  <2>1. q[line] \in Configs
    BY <1>3, ListerOf DEF Configs
  <2>2. CASE IsInclude(line)
    <3>1. q[line] = expanded[line.of] /\ line.of \in 1..3
      BY <2>2, IncludeOf, PutIs
    <3> QED BY <2>1, <3>1 DEF Expanded
  <2>3. CASE ~IsInclude(line)
    BY <1>2, <2>1, <2>3, PutIs
  <2> QED BY <2>2, <2>3
<1> HIDE DEF q
<1>5. \A s \in Seq(Lines) : s \in Q
  <2>1. <<>> \in Q
    BY <1>2, <1>3, FlatEmpty
  <2>2. ASSUME NEW s \in Q, NEW line \in Lines PROVE Append(s, line) \in Q
    <3>1. Append(s, line) \in Seq(Lines) /\ s \in Seq(Lines) /\ NoIncludes(FlatMap(s, q))
      OBVIOUS
    <3> HIDE DEF Q
    <3>2. FlatMap(Append(s, line), q) = FlatMap(s, q) \o q[line]
      BY <1>3, <3>1, FlatAppend
    <3>3. FlatMap(s, q) \in Configs
      BY <1>3, <3>1, FlatType DEF Configs
    <3> QED BY <1>1, <1>4, <3>1, <3>2, <3>3 DEF Q
  <2> HIDE DEF Q
  <2>3. Q \in SUBSET Seq(Lines)
    BY DEF Q
  <2> QED BY <2>1, <2>2, <2>3, EveryList
<1>6. \A section \in Sections : f[section] \in Configs /\ NoIncludes(f[section])
  <2> SUFFICES ASSUME NEW section \in Sections PROVE f[section] \in Configs /\ NoIncludes(f[section])
    OBVIOUS
  <2>1. f[section] \in Configs
    BY <1>3, ListerOf DEF Configs
  <2>2. CASE IsInclude(section.line)
    <3>1. section.line \in Lines
      BY DEF Sections
    <3>2. f[section] = expanded[section.line.of]
      BY <2>2, PieceIs
    <3>3. section.line.of \in 1..3
      BY <2>2, <3>1, IncludeOf
    <3> QED BY <2>1, <3>2, <3>3 DEF Expanded
  <2>3. CASE ~IsInclude(section.line)
    <3> DEFINE x == <<WithoutIncludes(section)>>
               y == FlatMap(Searched(section), q)
    <3>1. f[section] = x \o y /\ y \in Configs
      BY <2>3, PieceIs DEF q, Configs
    <3>2. x \in Configs /\ NoIncludes(x)
      BY <2>3, WithoutIs DEF NoIncludes, Configs
    <3>3. Searched(section) \in Seq(Lines)
      BY SearchedIs
    <3>4. NoIncludes(y)
      BY <1>5, <3>3
    <3> HIDE DEF x, y
    <3> QED BY <1>1, <2>1, <3>1, <3>2, <3>4
  <2> QED BY <2>2, <2>3
<1> HIDE DEF f, Q
<1>7. \A c \in Seq(Sections) : c \in P
  <2>1. <<>> \in P
    BY <1>2, <1>3, FlatEmpty DEF Configs
  <2>2. ASSUME NEW c \in P, NEW section \in Sections PROVE Append(c, section) \in P
    <3>1. Append(c, section) \in Configs /\ c \in Seq(Sections) /\ NoIncludes(FlatMap(c, f))
      BY DEF Configs
    <3> HIDE DEF P
    <3>2. FlatMap(Append(c, section), f) = FlatMap(c, f) \o f[section]
      BY <1>3, <3>1, FlatAppend
    <3>3. FlatMap(c, f) \in Configs
      BY <1>3, <3>1, FlatType DEF Configs
    <3> QED BY <1>1, <1>6, <3>1, <3>2, <3>3 DEF P
  <2> HIDE DEF P
  <2>3. P \in SUBSET Seq(Sections)
    BY DEF P, Configs
  <2> QED BY <2>1, <2>2, <2>3, EveryList
<1>8. FlatMap(config, f) \in Seq(Sections)
  BY <1>3, FlatType DEF Configs
<1> QED BY <1>7, <1>8 DEF f, Configs

\* The sections before position i as they were, and what is put in for the rest.
Before(config, i) == SubSeq([j \in DOMAIN config |-> WithoutIncludes(config[j])], 1, i - 1)
After(config, expanded, i) == FlatMap(SubSeq(config, i, Len(config)), Piece(expanded))

\* One turn of the splice loop.
LEMMA SpliceStep ==
  ASSUME NEW expanded \in Expanded, NEW config \in Configs, NEW i \in 1..Len(config)
  PROVE  PutIn(Before(config, i + 1) \o After(config, expanded, i + 1), i, config[i], expanded)
           = Before(config, i) \o After(config, expanded, i)
<1> DEFINE f == Piece(expanded)
           section == config[i]
           e == WithoutIncludes(section)
           front == Before(config, i)
           rest == After(config, expanded, i + 1)
           h == FlatMap(Searched(section), Put(expanded))
<1>1. /\ section \in Sections /\ section.line \in Lines /\ Searched(section) \in Seq(Lines)
      /\ i \in Nat /\ f \in Lister(Sections, Sections)
  <2>1. section \in Sections /\ i \in Nat
    BY DEF Configs
  <2>2. f \in Lister(Sections, Sections)
    BY PieceIs
  <2> HIDE DEF section
  <2> QED BY <2>1, <2>2, SearchedIs DEF Sections
<1>2. e \in Sections /\ e.line = section.line /\ h \in Seq(Sections)
  BY <1>1, WithoutIs, PieceIs
<1>3. front \in Seq(Sections) /\ Len(front) = i - 1 /\ Before(config, i + 1) = Append(front, e)
  <2> DEFINE base == [j \in DOMAIN config |-> WithoutIncludes(config[j])]
  <2>1. DOMAIN config = 1..Len(config) /\ Len(config) \in Nat
    BY DEF Configs
  <2>2. \A j \in 1..Len(config) : config[j] \in Sections
    BY DEF Configs
  <2>3. base \in Seq(Sections) /\ Len(base) = Len(config) /\ base[i] = e
    BY <2>1, <2>2, WithoutIs
  <2> HIDE DEF base, e
  <2>4. SubSeq(base, 1, i - 1) \in Seq(Sections) /\ Len(SubSeq(base, 1, i - 1)) = i - 1
    BY <1>1, <2>1, <2>3
  <2>5. SubSeq(base, 1, (i + 1) - 1) = Append(SubSeq(base, 1, i - 1), base[i])
    BY <1>1, <2>1, <2>3
  <2> QED BY <2>3, <2>4, <2>5 DEF Before, base
<1>4. rest \in Seq(Sections) /\ NoIncludes(rest) /\ After(config, expanded, i) = f[section] \o rest
  <2> DEFINE tail == SubSeq(config, i + 1, Len(config))
             one == <<section>>
  <2>1. tail \in Seq(Sections) /\ SubSeq(config, i, Len(config)) = one \o tail
    BY TailFrom DEF Configs
  <2>2. one \in Seq(Sections) /\ FlatMap(one, f) = f[section]
    BY <1>1, FlatOne
  <2> HIDE DEF tail, one, f
  <2>3. FlatMap(one \o tail, f) = FlatMap(one, f) \o FlatMap(tail, f)
    BY <1>1, <2>1, <2>2, FlatConcat
  <2>4. FlatMap(tail, f) \in Seq(Sections) /\ NoIncludes(FlatMap(tail, f))
    BY <2>1, FlatNoIncludes DEF f, Configs
  <2>5. rest = FlatMap(tail, f) /\ After(config, expanded, i) = FlatMap(one \o tail, f)
    BY <2>1 DEF After, tail, f
  <2> QED BY <2>2, <2>3, <2>4, <2>5
<1> DEFINE list == Append(front, e) \o rest
<1>5. /\ list[i] = e /\ i <= Len(list)
      /\ ~(i + 1 <= Len(list) /\ IsInclude(list[i + 1].line))
  <2> HIDE DEF front, e, rest
  <2> DEFINE longer == Append(front, e)
  <2>1. longer \in Seq(Sections) /\ Len(longer) = i /\ longer[i] = e
    BY <1>1, <1>2, <1>3
  <2> HIDE DEF longer
  <2>2. /\ Len(longer \o rest) = Len(longer) + Len(rest)
        /\ \A j \in 1..(Len(longer) + Len(rest)) :
             (longer \o rest)[j] = IF j <= Len(longer) THEN longer[j] ELSE rest[j - Len(longer)]
    BY <1>4, <2>1, ConcatProperties
  <2>3. Len(rest) \in Nat
    BY <1>4
  <2>4. i \in 1..(i + Len(rest)) /\ i >= 1
    BY <1>1, <2>3
  <2>5. (longer \o rest)[i] = e /\ i <= Len(longer \o rest)
    BY <2>1, <2>2, <2>3, <2>4
  <2>6. ASSUME i + 1 <= Len(longer \o rest) PROVE ~IsInclude((longer \o rest)[i + 1].line)
    <3>1. i + 1 \in 1..(i + Len(rest)) /\ ~(i + 1 <= i) /\ (i + 1) - i = 1 /\ 1 \in 1..Len(rest)
      BY <1>1, <2>1, <2>2, <2>3, <2>6
    <3>2. (longer \o rest)[i + 1] = rest[1]
      BY <2>1, <2>2, <3>1
    <3> QED BY <1>4, <3>1, <3>2 DEF NoIncludes
  <2> QED BY <2>5, <2>6 DEF longer
<1> HIDE DEF front, rest, e, h
<1>6. /\ front \in Seq(Sections) /\ rest \in Seq(Sections) /\ e \in Sections
      /\ i = Len(front) + 1
  BY <1>1, <1>2, <1>3, <1>4
<1>9. list = Append(front, e) \o rest
  OBVIOUS
<1>7. CASE IsInclude(section.line)
  <2> DEFINE x == expanded[section.line.of]
  <2>1. x \in Seq(Sections) /\ f[section] = x
    <3>1. section.line.of \in 1..3
      BY <1>1, <1>7, IncludeOf
    <3>2. f[section] = x
      BY <1>1, <1>7, PieceIs
    <3> QED BY <3>1, <3>2 DEF Expanded, Configs
  <2>2. DeleteCount(list, i) = 1
    BY <1>2, <1>5, <1>7 DEF DeleteCount
  <2>3. PutIn(list, i, section, expanded) = SpliceIn(list, i, 1, x)
    BY <1>7, <2>2 DEF PutIn
  <2> HIDE DEF x
  <2>4. SpliceIn(list, i, 1, x) = front \o (x \o rest)
    <3>1. Around(Sections, front, e, rest, list, i, x)
      BY <1>6, <1>9, <2>1 DEF Around
    <3>2. Makes(list, i, 1, x, front \o (x \o rest))
      <4> HIDE DEF list
      <4> QED BY <3>1, SpliceIs, Zenon
    <3> QED BY <3>2 DEF Makes
  <2> QED BY <1>3, <1>4, <2>1, <2>3, <2>4 DEF front, rest
<1>8. CASE ~IsInclude(section.line)
  <2> DEFINE includes == Kept(Searched(section), Includes)
             hoisted == Hoisted([j \in DOMAIN includes |-> expanded[includes[j].of]])
  <2>1. f[section] = <<e>> \o h
    BY <1>1, <1>8, PieceIs DEF e, h
  <2>2. includes \in Seq(Lines) /\ \A j \in 1..Len(includes) : IsInclude(includes[j])
    <3>1. includes \in Seq(Lines) /\ \E d : IsPicked(includes, d, Searched(section), Includes, Len(Searched(section)))
      BY <1>1, KeptPicks
    <3>2. \A j \in 1..Len(includes) : includes[j] \in Includes
      BY <3>1 DEF IsPicked
    <3> QED BY <3>1, <3>2 DEF Includes
  <2>3. hoisted = FlatMap(includes, Put(expanded))
    <3> HIDE DEF includes
    <3> QED BY <2>2, HoistedIs
  <2>4. FlatMap(includes, Put(expanded)) = h
    <3>1. Put(expanded) \in Lister(Lines, Sections)
      BY PutIs
    <3>2. \A line \in Lines : line \notin Includes => Put(expanded)[line] = <<>>
      BY PutIs DEF Includes
    <3> QED BY <1>1, <3>1, <3>2, FlatKept DEF h
  <2>5. includes = <<>> => h = <<>>
    <3>1. FlatMap(<<>>, Put(expanded)) = <<>>
      BY PutIs, FlatEmpty
    <3> QED BY <2>4, <3>1
  <2> HIDE DEF includes
  <2>6. DeleteCount(list, i + 1) = 0
    BY <1>5 DEF DeleteCount
  <2>7. PutIn(list, i, section, expanded) = IF includes # <<>> THEN SpliceIn(list, i + 1, 0, h) ELSE list
    BY <1>8, <2>3, <2>4, <2>6 DEF PutIn, includes
  <2>8. SpliceIn(list, i + 1, 0, h) = front \o ((<<e>> \o h) \o rest)
    <3>1. h \in Seq(Sections)
      BY <1>2
    <3>2. Around(Sections, front, e, rest, list, i, h)
      BY <1>6, <1>9, <3>1 DEF Around
    <3>3. Makes(list, i + 1, 0, h, front \o ((<<e>> \o h) \o rest))
      <4> HIDE DEF list
      <4> QED BY <3>2, SpliceIs, Zenon
    <3> QED BY <3>3 DEF Makes
  <2>9. list = front \o ((<<e>> \o <<>>) \o rest)
    <3> DEFINE one == <<e>>
    <3>1. one \in Seq(Sections) /\ one \o <<>> = one /\ Append(front, e) = front \o one
      BY <1>2, <1>3
    <3> HIDE DEF one
    <3>2. Regroups(front, one, rest)
      BY <1>3, <1>4, <3>1, Associative
    <3> QED BY <3>1, <3>2 DEF one, Regroups
  <2>10. PutIn(list, i, section, expanded) = front \o ((<<e>> \o h) \o rest)
    BY <2>5, <2>7, <2>8, <2>9
  <2> QED BY <1>3, <1>4, <2>1, <2>10 DEF front, rest
<1> QED BY <1>7, <1>8

\* Expansion puts the configurations in for every section, in their order.
LEMMA ExpansionIs ==
  ASSUME NEW expanded \in Expanded, NEW lines \in Seq(Lines)
  PROVE  Expansion(lines, expanded) = FlatMap(Parse(lines), Piece(expanded))
<1> DEFINE config == Parse(lines)
           L == Len(config)
           base == [j \in DOMAIN config |-> WithoutIncludes(config[j])]
           All(i) == Before(config, i) \o After(config, expanded, i)
           IsSpliced(spliced) ==
             spliced = [k \in 0..L |-> IF k = 0 THEN base
                                       ELSE PutIn(spliced[k - 1], L - k + 1, config[L - k + 1], expanded)]
<1>1. config \in Configs /\ L \in Nat
  BY ParseType DEF Configs
<1> HIDE DEF config
<1>2. All(L + 1) = base /\ All(1) = FlatMap(config, Piece(expanded))
  <2>1. DOMAIN config = 1..L /\ \A j \in 1..L : config[j] \in Sections
    BY <1>1 DEF Configs
  <2>2. base \in Seq(Sections) /\ Len(base) = L
    BY <1>1, <2>1, WithoutIs
  <2>3. SubSeq(config, L + 1, L) = <<>> /\ SubSeq(config, 1, L) = config
    BY <1>1 DEF Configs
  <2>4. FlatMap(<<>>, Piece(expanded)) = <<>>
    BY PieceIs, FlatEmpty
  <2>5. After(config, expanded, L + 1) = <<>> /\ After(config, expanded, 1) = FlatMap(config, Piece(expanded))
    BY <2>3, <2>4 DEF After
  <2>6. FlatMap(config, Piece(expanded)) \in Seq(Sections)
    BY <1>1, PieceIs, FlatType DEF Configs
  <2> HIDE DEF base
  <2>7. SubSeq(base, 1, (L + 1) - 1) = base /\ SubSeq(base, 1, 1 - 1) = <<>>
    BY <1>1, <2>2
  <2>8. Before(config, L + 1) = base /\ Before(config, 1) = <<>>
    BY <2>7 DEF Before, base
  <2>9. base \o <<>> = base /\ <<>> \o FlatMap(config, Piece(expanded)) = FlatMap(config, Piece(expanded))
    BY <2>2, <2>6
  <2> QED BY <2>5, <2>8, <2>9
<1>3. ASSUME NEW i \in 1..L PROVE PutIn(All(i + 1), i, config[i], expanded) = All(i)
  BY <1>1, SpliceStep
<1> HIDE DEF All, base
<1> DEFINE b == [k \in 0..L |-> All(L - k + 1)]
<1>4. IsSpliced(b)
  <2>1. ASSUME NEW k \in 0..L
        PROVE  b[k] = IF k = 0 THEN base ELSE PutIn(b[k - 1], L - k + 1, config[L - k + 1], expanded)
    <3>1. CASE k = 0
      BY <1>1, <1>2, <3>1
    <3>2. CASE k # 0
      <4>1. L - k + 1 \in 1..L /\ k - 1 \in 0..L /\ L - (k - 1) + 1 = (L - k + 1) + 1
        BY <1>1, <3>2
      <4> QED BY <1>1, <1>3, <3>2, <4>1
    <3> QED BY <3>1, <3>2
  <2>2. b = [k \in 0..L |-> b[k]]
    OBVIOUS
  <2> HIDE DEF b
  <2> QED BY <1>1, <2>1, <2>2
<1> DEFINE built == CHOOSE spliced : IsSpliced(spliced)
<1>5. IsSpliced(built)
  <2> HIDE DEF b
  <2> QED BY <1>4
<1>6. Expansion(lines, expanded) = built[L]
  BY DEF Expansion, config, base
<1> HIDE DEF built, b
<1> DEFINE Done == {k \in Nat : k <= L => built[k] = All(L - k + 1)}
<1>7. 0 \in Done
  <2>1. built[0] = base
    BY <1>1, <1>5
  <2>2. L - 0 + 1 = L + 1
    BY <1>1
  <2> QED BY <1>2, <2>1, <2>2
<1>8. ASSUME NEW k \in Done PROVE k + 1 \in Done
  <2> SUFFICES ASSUME k + 1 <= L PROVE built[k + 1] = All(L - (k + 1) + 1)
    OBVIOUS
  <2>1. /\ k \in Nat /\ k + 1 \in 0..L /\ k + 1 # 0 /\ (k + 1) - 1 = k /\ L - (k + 1) + 1 \in 1..L
        /\ (L - (k + 1) + 1) + 1 = L - k + 1 /\ built[k] = All(L - k + 1)
    BY <1>1
  <2> HIDE DEF Done
  <2>2. built[k + 1] = PutIn(built[k], L - (k + 1) + 1, config[L - (k + 1) + 1], expanded)
    BY <1>1, <1>5, <2>1
  <2> QED BY <1>3, <2>1, <2>2
<1>9. Done = Nat
  <2> HIDE DEF Done
  <2>1. Done \in SUBSET Nat
    BY DEF Done
  <2> QED BY <1>7, <1>8, <2>1, Inductive
<1>10. built[L] = All(1)
  <2>1. L \in Done /\ L - L + 1 = 1
    BY <1>1, <1>9
  <2> QED BY <2>1
<1> QED BY <1>2, <1>6, <1>10 DEF config

----------------------------------------------------------------------------
(* The lines that are looked at. *)

\* The last section of a configuration is open: it takes what opens none.
IsOpen(config) == config # <<>> /\ Opens(config[Len(config)].line)

\* A line that opens a section, or one when no section is open, starts one.
LEMMA StartsSection ==
  ASSUME NEW config \in Configs, NEW line \in Lines, Opens(line) \/ ~IsOpen(config)
  PROVE  ParseLine(config, line) = Append(config, Section(line, <<>>))
BY DEF ParseLine, IsOpen

\* Any other line joins the section that is open.
LEMMA JoinsSection ==
  ASSUME NEW front \in Configs, NEW last \in Sections, NEW line \in Lines, Opens(last.line), ~Opens(line)
  PROVE  ParseLine(Append(front, last), line)
           = Append(front, Section(last.line, Append(last.children, line)))
<1> DEFINE config == Append(front, last)
<1>1. config \in Configs /\ config # <<>> /\ config[Len(config)] = last
  BY LastOf DEF Configs
<1> HIDE DEF config
<1>2. PICK f \in Configs, l \in Sections :
        /\ config = Append(f, l)
        /\ ParseLine(config, line) = Append(f, Section(l.line, Append(l.children, line)))
  <2>1. \/ Opens(line) \/ config = <<>> \/ ~Opens(config[Len(config)].line)
        \/ \E f \in Configs, l \in Sections :
             /\ config = Append(f, l) /\ Opens(l.line)
             /\ ParseLine(config, line) = Append(f, Section(l.line, Append(l.children, line)))
    <3>1. config \in Configs
      BY <1>1
    <3>2. line \in Lines
      OBVIOUS
    <3> QED BY ONLY <3>1, <3>2, ParseLineIs
  <2>2. ~Opens(line) /\ config # <<>> /\ Opens(config[Len(config)].line)
    BY <1>1
  <2> QED BY <2>1, <2>2
<1>3. front \in Seq(Sections) /\ f \in Seq(Sections) /\ Append(front, last) = Append(f, l)
  BY <1>2 DEF config, Configs
<1>4. front = f /\ last = l
  BY <1>3, AppendInjective
<1> QED BY <1>2, <1>4 DEF config

\* The section that is open is the last.
LEMMA OpenIs ==
  ASSUME NEW config \in Configs, IsOpen(config)
  PROVE  \E front \in Configs, last \in Sections :
           config = Append(front, last) /\ Opens(last.line) /\ config[Len(config)] = last
<1>1. PICK front \in Configs, last \in Sections : config = Append(front, last)
  BY SequenceEmptyOrAppend DEF Configs, IsOpen
<1>2. config[Len(config)] = last
  BY <1>1, LastOf DEF Configs
<1> QED BY <1>1, <1>2 DEF IsOpen

\* Where the parser stands after some lines: the section that is open is that of the
\* last line that opens one, if there is any.
LEMMA OpenSection ==
  ASSUME NEW s \in Seq(Lines)
  PROVE  /\ IsOpen(Parse(s)) =>
              \E j \in 1..Len(s) : /\ s[j] = Parse(s)[Len(Parse(s))].line /\ Opens(s[j])
                                   /\ \A k \in (j + 1)..Len(s) : ~Opens(s[k])
         /\ ~IsOpen(Parse(s)) => \A i \in 1..Len(s) : ~Opens(s[i])
<1> DEFINE Stood(u, config) ==
             /\ IsOpen(config) =>
                  \E j \in 1..Len(u) : /\ u[j] = config[Len(config)].line /\ Opens(u[j])
                                       /\ \A k \in (j + 1)..Len(u) : ~Opens(u[k])
             /\ ~IsOpen(config) => \A i \in 1..Len(u) : ~Opens(u[i])
           P == {u \in Seq(Lines) : Stood(u, Parse(u))}
<1>1. <<>> \in P
  <2>1. ASSUME NEW u \in Seq(Lines), u = <<>> PROVE Stood(u, Parse(u))
    <3>1. ~IsOpen(Parse(u)) /\ 1..Len(u) = {}
      BY <2>1, ParseEmpty DEF IsOpen
    <3> QED BY <3>1
  <2>2. <<>> \in Seq(Lines)
    OBVIOUS
  <2> HIDE DEF Stood
  <2> QED BY <2>1, <2>2
<1>2. ASSUME NEW u \in P, NEW line \in Lines PROVE Append(u, line) \in P
  <2> DEFINE v == Append(u, line)
             config == Parse(u)
             new == ParseLine(config, line)
  <2>1. u \in Seq(Lines) /\ Stood(u, config)
    OBVIOUS
  <2>2. config \in Configs /\ Parse(v) = new
    BY <2>1, ParseAppend
  <2>3. /\ v \in Seq(Lines) /\ Len(v) = Len(u) + 1 /\ v[Len(u) + 1] = line /\ Len(u) \in Nat
        /\ \A i \in 1..Len(u) : v[i] = u[i]
        /\ \A i \in 1..Len(v) : i \in 1..Len(u) \/ i = Len(u) + 1
    BY <2>1, LastOf
  <2> HIDE DEF P, config, v
  <2>4. CASE Opens(line) \/ ~IsOpen(config)
    <3> DEFINE section == Section(line, <<>>)
    <3>1. section \in Sections /\ section.line = line
      BY DEF Section, Sections
    <3>2. new = Append(config, section)
      BY <2>2, <2>4, StartsSection
    <3> HIDE DEF section
    <3>3. new # <<>> /\ new[Len(new)].line = line
      BY <2>2, <3>1, <3>2, LastOf DEF Configs
    <3> HIDE DEF new
    <3>4. IsOpen(new) <=> Opens(line)
      BY <3>3 DEF IsOpen
    <3>5. ASSUME Opens(line)
          PROVE  \E j \in 1..Len(v) : /\ v[j] = new[Len(new)].line /\ Opens(v[j])
                                      /\ \A k \in (j + 1)..Len(v) : ~Opens(v[k])
      <4>1. Len(v) \in 1..Len(v) /\ (Len(v) + 1)..Len(v) = {}
        BY <2>3
      <4> QED BY <2>3, <3>3, <3>5, <4>1
    <3>6. ASSUME ~Opens(line) PROVE \A i \in 1..Len(v) : ~Opens(v[i])
      <4>1. \A i \in 1..Len(u) : ~Opens(u[i])
        BY <2>1, <2>4, <3>6
      <4> QED BY <2>3, <3>6, <4>1
    <3>7. Stood(v, new)
      BY <3>4, <3>5, <3>6
    <3> HIDE DEF Stood
    <3> QED BY <2>2, <2>3, <3>7 DEF P, v
  <2>5. CASE ~Opens(line) /\ IsOpen(config)
    <3>1. PICK front \in Configs, last \in Sections :
            config = Append(front, last) /\ Opens(last.line) /\ config[Len(config)] = last
      BY <2>2, <2>5, OpenIs
    <3> DEFINE more == Section(last.line, Append(last.children, line))
    <3>2. more \in Sections /\ more.line = last.line
      BY DEF Section, Sections
    <3>3. new = Append(front, more)
      BY <2>5, <3>1, JoinsSection
    <3> HIDE DEF more, new
    <3>4. new # <<>> /\ new[Len(new)].line = last.line
      BY <3>2, <3>3, LastOf DEF Configs
    <3>5. IsOpen(new)
      BY <3>1, <3>4 DEF IsOpen
    <3>6. PICK j \in 1..Len(u) : /\ u[j] = last.line /\ Opens(u[j])
                                 /\ \A k \in (j + 1)..Len(u) : ~Opens(u[k])
      BY <2>1, <2>5, <3>1
    <3>7. /\ j \in 1..Len(v) /\ v[j] = u[j]
          /\ \A k \in (j + 1)..Len(v) : ~Opens(v[k])
      <4>1. j \in 1..Len(v) /\ v[j] = u[j]
        BY <2>3
      <4>2. ASSUME NEW k \in (j + 1)..Len(v) PROVE ~Opens(v[k])
        <5>1. k \in (j + 1)..Len(u) \/ k = Len(u) + 1
          BY <2>3
        <5>2. CASE k \in (j + 1)..Len(u)
          <6>1. k \in 1..Len(u)
            BY <5>2
          <6> QED BY <2>3, <3>6, <5>2, <6>1
        <5> QED BY <2>3, <2>5, <5>1, <5>2
      <4> QED BY <4>1, <4>2
    <3>8. Stood(v, new)
      BY <3>4, <3>5, <3>6, <3>7
    <3> HIDE DEF Stood
    <3> QED BY <2>2, <2>3, <3>8 DEF P, v
  <2> QED BY <2>4, <2>5
<1>3. s \in P
  <2> HIDE DEF P
  <2>1. P \in SUBSET Seq(Lines)
    BY DEF P
  <2> QED BY <1>1, <1>2, <2>1, EveryList
<1> QED BY <1>3

\* Which Include lines are looked at does not depend on what follows.
LEMMA ResolvedBefore ==
  ASSUME NEW s \in Seq(Lines), NEW line \in Lines, NEW i \in 1..Len(s)
  PROVE  Resolved(Append(s, line), i) <=> Resolved(s, i)
<1> DEFINE t == Append(s, line)
<1>1. \A j \in 1..Len(s) : t[j] = s[j]
  BY LastOf
<1>2. \A j \in 1..i : j \in 1..Len(s)
  OBVIOUS
<1>3. \A j \in 1..i : t[j] = s[j]
  BY <1>1, <1>2
<1> HIDE DEF t
<1>4. i \in 1..i /\ \A j \in 1..(i - 1) : j \in 1..i /\ \A k \in (j + 1)..(i - 1) : k \in 1..i
  OBVIOUS
<1>5. BelowMatch(t, i) <=> BelowMatch(s, i)
  BY <1>3, <1>4 DEF BelowMatch
<1>6. t[i] = s[i]
  BY <1>3, <1>4
<1> QED BY <1>5, <1>6 DEF Resolved, t

\* An Include is looked at unless the section that is open is that of a Match line.
LEMMA ResolvedIf ==
  ASSUME NEW s \in Seq(Lines), NEW line \in Lines
  PROVE  Resolved(Append(s, line), Len(s) + 1) <=>
           IsInclude(line) /\ (IsOpen(Parse(s)) => IsHost(Parse(s)[Len(Parse(s))].line))
<1> DEFINE t == Append(s, line)
           config == Parse(s)
           last == config[Len(config)].line
<1>1. /\ t[Len(s) + 1] = line /\ Len(s) \in Nat /\ (Len(s) + 1) - 1 = Len(s)
      /\ \A i \in 1..Len(s) : t[i] = s[i]
  BY LastOf
<1>2. /\ IsOpen(config) =>
           \E j \in 1..Len(s) : /\ s[j] = last /\ Opens(s[j])
                                /\ \A k \in (j + 1)..Len(s) : ~Opens(s[k])
      /\ ~IsOpen(config) => \A i \in 1..Len(s) : ~Opens(s[i])
  BY OpenSection
<1> HIDE DEF t, config, last
<1> SUFFICES BelowMatch(t, Len(s) + 1) <=> IsOpen(config) /\ ~IsHost(last)
  BY <1>1 DEF Resolved, t, config, last
<1>3. \A j \in 1..Len(s) : \A k \in (j + 1)..Len(s) : k \in 1..Len(s)
  OBVIOUS
<1>4. BelowMatch(t, Len(s) + 1) <=>
        \E j \in 1..Len(s) : s[j].kind = "match" /\ \A k \in (j + 1)..Len(s) : ~Opens(s[k])
  BY <1>1, <1>3 DEF BelowMatch
<1>5. CASE ~IsOpen(config)
  <2>1. \A j \in 1..Len(s) : s[j].kind # "match"
    BY <1>2, <1>5 DEF Opens
  <2> QED BY <1>4, <1>5, <2>1
<1>6. CASE IsOpen(config)
  <2>1. PICK j \in 1..Len(s) : s[j] = last /\ Opens(s[j]) /\ \A k \in (j + 1)..Len(s) : ~Opens(s[k])
    BY <1>2, <1>6
  <2>2. IsHost(last) <=> s[j].kind # "match"
    BY <2>1 DEF Opens, IsHost
  <2>3. ASSUME NEW i \in 1..Len(s), s[i].kind = "match", \A k \in (i + 1)..Len(s) : ~Opens(s[k])
        PROVE  i = j
    <3>1. Opens(s[i])
      BY <2>3 DEF Opens
    <3>2. ~(i \in (j + 1)..Len(s)) /\ ~(j \in (i + 1)..Len(s))
      BY <2>1, <2>3, <3>1
    <3> QED BY <3>2
  <2>4. BelowMatch(t, Len(s) + 1) <=> s[j].kind = "match"
    BY <1>4, <2>1, <2>3
  <2> QED BY <1>6, <2>2, <2>4
<1> QED BY <1>5, <1>6

\* The lines that line i stands for.
Stands(lines, i, text) == IF Resolved(lines, i) THEN text[lines[i].of] ELSE <<lines[i]>>

\* They are lines.
LEMMA StandsIs ==
  ASSUME NEW text \in [1..3 -> Seq(Lines)], NEW lines \in Seq(Lines), NEW i \in 1..Len(lines)
  PROVE  Stands(lines, i, text) \in Seq(Lines)
<1>1. lines[i] \in Lines
  OBVIOUS
<1>2. Resolved(lines, i) => lines[i].of \in 1..3
  BY <1>1, IncludeOf DEF Resolved
<1>3. <<lines[i]>> \in Seq(Lines)
  BY <1>1
<1> QED BY <1>2, <1>3 DEF Stands

\* The steps of Reading.
ReadSteps(lines, text) ==
  [y \in Seq(Lines) \X (1..Len(lines)) |-> y[1] \o Stands(lines, y[2], text)]

\* What one step of the reading gives.
LEMMA ReadStep ==
  ASSUME NEW text \in [1..3 -> Seq(Lines)], NEW lines \in Seq(Lines), NEW x \in Seq(Lines),
         NEW m \in 1..Len(lines)
  PROVE  /\ ReadSteps(lines, text)[<<x, m>>] = x \o Stands(lines, m, text)
         /\ ReadSteps(lines, text)[<<x, m>>] \in Seq(Lines)
<1>1. <<x, m>> \in Seq(Lines) \X (1..Len(lines)) /\ <<x, m>>[1] = x /\ <<x, m>>[2] = m
  OBVIOUS
<1>2. ReadSteps(lines, text)[<<x, m>>] = x \o Stands(lines, m, text)
  BY <1>1 DEF ReadSteps
<1>3. Stands(lines, m, text) \in Seq(Lines)
  BY StandsIs
<1> QED BY <1>2, <1>3

\* Reading by the function it is built with.
LEMMA ReadingFunction ==
  ASSUME NEW text \in [1..3 -> Seq(Lines)], NEW lines \in Seq(Lines)
  PROVE  \E read \in Recursive(Seq(Lines), <<>>, Len(lines), ReadSteps(lines, text)) :
           Reading(lines, text) = read[Len(lines)]
<1> DEFINE S == Seq(Lines)
           L == Len(lines)
           g == ReadSteps(lines, text)
           IsRead(read) == read = [n \in 0..L |-> IF n = 0 THEN <<>>
                                                  ELSE read[n - 1] \o Stands(lines, n, text)]
<1>1. L \in Nat /\ <<>> \in S
  OBVIOUS
<1>2. \A x \in S : \A m \in 1..L : g[<<x, m>>] = x \o Stands(lines, m, text) /\ g[<<x, m>>] \in S
  BY ReadStep
<1> HIDE DEF g
<1>3. Closed(S, L, g)
  BY <1>2 DEF Closed
<1>4. \E b : b \in Recursive(S, <<>>, L, g)
  <2> HIDE DEF S, L
  <2> QED BY <1>1, <1>3, Recursion
<1>5. PICK b \in [0..L -> S] : b[0] = <<>> /\ \A m \in 1..L : b[m] = g[<<b[m - 1], m>>]
  BY <1>4 DEF Recursive
<1>6. IsRead(b)
  <2>1. \A n \in 0..L : n = 0 \/ (n # 0 /\ n \in 1..L /\ n - 1 \in 0..L)
    BY <1>1
  <2>2. ASSUME NEW n \in 0..L PROVE b[n] = IF n = 0 THEN <<>> ELSE b[n - 1] \o Stands(lines, n, text)
    <3>1. CASE n = 0
      BY <1>5, <3>1
    <3>2. CASE n # 0
      <4>1. n \in 1..L /\ b[n - 1] \in S
        BY <1>5, <2>1, <3>2
      <4> HIDE DEF S, L
      <4> QED BY <1>2, <1>5, <3>2, <4>1
    <3> QED BY <3>1, <3>2
  <2> HIDE DEF S, L
  <2>3. b = [n \in 0..L |-> b[n]]
    BY <1>5
  <2> QED BY <2>2, <2>3
<1> DEFINE built == CHOOSE read : IsRead(read)
<1>7. IsRead(built)
  BY <1>6
<1>8. Reading(lines, text) = built[L]
  BY DEF Reading, Stands
<1> HIDE DEF built
<1>9. built[0] = <<>> /\ built = [n \in 0..L |-> built[n]]
  BY <1>1, <1>7
<1>10. ASSUME NEW m \in 1..L, built[m - 1] \in S PROVE built[m] = g[<<built[m - 1], m>>]
  <2>1. m \in 0..L /\ m # 0
    BY <1>1
  <2>2. built[m] = built[m - 1] \o Stands(lines, m, text)
    BY <1>7, <2>1
  <2> HIDE DEF S, L
  <2> QED BY <1>2, <1>10, <2>2
<1>11. built \in Recursive(S, <<>>, L, g)
  <2> HIDE DEF S, L
  <2> QED BY <1>1, <1>3, <1>9, <1>10, Built
<1> QED BY <1>8, <1>11 DEF g

\* Of no lines nothing is read.
LEMMA ReadingEmpty ==
  ASSUME NEW text \in [1..3 -> Seq(Lines)]
  PROVE  Reading(<<>>, text) = <<>>
<1>1. ASSUME NEW s \in Seq(Lines), Len(s) = 0 PROVE Reading(s, text) = <<>>
  <2>1. PICK read \in Recursive(Seq(Lines), <<>>, Len(s), ReadSteps(s, text)) : Reading(s, text) = read[Len(s)]
    BY ReadingFunction
  <2>2. read[0] = <<>>
    BY <2>1 DEF Recursive
  <2> QED BY <1>1, <2>1, <2>2
<1>2. <<>> \in Seq(Lines) /\ Len(<<>>) = 0
  OBVIOUS
<1> QED BY <1>1, <1>2

\* One more line adds what it stands for.
LEMMA ReadingAppend ==
  ASSUME NEW text \in [1..3 -> Seq(Lines)], NEW s \in Seq(Lines), NEW line \in Lines
  PROVE  /\ Reading(s, text) \in Seq(Lines)
         /\ Reading(Append(s, line), text)
              = Reading(s, text) \o Stands(Append(s, line), Len(s) + 1, text)
<1> DEFINE t == Append(s, line)
           L == Len(s)
<1>1. /\ t \in Seq(Lines) /\ Len(t) = L + 1 /\ L \in Nat /\ L + 1 \in Nat
      /\ \A m \in 1..L : t[m] = s[m]
  OBVIOUS
<1>a. \A m \in 1..L : Resolved(t, m) <=> Resolved(s, m)
  BY ResolvedBefore
<1> HIDE DEF t
<1>2. PICK a \in Recursive(Seq(Lines), <<>>, L, ReadSteps(s, text)) : Reading(s, text) = a[L]
  BY ReadingFunction
<1>3. PICK b \in Recursive(Seq(Lines), <<>>, Len(t), ReadSteps(t, text)) : Reading(t, text) = b[Len(t)]
  BY <1>1, ReadingFunction
<1>4. ASSUME NEW x \in Seq(Lines), NEW m \in 1..L PROVE ReadSteps(s, text)[<<x, m>>] = ReadSteps(t, text)[<<x, m>>]
  <2>1. m \in 1..Len(t) /\ t[m] = s[m] /\ (Resolved(t, m) <=> Resolved(s, m))
    BY <1>1, <1>a
  <2>2. Stands(s, m, text) = Stands(t, m, text)
    BY <2>1 DEF Stands
  <2>3. ReadSteps(s, text)[<<x, m>>] = x \o Stands(s, m, text)
    BY ReadStep
  <2>4. ReadSteps(t, text)[<<x, m>>] = x \o Stands(t, m, text)
    BY <1>1, <2>1, ReadStep
  <2> QED BY <2>2, <2>3, <2>4
<1>5. a[L] = b[L]
  <2> DEFINE M == Len(t)
             g == ReadSteps(s, text)
             h == ReadSteps(t, text)
             base == <<>>
             S == Seq(Lines)
  <2>1. Agree(S, L, g, h)
    BY <1>4 DEF Agree
  <2>2. /\ base \in S /\ L \in Nat /\ M \in Nat /\ L <= M
        /\ a \in Recursive(S, base, L, g) /\ b \in Recursive(S, base, M, h)
    BY <1>1, <1>2, <1>3
  <2> HIDE DEF M, g, h, base, L, S
  <2> QED BY <2>1, <2>2, SameSteps
<1>6. b[L + 1] = ReadSteps(t, text)[<<b[L], L + 1>>] /\ b[L] \in Seq(Lines)
  <2>1. L + 1 \in 1..Len(t) /\ (L + 1) - 1 = L /\ L \in 0..Len(t)
    BY <1>1
  <2> QED BY <1>3, <2>1 DEF Recursive
<1>7. b[L + 1] = b[L] \o Stands(t, L + 1, text)
  <2> DEFINE x == b[L]
  <2> HIDE DEF x
  <2>1. x \in Seq(Lines) /\ b[L + 1] = ReadSteps(t, text)[<<x, L + 1>>]
    BY <1>6 DEF x
  <2>2. L + 1 \in 1..Len(t)
    BY <1>1
  <2>3. ReadSteps(t, text)[<<x, L + 1>>] = x \o Stands(t, L + 1, text)
    BY <1>1, <2>1, <2>2, ReadStep
  <2> QED BY <2>1, <2>3 DEF x
<1> QED BY <1>1, <1>2, <1>3, <1>5, <1>6, <1>7 DEF t

\* Lists of lines without an Include.
IsClean(lines) == \A i \in 1..Len(lines) : ~IsInclude(lines[i])

\* What is put in for a section in which no Include is looked at is the section itself.
LEMMA CleanPiece ==
  ASSUME NEW expanded \in Expanded, NEW section \in Sections, ~IsInclude(section.line),
         IsClean(Searched(section))
  PROVE  Piece(expanded)[section] = <<section>>
<1> DEFINE children == Searched(section)
           q == Put(expanded)
           none == [line \in Lines |-> <<>>]
           all == Pick(Lines, Lines \ Includes)
           one == [line \in Lines |-> <<line>>]
           P == {s \in Seq(Lines) : FlatMap(s, none) = <<>> /\ FlatMap(s, one) = s}
<1>1. children \in Seq(Lines) /\ section.line \in Lines
      /\ (IsHost(section.line) => section = Section(section.line, children))
  <2>1. section.line \in Lines /\ section = Section(section.line, section.children)
    BY DEF Sections, Section
  <2> QED BY <2>1, SearchedIs
<1>2. none \in Lister(Lines, Sections) /\ one \in Lister(Lines, Lines) /\ q \in Lister(Lines, Sections)
      /\ all \in Lister(Lines, Lines)
  <2>1. q \in Lister(Lines, Sections)
    BY PutIs
  <2>2. all \in Lister(Lines, Lines)
    BY <1>1, KeptFlat
  <2>3. none \in Lister(Lines, Sections)
    BY DEF Lister
  <2>4. one \in Lister(Lines, Lines)
    BY DEF Lister
  <2> QED BY <2>1, <2>2, <2>3, <2>4
<1>3. \A i \in 1..Len(children) : children[i] \in Lines /\ ~IsInclude(children[i])
  <2>1. \A i \in 1..Len(children) : children[i] \in Lines
    BY <1>1
  <2> QED BY <2>1 DEF IsClean
<1>4. \A i \in 1..Len(children) : q[children[i]] = none[children[i]]
  BY <1>3, PutIs
<1>5. \A i \in 1..Len(children) : all[children[i]] = one[children[i]]
  BY <1>3 DEF Pick, Includes
<1>6. \A line \in Lines : none[line] = <<>> /\ one[line] = <<line>>
  OBVIOUS
<1> HIDE DEF children, q, none, all, one
<1>7. FlatMap(children, q) = FlatMap(children, none)
  BY <1>1, <1>2, <1>4, FlatSame
<1>8. FlatMap(children, all) = FlatMap(children, one)
  BY <1>1, <1>2, <1>5, FlatSame
<1>9. FlatMap(children, none) = <<>> /\ FlatMap(children, one) = children
  <2>1. <<>> \in P
    <3>1. FlatMap(<<>>, none) = <<>> /\ FlatMap(<<>>, one) = <<>>
      BY <1>2, FlatEmpty
    <3> QED BY <3>1
  <2>2. ASSUME NEW s \in P, NEW line \in Lines PROVE Append(s, line) \in P
    <3>0. s \in Seq(Lines)
      OBVIOUS
    <3>1. s \in Seq(Lines) /\ Append(s, line) \in Seq(Lines) /\ FlatMap(s, none) = <<>> /\ FlatMap(s, one) = s
      OBVIOUS
    <3> HIDE DEF P
    <3>2. FlatMap(Append(s, line), none) = FlatMap(s, none) \o none[line]
      BY <1>2, <3>0, FlatAppend
    <3>3. FlatMap(Append(s, line), one) = FlatMap(s, one) \o one[line]
      BY <1>2, <3>0, FlatAppend
    <3>4. s \o <<line>> = Append(s, line) /\ <<>> \o <<>> = <<>>
      BY <3>1
    <3>5. FlatMap(Append(s, line), none) = <<>> /\ FlatMap(Append(s, line), one) = Append(s, line)
      BY <1>6, <3>1, <3>2, <3>3, <3>4
    <3> QED BY <3>1, <3>5 DEF P
  <2> HIDE DEF P
  <2>3. P \in SUBSET Seq(Lines)
    BY DEF P
  <2>4. children \in P
    BY <1>1, <2>1, <2>2, <2>3, EveryList
  <2> QED BY <2>4 DEF P
<1>10. Kept(children, Lines \ Includes) = children
  <2>1. Kept(children, Lines \ Includes) = FlatMap(children, all)
    BY <1>1, KeptFlat DEF all
  <2> QED BY <1>8, <1>9, <2>1
<1>11. WithoutIncludes(section) = section
  <2>1. CASE IsHost(section.line)
    <3>1. WithoutIncludes(section) = Section(section.line, Kept(children, Lines \ Includes))
      BY <2>1, WithoutIs, SearchedIs DEF children
    <3> QED BY <1>1, <1>10, <2>1, <3>1
  <2>2. CASE ~IsHost(section.line)
    BY <2>2, WithoutIs
  <2> QED BY <2>1, <2>2
<1>12. Piece(expanded)[section] = <<WithoutIncludes(section)>> \o FlatMap(Searched(section), Put(expanded))
  BY PieceIs
<1>13. <<section>> \o <<>> = <<section>>
  OBVIOUS
<1> QED BY <1>7, <1>9, <1>11, <1>12, <1>13 DEF children, q

\* An Include that joins the section of a Host line adds its file to what is put in for it.
LEMMA IncludePiece ==
  ASSUME NEW expanded \in Expanded, NEW last \in Sections, IsHost(last.line),
         NEW line \in Lines, IsInclude(line)
  PROVE  LET more == Section(last.line, Append(last.children, line))
         IN  /\ more \in Sections
             /\ Piece(expanded)[more] = Piece(expanded)[last] \o expanded[line.of]
<1> DEFINE more == Section(last.line, Append(last.children, line))
           children == last.children
           q == Put(expanded)
           S == Lines \ Includes
           add == <<line>>
<1>1. children \in Seq(Lines) /\ last.line \in Lines /\ add \in Seq(Lines) /\ Append(children, line) = children \o add
      /\ Append(children, line) \in Seq(Lines)
  BY DEF Sections
<1>2. more \in Sections /\ more.line = last.line /\ more.children = Append(children, line)
  BY <1>1 DEF Section, Sections
<1>10. Searched(more) = more.children /\ Searched(last) = children /\ ~IsInclude(last.line) /\ IsHost(more.line)
  BY <1>2 DEF Searched, IsHost, IsInclude
<1> HIDE DEF more, children
<1>3. q \in Lister(Lines, Sections) /\ q[line] = expanded[line.of]
  BY PutIs
<1>4. FlatMap(Append(children, line), q) = FlatMap(children, q) \o q[line]
  <2> HIDE DEF q
  <2>1. children \in Seq(Lines) /\ q \in Lister(Lines, Sections)
    BY <1>1, <1>3
  <2> QED BY <2>1, FlatAppend
<1>5. Kept(Append(children, line), S) = Kept(children, S)
  <2>1. Kept(children \o add, S) = Kept(children, S) \o Kept(add, S)
    <3> HIDE DEF add, S
    <3> QED BY <1>1, KeptConcat
  <2>2. Kept(add, S) = <<>>
    <3> DEFINE p == Pick(Lines, S)
    <3>1. p \in Lister(Lines, Lines) /\ Kept(add, S) = FlatMap(add, p)
      BY <1>1, KeptFlat
    <3>2. p[line] = <<>>
      BY DEF Pick, Includes
    <3> HIDE DEF p
    <3>3. FlatMap(<<line>>, p) = p[line]
      BY <3>1, FlatOne
    <3> QED BY <3>1, <3>2, <3>3
  <2>3. Kept(children, S) \in Seq(Lines)
    BY <1>1, KeptPicks
  <2>4. Kept(children, S) \o <<>> = Kept(children, S)
    BY <2>3
  <2> QED BY <1>1, <2>1, <2>2, <2>4
<1>6. WithoutIncludes(more) = WithoutIncludes(last)
  <2>1. WithoutIncludes(more) = Section(more.line, Kept(more.children, Lines \ Includes))
    BY <1>2, <1>10, WithoutIs
  <2>2. WithoutIncludes(last) = Section(last.line, Kept(last.children, Lines \ Includes))
    BY <1>10, WithoutIs
  <2> QED BY <1>2, <1>5, <2>1, <2>2 DEF children
<1>7. Piece(expanded)[more] = <<WithoutIncludes(more)>> \o FlatMap(more.children, q)
  BY <1>2, <1>10, PieceIs
<1>8. Piece(expanded)[last] = <<WithoutIncludes(last)>> \o FlatMap(children, q)
  BY <1>10, PieceIs
<1>9. (<<WithoutIncludes(last)>> \o FlatMap(children, q)) \o q[line]
        = <<WithoutIncludes(last)>> \o (FlatMap(children, q) \o q[line])
  <2> DEFINE x == <<WithoutIncludes(last)>>
             y == FlatMap(children, q)
             z == q[line]
  <2>1. x \in Seq(Sections)
    BY WithoutIs
  <2>2. y \in Seq(Sections) /\ z \in Seq(Sections)
    BY <1>1, <1>3, FlatType, ListerOf
  <2> HIDE DEF x, y, z
  <2>3. Regroups(x, y, z)
    BY <2>1, <2>2, Associative
  <2> QED BY <2>3 DEF x, y, z, Regroups
<1> QED BY <1>2, <1>3, <1>4, <1>6, <1>7, <1>8, <1>9 DEF more

\* The section that a line starts.
LEMMA NewSection ==
  ASSUME NEW expanded \in Expanded, NEW line \in Lines
  PROVE  /\ Section(line, <<>>) \in Sections /\ Section(line, <<>>).line = line
         /\ Section(line, <<>>).children = <<>> /\ IsClean(Searched(Section(line, <<>>)))
         /\ IsInclude(line) => Piece(expanded)[Section(line, <<>>)] = expanded[line.of]
         /\ ~IsInclude(line) => Piece(expanded)[Section(line, <<>>)] = <<Section(line, <<>>)>>
<1> DEFINE section == Section(line, <<>>)
<1>1. section \in Sections /\ section.line = line /\ section.children = <<>>
  BY DEF Section, Sections
<1>2. IsClean(section.children) /\ IsClean(Searched(section))
  BY <1>1 DEF IsClean, Searched
<1> HIDE DEF section
<1>3. IsInclude(line) => Piece(expanded)[section] = expanded[line.of]
  BY <1>1, PieceIs
<1>4. ~IsInclude(line) => Piece(expanded)[section] = <<section>>
  BY <1>1, <1>2, CleanPiece
<1> QED BY <1>1, <1>2, <1>3, <1>4 DEF section

----------------------------------------------------------------------------
(* The hosts that are offered. *)

\* What NamesOf gives.
LEMMA NamesOfIs ==
  NamesOf \in Lister(Lines, Aliases) /\ \A line \in Lines : NamesOf[line] = line.names
<1>1. \A line \in Lines : line.names \in Seq(Aliases)
  BY ConfigAssumption
<1> QED BY <1>1 DEF NamesOf, Lister

\* The lines that the sections are of.
LinesOf(config) == [i \in DOMAIN config |-> config[i].line]

\* They are lines, and of no sections, of one and of two lists there are as many.
LEMMA LinesOfIs ==
  /\ \A config \in Configs : LinesOf(config) \in Seq(Lines) /\ Written(config) = FlatMap(LinesOf(config), NamesOf)
  /\ LinesOf(<<>>) = <<>>
  /\ \A section \in Sections : LinesOf(<<section>>) = <<section.line>>
  /\ \A x, y \in Configs : LinesOf(x \o y) = LinesOf(x) \o LinesOf(y)
<1>1. \A section \in Sections : section.line \in Lines
  BY DEF Sections
<1>2. ASSUME NEW config \in Configs
      PROVE  /\ LinesOf(config) \in Seq(Lines) /\ Len(LinesOf(config)) = Len(config)
             /\ \A i \in 1..Len(config) : LinesOf(config)[i] = config[i].line
  <2>1. DOMAIN config = 1..Len(config) /\ Len(config) \in Nat /\ \A i \in 1..Len(config) : config[i] \in Sections
    BY DEF Configs
  <2>2. \A i \in 1..Len(config) : config[i].line \in Lines
    BY <1>1, <2>1
  <2> QED BY <2>1, <2>2 DEF LinesOf
<1>3. LinesOf(<<>>) = <<>>
  <2>1. DOMAIN <<>> = {}
    OBVIOUS
  <2>2. [i \in {} |-> <<>>[i].line] = <<>>
    OBVIOUS
  <2> QED BY <2>1, <2>2 DEF LinesOf
<1>4. ASSUME NEW section \in Sections PROVE LinesOf(<<section>>) = <<section.line>>
  <2> DEFINE x == <<section>>
             y == <<section.line>>
  <2>1. x \in Configs /\ Len(x) = 1 /\ x[1] = section
    BY DEF Configs
  <2>2. y \in Seq(Lines) /\ Len(y) = 1 /\ y[1] = section.line
    BY <1>1
  <2> HIDE DEF x, y
  <2>3. LinesOf(x) \in Seq(Lines) /\ Len(LinesOf(x)) = 1 /\ LinesOf(x)[1] = section.line
    BY <1>2, <2>1
  <2>4. \A i \in 1..1 : LinesOf(x)[i] = y[i]
    BY <2>2, <2>3
  <2>5. LinesOf(x) = y
    BY <2>2, <2>3, <2>4, SeqEqual
  <2> QED BY <2>5 DEF x, y
<1>5. ASSUME NEW x \in Configs, NEW y \in Configs PROVE LinesOf(x \o y) = LinesOf(x) \o LinesOf(y)
  <2> DEFINE z == x \o y
             a == LinesOf(x)
             b == LinesOf(y)
             c == LinesOf(z)
  <2>1. /\ z \in Configs /\ Len(z) = Len(x) + Len(y) /\ Len(x) \in Nat /\ Len(y) \in Nat
        /\ \A i \in 1..(Len(x) + Len(y)) : z[i] = IF i <= Len(x) THEN x[i] ELSE y[i - Len(x)]
    BY ConcatProperties DEF Configs
  <2>2. /\ a \in Seq(Lines) /\ Len(a) = Len(x) /\ \A i \in 1..Len(x) : a[i] = x[i].line
        /\ b \in Seq(Lines) /\ Len(b) = Len(y) /\ \A i \in 1..Len(y) : b[i] = y[i].line
    BY <1>2
  <2> HIDE DEF z
  <2>3. c \in Seq(Lines) /\ Len(c) = Len(z) /\ \A i \in 1..Len(z) : c[i] = z[i].line
    BY <1>2, <2>1
  <2> HIDE DEF a, b, c
  <2>4. /\ a \o b \in Seq(Lines) /\ Len(a \o b) = Len(x) + Len(y)
        /\ \A i \in 1..(Len(x) + Len(y)) : (a \o b)[i] = IF i <= Len(x) THEN a[i] ELSE b[i - Len(x)]
    <3>1. /\ a \o b \in Seq(Lines) /\ Len(a \o b) = Len(a) + Len(b)
          /\ \A i \in 1..(Len(a) + Len(b)) : (a \o b)[i] = IF i <= Len(a) THEN a[i] ELSE b[i - Len(a)]
      <4>1. a \in Seq(Lines) /\ b \in Seq(Lines)
        BY <2>2
      <4> QED BY ONLY <4>1, ConcatProperties
    <3> QED BY <2>2, <3>1
  <2>5. ASSUME NEW i \in 1..(Len(x) + Len(y)) PROVE c[i] = (a \o b)[i]
    <3>1. CASE i <= Len(x)
      <4>1. i \in 1..Len(x)
        BY <3>1
      <4> QED BY <2>1, <2>2, <2>3, <2>4, <3>1, <4>1
    <3>2. CASE ~(i <= Len(x))
      <4>1. i - Len(x) \in 1..Len(y)
        BY <2>1, <3>2
      <4> QED BY <2>1, <2>2, <2>3, <2>4, <3>2, <4>1
    <3> QED BY <3>1, <3>2
  <2>6. c = a \o b
    BY <2>1, <2>3, <2>4, <2>5, SeqEqual
  <2> QED BY <2>6 DEF a, b, c, z
<1>6. \A config \in Configs : Written(config) = FlatMap(LinesOf(config), NamesOf)
  BY DEF Written, LinesOf
<1> QED BY <1>2, <1>3, <1>4, <1>5, <1>6

\* The names of a configuration: of no sections, of one and of two lists.
LEMMA WrittenIs ==
  /\ \A config \in Configs : Written(config) \in Seq(Aliases)
  /\ Written(<<>>) = <<>>
  /\ \A section \in Sections : Written(<<section>>) = section.line.names
  /\ \A x, y \in Configs : Written(x \o y) = Written(x) \o Written(y)
<1>1. ASSUME NEW config \in Configs PROVE Written(config) \in Seq(Aliases)
  BY LinesOfIs, NamesOfIs, FlatType
<1>2. Written(<<>>) = <<>>
  <2>1. <<>> \in Configs
    BY DEF Configs
  <2>2. FlatMap(<<>>, NamesOf) = <<>>
    BY NamesOfIs, FlatEmpty
  <2> QED BY <2>1, <2>2, LinesOfIs
<1>3. ASSUME NEW section \in Sections PROVE Written(<<section>>) = section.line.names
  <2>1. <<section>> \in Configs /\ section.line \in Lines
    BY DEF Configs, Sections
  <2>2. FlatMap(<<section.line>>, NamesOf) = NamesOf[section.line]
    BY <2>1, NamesOfIs, FlatOne
  <2> QED BY <2>1, <2>2, LinesOfIs, NamesOfIs
<1>4. ASSUME NEW x \in Configs, NEW y \in Configs PROVE Written(x \o y) = Written(x) \o Written(y)
  <2> DEFINE a == LinesOf(x)
             b == LinesOf(y)
  <2>1. a \in Seq(Lines) /\ b \in Seq(Lines) /\ LinesOf(x \o y) = a \o b /\ x \o y \in Configs
    BY LinesOfIs DEF Configs
  <2>2. Written(x) = FlatMap(a, NamesOf) /\ Written(y) = FlatMap(b, NamesOf)
    BY LinesOfIs
  <2>3. Written(x \o y) = FlatMap(LinesOf(x \o y), NamesOf)
    <3> DEFINE z == x \o y
    <3>1. z \in Configs
      BY <2>1
    <3> HIDE DEF z
    <3>2. Written(z) = FlatMap(LinesOf(z), NamesOf)
      BY <3>1, LinesOfIs
    <3> QED BY <3>2 DEF z
  <2> HIDE DEF a, b
  <2>4. FlatMap(a \o b, NamesOf) = FlatMap(a, NamesOf) \o FlatMap(b, NamesOf)
    BY <2>1, NamesOfIs, FlatConcat
  <2> QED BY <2>1, <2>2, <2>3, <2>4
<1> QED BY <1>1, <1>2, <1>3, <1>4

\* The configurations and the texts of the files name the same hosts.
SameNames(expanded, text) ==
  /\ expanded \in Expanded
  /\ text \in [1..3 -> Seq(Lines)]
  /\ \A n \in 1..3 : Written(expanded[n]) = FlatMap(text[n], NamesOf)

\* A line that joins a section and is not looked at leaves its names what they are.
LEMMA NamesStay ==
  ASSUME NEW expanded \in Expanded, NEW last \in Sections, Opens(last.line), NEW line \in Lines,
         ~IsInclude(line) \/ ~IsHost(last.line)
  PROVE  LET more == Section(last.line, Append(last.children, line))
         IN  Written(Piece(expanded)[more]) = Written(Piece(expanded)[last])
<1> DEFINE more == Section(last.line, Append(last.children, line))
           q == Put(expanded)
<1>1. /\ more \in Sections /\ more.line = last.line /\ more.children = Append(last.children, line)
      /\ last.children \in Seq(Lines) /\ ~IsInclude(last.line) /\ q \in Lister(Lines, Sections)
  <2>1. more \in Sections /\ more.line = last.line /\ more.children = Append(last.children, line)
    BY DEF Section, Sections
  <2>2. last.children \in Seq(Lines)
    BY DEF Sections
  <2>3. ~IsInclude(last.line)
    BY DEF Opens, IsInclude
  <2> QED BY <2>1, <2>2, <2>3, PutIs
<1> HIDE DEF more, q
<1>2. CASE IsHost(last.line)
  <2> DEFINE h == FlatMap(last.children, q)
             a == <<WithoutIncludes(last)>>
             b == <<WithoutIncludes(more)>>
  <2>1. FlatMap(Append(last.children, line), q) = h
    <3> DEFINE c == last.children
    <3>1. c \in Seq(Lines)
      BY <1>1
    <3>2. q[line] = <<>>
      BY <1>2, PutIs DEF q
    <3>3. h \in Seq(Sections)
      BY <1>1, FlatType
    <3> HIDE DEF c
    <3>4. FlatMap(Append(c, line), q) = FlatMap(c, q) \o q[line]
      BY <1>1, <3>1, FlatAppend
    <3>5. h \o <<>> = h
      BY <3>3
    <3> QED BY <3>2, <3>4, <3>5 DEF c
  <2>2. Piece(expanded)[last] = a \o h
    BY <1>1, <1>2, PieceIs, SearchedIs DEF q
  <2>3. Piece(expanded)[more] = b \o h
    <3>1. Searched(more) = Append(last.children, line)
      BY <1>1, <1>2, SearchedIs
    <3>2. Piece(expanded)[more] = b \o FlatMap(Searched(more), q)
      BY <1>1, PieceIs DEF q
    <3> QED BY <2>1, <3>1, <3>2
  <2>4. /\ a \in Configs /\ Written(a) = last.line.names
        /\ b \in Configs /\ Written(b) = last.line.names
    <3>1. /\ WithoutIncludes(last) \in Sections /\ WithoutIncludes(last).line = last.line
          /\ WithoutIncludes(more) \in Sections /\ WithoutIncludes(more).line = last.line
      BY <1>1, WithoutIs
    <3>2. a \in Configs /\ b \in Configs
      BY <3>1 DEF Configs
    <3> QED BY <3>1, <3>2, WrittenIs
  <2>5. h \in Configs
    BY <1>1, FlatType DEF Configs
  <2> HIDE DEF a, b, h
  <2>6. Written(a \o h) = Written(a) \o Written(h) /\ Written(b \o h) = Written(b) \o Written(h)
    BY <2>4, <2>5, WrittenIs
  <2> QED BY <2>2, <2>3, <2>4, <2>6 DEF more
<1>3. CASE ~IsHost(last.line)
  <2>1. Searched(last) = <<>> /\ Searched(more) = <<>>
    BY <1>1, <1>3, SearchedIs
  <2>2. IsClean(Searched(last)) /\ IsClean(Searched(more))
    BY <2>1 DEF IsClean
  <2>3. Piece(expanded)[last] = <<last>> /\ Piece(expanded)[more] = <<more>>
    BY <1>1, <2>2, CleanPiece
  <2> QED BY <1>1, <2>3, WrittenIs DEF more
<1> QED BY <1>2, <1>3

\* The sections of the first lines of a file name the hosts that these stand for.
IsNamed(s, expanded, text) ==
  Written(FlatMap(Parse(s), Piece(expanded))) = FlatMap(Reading(s, text), NamesOf)

\* One line more.
LEMMA NamedNext ==
  ASSUME NEW expanded, NEW text, SameNames(expanded, text),
         NEW s \in Seq(Lines), NEW line \in Lines, IsNamed(s, expanded, text)
  PROVE  IsNamed(Append(s, line), expanded, text)
<1> DEFINE t == Append(s, line)
           f == Piece(expanded)
           config == Parse(s)
           new == Parse(t)
           out == FlatMap(config, f)
           rd == Reading(s, text)
           L == Len(s) + 1
           y == Stands(t, L, text)
<1>1. t \in Seq(Lines) /\ t[L] = line /\ L \in 1..Len(t)
  BY LastOf
<1>2. /\ expanded \in Expanded /\ text \in [1..3 -> Seq(Lines)] /\ f \in Lister(Sections, Sections)
      /\ \A n \in 1..3 : expanded[n] \in Configs /\ Written(expanded[n]) = FlatMap(text[n], NamesOf)
  <2>1. expanded \in Expanded
    BY DEF SameNames
  <2> QED BY <2>1, PieceIs DEF SameNames, Expanded
<1>3. config \in Configs /\ new = ParseLine(config, line)
  BY ParseAppend
<1>4. out \in Configs
  <2> HIDE DEF config
  <2> QED BY <1>2, <1>3, FlatType DEF Configs
<1>5. rd \in Seq(Lines) /\ y \in Seq(Lines) /\ Reading(t, text) = rd \o y
  BY <1>1, <1>2, ReadingAppend, StandsIs
<1>6. Resolved(t, L) <=> IsInclude(line) /\ (IsOpen(config) => IsHost(config[Len(config)].line))
  BY ResolvedIf
<1>7. /\ Resolved(t, L) => y = text[line.of] /\ line.of \in 1..3 /\ IsInclude(line)
      /\ ~Resolved(t, L) => y = <<line>>
  BY <1>1, IncludeOf DEF Stands, Resolved
<1>8. Written(out) = FlatMap(rd, NamesOf)
  BY DEF IsNamed
<1> HIDE DEF t, f, config, new, out, rd, L, y
<1>9. FlatMap(rd \o y, NamesOf) = FlatMap(rd, NamesOf) \o FlatMap(y, NamesOf)
  BY <1>5, NamesOfIs, FlatConcat
<1>10. SUFFICES Written(FlatMap(new, f)) = Written(out) \o FlatMap(y, NamesOf)
  BY <1>5, <1>8, <1>9 DEF IsNamed, t, f, new
<1>11. y = <<line>> => FlatMap(y, NamesOf) = line.names
  BY NamesOfIs, FlatOne
<1>12. ASSUME NEW x \in Configs, FlatMap(new, f) = out \o x, Written(x) = FlatMap(y, NamesOf)
       PROVE  Written(FlatMap(new, f)) = Written(out) \o FlatMap(y, NamesOf)
  BY <1>4, <1>12, WrittenIs
<1>13. Resolved(t, L) => expanded[line.of] \in Configs /\ Written(expanded[line.of]) = FlatMap(y, NamesOf)
  BY <1>2, <1>7
<1>14. CASE Opens(line) \/ ~IsOpen(config)
  <2> DEFINE section == Section(line, <<>>)
  <2>1. new = Append(config, section)
    BY <1>3, <1>14, StartsSection
  <2>2. /\ section \in Sections /\ section.line = line
        /\ IsInclude(line) => f[section] = expanded[line.of]
        /\ ~IsInclude(line) => f[section] = <<section>>
    BY <1>2, NewSection DEF f
  <2> HIDE DEF section
  <2>3. FlatMap(new, f) = out \o f[section]
    <3>1. config \in Seq(Sections)
      BY <1>3 DEF Configs
    <3>2. FlatMap(Append(config, section), f) = FlatMap(config, f) \o f[section]
      BY <1>2, <2>2, <3>1, FlatAppend
    <3> QED BY <2>1, <3>2 DEF out
  <2>4. Opens(line) => ~IsInclude(line)
    BY DEF Opens, IsInclude
  <2>5. CASE IsInclude(line)
    <3>1. Resolved(t, L)
      BY <1>6, <1>14, <2>4, <2>5
    <3> QED BY <1>12, <1>13, <2>2, <2>3, <2>5, <3>1
  <2>6. CASE ~IsInclude(line)
    <3>1. y = <<line>>
      BY <1>6, <1>7, <2>6
    <3>2. <<section>> \in Configs /\ Written(<<section>>) = line.names
      BY <2>2, WrittenIs DEF Configs
    <3> QED BY <1>11, <1>12, <2>2, <2>3, <2>6, <3>1, <3>2
  <2> QED BY <2>5, <2>6
<1>15. CASE ~Opens(line) /\ IsOpen(config)
  <2>1. PICK front \in Configs, last \in Sections :
          config = Append(front, last) /\ Opens(last.line) /\ config[Len(config)] = last
    BY <1>3, <1>15, OpenIs
  <2> DEFINE more == Section(last.line, Append(last.children, line))
             a == FlatMap(front, f)
  <2>2. new = Append(front, more)
    BY <1>3, <1>15, <2>1, JoinsSection
  <2>3. more \in Sections /\ front \in Seq(Sections)
    BY DEF Section, Sections, Configs
  <2>4. IsInclude(line) /\ IsHost(last.line) => f[more] = f[last] \o expanded[line.of]
    BY <1>2, IncludePiece DEF f
  <2>5. ~IsInclude(line) \/ ~IsHost(last.line) => Written(f[more]) = Written(f[last])
    BY <1>2, <2>1, NamesStay DEF f
  <2> HIDE DEF more
  <2>6. FlatMap(new, f) = a \o f[more] /\ out = a \o f[last]
    <3>1. FlatMap(Append(front, more), f) = FlatMap(front, f) \o f[more]
      BY <1>2, <2>3, FlatAppend
    <3>2. FlatMap(Append(front, last), f) = FlatMap(front, f) \o f[last]
      BY <1>2, <2>3, FlatAppend
    <3> QED BY <2>1, <2>2, <3>1, <3>2 DEF out
  <2>7. a \in Configs /\ f[more] \in Configs /\ f[last] \in Configs
    BY <1>2, <2>3, FlatType, ListerOf DEF Configs
  <2> HIDE DEF a
  <2>8. CASE Resolved(t, L)
    <3> DEFINE x == expanded[line.of]
    <3>1. x \in Configs /\ Written(x) = FlatMap(y, NamesOf) /\ f[more] = f[last] \o x
      BY <1>6, <1>13, <1>15, <2>1, <2>4, <2>8
    <3> HIDE DEF x
    <3>2. Regroups(a, f[last], x)
      BY <2>7, <3>1, Associative DEF Configs
    <3>3. FlatMap(new, f) = out \o x
      BY <2>6, <3>1, <3>2 DEF Regroups
    <3> QED BY <1>12, <3>1, <3>3
  <2>9. CASE ~Resolved(t, L)
    <3>1. ~IsInclude(line) \/ ~IsHost(last.line)
      BY <1>6, <1>15, <2>1, <2>9
    <3>2. y = <<line>> /\ line.names = <<>>
      <4>1. ~IsHost(line)
        BY <1>15 DEF IsHost, Opens
      <4> QED BY <1>7, <2>9, <4>1, ConfigAssumption
    <3>3. Written(FlatMap(new, f)) = Written(out)
      <4>1. Written(a \o f[more]) = Written(a) \o Written(f[more])
        BY <2>7, WrittenIs
      <4>2. Written(a \o f[last]) = Written(a) \o Written(f[last])
        BY <2>7, WrittenIs
      <4> QED BY <2>5, <2>6, <3>1, <4>1, <4>2
    <3>4. FlatMap(y, NamesOf) = <<>>
      BY <1>11, <3>2
    <3>5. Written(out) \o <<>> = Written(out)
      <4>1. Written(out) \in Seq(Aliases)
        BY <1>4, WrittenIs
      <4> QED BY <4>1
    <3> QED BY <3>3, <3>4, <3>5
  <2> QED BY <2>8, <2>9
<1> QED BY <1>14, <1>15

\* The configuration of a file names the hosts that its lines stand for, in the
\* same order.
LEMMA ExpansionNames ==
  ASSUME NEW expanded, NEW text, SameNames(expanded, text), NEW lines \in Seq(Lines)
  PROVE  /\ Expansion(lines, expanded) \in Configs /\ NoIncludes(Expansion(lines, expanded))
         /\ Reading(lines, text) \in Seq(Lines)
         /\ Written(Expansion(lines, expanded)) = FlatMap(Reading(lines, text), NamesOf)
<1> DEFINE P == {s \in Seq(Lines) : IsNamed(s, expanded, text)}
<1>1. expanded \in Expanded /\ text \in [1..3 -> Seq(Lines)]
  BY DEF SameNames
<1>2. <<>> \in P
  <2>1. FlatMap(<<>>, Piece(expanded)) = <<>> /\ FlatMap(<<>>, NamesOf) = <<>>
    <3>1. Piece(expanded) \in Lister(Sections, Sections)
      BY <1>1, PieceIs
    <3> QED BY <3>1, NamesOfIs, FlatEmpty
  <2>2. IsNamed(<<>>, expanded, text)
    BY <1>1, <2>1, ParseEmpty, ReadingEmpty, WrittenIs DEF IsNamed
  <2>3. <<>> \in Seq(Lines)
    OBVIOUS
  <2> QED BY <2>2, <2>3
<1>3. ASSUME NEW s \in P, NEW line \in Lines PROVE Append(s, line) \in P
  <2>1. s \in Seq(Lines) /\ IsNamed(s, expanded, text)
    OBVIOUS
  <2>2. Append(s, line) \in Seq(Lines)
    BY <2>1
  <2> HIDE DEF P
  <2>3. IsNamed(Append(s, line), expanded, text)
    BY <2>1, NamedNext
  <2> QED BY <2>2, <2>3 DEF P
<1>4. lines \in P
  <2> HIDE DEF P
  <2>1. P \in SUBSET Seq(Lines)
    BY DEF P
  <2> QED BY <1>2, <1>3, <2>1, EveryList
<1>5. Written(FlatMap(Parse(lines), Piece(expanded))) = FlatMap(Reading(lines, text), NamesOf)
  BY <1>4 DEF IsNamed
<1>6. Expansion(lines, expanded) = FlatMap(Parse(lines), Piece(expanded))
  BY <1>1, ExpansionIs
<1>7. Parse(lines) \in Configs /\ Reading(lines, text) \in Seq(Lines)
  <2>1. PICK read \in Recursive(Seq(Lines), <<>>, Len(lines), ReadSteps(lines, text)) :
          Reading(lines, text) = read[Len(lines)]
    BY <1>1, ReadingFunction
  <2>2. read \in [0..Len(lines) -> Seq(Lines)] /\ Len(lines) \in 0..Len(lines)
    BY <2>1 DEF Recursive
  <2> QED BY <2>1, <2>2, ParseType
<1>8. FlatMap(Parse(lines), Piece(expanded)) \in Configs /\ NoIncludes(FlatMap(Parse(lines), Piece(expanded)))
  BY <1>1, <1>7, FlatNoIncludes
<1> QED BY <1>5, <1>6, <1>7, <1>8

\* hosts[k] is first named by element e[k] of named, and every one's name is there.
IsMentioned(hosts, named, e) ==
  /\ e \in [1..Len(hosts) -> 1..Len(named)]
  /\ \A j, k \in 1..Len(hosts) : j < k => e[j] < e[k]
  /\ \A k \in 1..Len(hosts) : named[e[k]] = hosts[k]
  /\ \A k \in 1..Len(hosts) : \A i \in 1..Len(named) : named[i] = hosts[k] => e[k] <= i
  /\ \A i \in 1..Len(named) : \E k \in 1..Len(hosts) : hosts[k] = named[i]

\* A name that is added is one more mention.
LEMMA MentionsNext ==
  ASSUME NEW hosts \in Seq(Aliases), NEW named \in Seq(Aliases), NEW e, IsMentioned(hosts, named, e),
         NEW name \in Aliases
  PROVE  /\ AddHost(hosts, name) \in Seq(Aliases)
         /\ \E d : IsMentioned(AddHost(hosts, name),
                               named \o (IF name \in Aliases \ AliasPatterns THEN <<name>> ELSE <<>>), d)
<1> DEFINE N == Len(named)
           H == Len(hosts)
<1>1. N \in Nat /\ H \in Nat /\ DOMAIN hosts = 1..H /\ N + 1 \in 1..(N + 1) /\ H + 1 \in 1..(H + 1)
  OBVIOUS
<1>2. /\ e \in [1..H -> 1..N]
      /\ \A j, k \in 1..H : j < k => e[j] < e[k]
      /\ \A k \in 1..H : named[e[k]] = hosts[k]
      /\ \A k \in 1..H : \A i \in 1..N : named[i] = hosts[k] => e[k] <= i
      /\ \A i \in 1..N : \E k \in 1..H : hosts[k] = named[i]
  BY DEF IsMentioned
<1>3. CASE name \in AliasPatterns
  <2>1. AddHost(hosts, name) = hosts
    BY <1>3 DEF AddHost
  <2>2. named \o <<>> = named
    OBVIOUS
  <2> QED BY <1>3, <2>1, <2>2
<1>4. CASE name \notin AliasPatterns
  <2> DEFINE longer == Append(named, name)
  <2>1. named \o <<name>> = longer
    OBVIOUS
  <2>2. /\ Len(longer) = N + 1 /\ longer[N + 1] = name /\ \A i \in 1..N : longer[i] = named[i]
    OBVIOUS
  <2>3. \A i \in 1..(N + 1) : i \in 1..N \/ i = N + 1
    BY <1>1
  <2> HIDE DEF longer
  <2>5. CASE \E k \in 1..H : hosts[k] = name
    <3>1. AddHost(hosts, name) = hosts
      BY <1>1, <2>5 DEF AddHost
    <3>2. IsMentioned(hosts, longer, e)
      <4>1. e \in [1..H -> 1..(N + 1)]
        BY <1>1, <1>2
      <4>2. \A k \in 1..H : longer[e[k]] = hosts[k]
        <5>1. \A k \in 1..H : e[k] \in 1..N
          BY <1>2
        <5> QED BY <1>2, <2>2, <5>1
      <4>3. \A k \in 1..H : \A i \in 1..(N + 1) : longer[i] = hosts[k] => e[k] <= i
        <5> SUFFICES ASSUME NEW k \in 1..H, NEW i \in 1..(N + 1), longer[i] = hosts[k] PROVE e[k] <= i
          OBVIOUS
        <5>1. e[k] \in 1..N
          BY <1>2
        <5>2. CASE i \in 1..N
          BY <1>2, <2>2, <5>2
        <5>3. CASE i = N + 1
          BY <1>1, <5>1, <5>3
        <5> QED BY <2>3, <5>2, <5>3
      <4>4. \A i \in 1..(N + 1) : \E k \in 1..H : hosts[k] = longer[i]
        <5> SUFFICES ASSUME NEW i \in 1..(N + 1) PROVE \E k \in 1..H : hosts[k] = longer[i]
          OBVIOUS
        <5>1. CASE i \in 1..N
          BY <1>2, <2>2, <5>1
        <5>2. CASE i = N + 1
          BY <2>2, <2>5, <5>2
        <5> QED BY <2>3, <5>1, <5>2
      <4> QED BY <1>2, <2>2, <4>1, <4>2, <4>3, <4>4 DEF IsMentioned
    <3> QED BY <1>4, <2>1, <3>1, <3>2
  <2>6. CASE \A k \in 1..H : hosts[k] # name
    <3> DEFINE more == Append(hosts, name)
               d == [k \in 1..(H + 1) |-> IF k <= H THEN e[k] ELSE N + 1]
    <3>1. AddHost(hosts, name) = more
      BY <1>1, <1>4, <2>6 DEF AddHost
    <3>2. /\ more \in Seq(Aliases) /\ Len(more) = H + 1 /\ more[H + 1] = name
          /\ \A k \in 1..H : more[k] = hosts[k]
      <4>1. hosts \in Seq(Aliases) /\ name \in Aliases
        OBVIOUS
      <4>2. /\ Append(hosts, name) \in Seq(Aliases) /\ Len(Append(hosts, name)) = Len(hosts) + 1
            /\ Append(hosts, name)[Len(hosts) + 1] = name
            /\ \A k \in 1..Len(hosts) : Append(hosts, name)[k] = hosts[k]
        BY ONLY <4>1, LastOf
      <4> QED BY <4>2
    <3>3. /\ \A k \in 1..H : d[k] = e[k] /\ e[k] \in 1..N /\ d[k] \in 1..(N + 1) /\ d[k] < N + 1
          /\ d[H + 1] = N + 1
      <4>1. \A k \in 1..H : k \in 1..(H + 1) /\ k <= H /\ e[k] \in 1..N
        <5>1. e \in [1..H -> 1..N]
          BY <1>2
        <5>2. \A k \in 1..H : k \in 1..(H + 1) /\ k <= H
          BY <1>1
        <5> QED BY <5>1, <5>2
      <4>2. ~(H + 1 <= H)
        BY <1>1
      <4>3. \A k \in 1..H : d[k] = e[k]
        BY <4>1
      <4>4. d[H + 1] = N + 1
        BY <1>1, <4>2
      <4> HIDE DEF d
      <4> QED BY <1>1, <4>1, <4>3, <4>4
    <3>4. \A k \in 1..(H + 1) : k \in 1..H \/ k = H + 1
      BY <1>1
    <3>5. d \in [1..(H + 1) -> 1..(N + 1)]
      <4>1. \A k \in 1..(H + 1) : d[k] \in 1..(N + 1)
        <5> HIDE DEF d
        <5> QED BY <1>1, <3>3, <3>4
      <4> QED BY <4>1
    <3> HIDE DEF d, more
    <3>6. \A j, k \in 1..(H + 1) : j < k => d[j] < d[k]
      <4> SUFFICES ASSUME NEW j \in 1..(H + 1), NEW k \in 1..(H + 1), j < k PROVE d[j] < d[k]
        OBVIOUS
      <4>1. j \in 1..H
        BY <1>1, <3>4
      <4>2. CASE k \in 1..H
        BY <1>2, <3>3, <4>1, <4>2
      <4>3. CASE k = H + 1
        BY <3>3, <4>1, <4>3
      <4> QED BY <3>4, <4>2, <4>3
    <3>7. \A k \in 1..(H + 1) : longer[d[k]] = more[k]
      <4> SUFFICES ASSUME NEW k \in 1..(H + 1) PROVE longer[d[k]] = more[k]
        OBVIOUS
      <4>1. CASE k \in 1..H
        <5>1. d[k] = e[k] /\ e[k] \in 1..N /\ more[k] = hosts[k]
          BY <3>2, <3>3, <4>1
        <5>2. named[e[k]] = hosts[k]
          BY <1>2, <4>1
        <5>3. longer[e[k]] = named[e[k]]
          BY <2>2, <5>1
        <5> QED BY <5>1, <5>2, <5>3
      <4>2. CASE k = H + 1
        BY <2>2, <3>2, <3>3, <4>2
      <4> QED BY <3>4, <4>1, <4>2
    <3>8. \A k \in 1..(H + 1) : \A i \in 1..(N + 1) : longer[i] = more[k] => d[k] <= i
      <4> SUFFICES ASSUME NEW k \in 1..(H + 1), NEW i \in 1..(N + 1), longer[i] = more[k] PROVE d[k] <= i
        OBVIOUS
      <4>1. CASE k \in 1..H /\ i \in 1..N
        BY <1>2, <2>2, <3>2, <3>3, <4>1
      <4>2. CASE k \in 1..H /\ i = N + 1
        BY <1>1, <3>3, <4>2
      <4>3. CASE k = H + 1 /\ i = N + 1
        BY <1>1, <3>3, <4>3
      <4>4. ASSUME k = H + 1, i \in 1..N PROVE FALSE
        <5>1. more[k] = name /\ longer[i] = named[i]
          BY <2>2, <3>2, <4>4
        <5>2. \E l \in 1..H : hosts[l] = named[i]
          BY <1>2, <4>4
        <5> QED BY <2>6, <5>1, <5>2
      <4> QED BY <2>3, <3>4, <4>1, <4>2, <4>3, <4>4
    <3>9. \A i \in 1..(N + 1) : \E k \in 1..(H + 1) : more[k] = longer[i]
      <4> SUFFICES ASSUME NEW i \in 1..(N + 1) PROVE \E k \in 1..(H + 1) : more[k] = longer[i]
        OBVIOUS
      <4>1. CASE i \in 1..N
        <5>1. PICK k \in 1..H : hosts[k] = named[i]
          BY <1>2, <4>1
        <5>2. k \in 1..(H + 1)
          BY <1>1
        <5> QED BY <2>2, <3>2, <4>1, <5>1, <5>2
      <4>2. CASE i = N + 1
        BY <1>1, <2>2, <3>2, <4>2
      <4> QED BY <2>3, <4>1, <4>2
    <3>10. IsMentioned(more, longer, d)
      BY <2>2, <3>2, <3>5, <3>6, <3>7, <3>8, <3>9 DEF IsMentioned
    <3> QED BY <1>4, <2>1, <3>1, <3>2, <3>10
  <2> QED BY <2>5, <2>6
<1> QED BY <1>3, <1>4

\* The steps of getAllConfiguredHosts.
HostSteps(w) == [y \in Seq(Aliases) \X (1..Len(w)) |-> AddHost(y[1], w[y[2]])]

\* What one step of the list of hosts gives.
LEMMA HostStep ==
  ASSUME NEW w \in Seq(Aliases), NEW x \in Seq(Aliases), NEW m \in 1..Len(w)
  PROVE  /\ HostSteps(w)[<<x, m>>] = AddHost(x, w[m])
         /\ HostSteps(w)[<<x, m>>] \in Seq(Aliases)
<1>1. <<x, m>> \in Seq(Aliases) \X (1..Len(w)) /\ <<x, m>>[1] = x /\ <<x, m>>[2] = m
  OBVIOUS
<1>2. HostSteps(w)[<<x, m>>] = AddHost(x, w[m])
  BY <1>1 DEF HostSteps
<1>3. Append(x, w[m]) \in Seq(Aliases)
  <2>1. w[m] \in Aliases
    OBVIOUS
  <2> QED BY <2>1
<1> QED BY <1>2, <1>3 DEF AddHost

\* getAllConfiguredHosts by the function it is built with.
LEMMA HostsFunction ==
  ASSUME NEW config, NEW w \in Seq(Aliases), w = Written(config)
  PROVE  \E hosts \in Recursive(Seq(Aliases), <<>>, Len(w), HostSteps(w)) :
           AllConfiguredHosts(config) = hosts[Len(w)]
<1> DEFINE S == Seq(Aliases)
           L == Len(w)
           g == HostSteps(w)
           IsHosts(hosts) == hosts = [n \in 0..L |-> IF n = 0 THEN <<>> ELSE AddHost(hosts[n - 1], w[n])]
<1>1. L \in Nat /\ <<>> \in S
  OBVIOUS
<1>2. \A x \in S : \A m \in 1..L : g[<<x, m>>] = AddHost(x, w[m]) /\ g[<<x, m>>] \in S
  BY HostStep
<1> HIDE DEF g
<1>3. Closed(S, L, g)
  BY <1>2 DEF Closed
<1>4. \E b : b \in Recursive(S, <<>>, L, g)
  <2> HIDE DEF S, L
  <2> QED BY <1>1, <1>3, Recursion
<1>5. PICK b \in [0..L -> S] : b[0] = <<>> /\ \A m \in 1..L : b[m] = g[<<b[m - 1], m>>]
  BY <1>4 DEF Recursive
<1>6. IsHosts(b)
  <2>1. \A n \in 0..L : n = 0 \/ (n # 0 /\ n \in 1..L /\ n - 1 \in 0..L)
    BY <1>1
  <2>2. ASSUME NEW n \in 0..L PROVE b[n] = IF n = 0 THEN <<>> ELSE AddHost(b[n - 1], w[n])
    <3>1. CASE n = 0
      BY <1>5, <3>1
    <3>2. CASE n # 0
      <4>1. n \in 1..L /\ b[n - 1] \in S
        BY <1>5, <2>1, <3>2
      <4> HIDE DEF S, L
      <4> QED BY <1>2, <1>5, <3>2, <4>1
    <3> QED BY <3>1, <3>2
  <2> HIDE DEF S, L
  <2>3. b = [n \in 0..L |-> b[n]]
    BY <1>5
  <2> QED BY <2>2, <2>3
<1> DEFINE built == CHOOSE hosts : IsHosts(hosts)
<1>7. IsHosts(built)
  BY <1>6
<1>8. AllConfiguredHosts(config) = built[L]
  BY DEF AllConfiguredHosts
<1> HIDE DEF built
<1>9. built[0] = <<>> /\ built = [n \in 0..L |-> built[n]]
  BY <1>1, <1>7
<1>10. ASSUME NEW m \in 1..L, built[m - 1] \in S PROVE built[m] = g[<<built[m - 1], m>>]
  <2>1. m \in 0..L /\ m # 0
    BY <1>1
  <2>2. built[m] = AddHost(built[m - 1], w[m])
    BY <1>7, <2>1
  <2> HIDE DEF S, L
  <2> QED BY <1>2, <1>10, <2>2
<1>11. built \in Recursive(S, <<>>, L, g)
  <2> HIDE DEF S, L
  <2> QED BY <1>1, <1>3, <1>9, <1>10, Built
<1> QED BY <1>8, <1>11 DEF g

\* The hosts of a configuration are the first mentions of its names.
LEMMA HostsMentioned ==
  ASSUME NEW config \in Configs
  PROVE  /\ AllConfiguredHosts(config) \in Seq(Aliases)
         /\ \E e : IsMentioned(AllConfiguredHosts(config), Kept(Written(config), Aliases \ AliasPatterns), e)
<1> DEFINE w == Written(config)
           f == Pick(Aliases, Aliases \ AliasPatterns)
           L == Len(w)
<1>1. w \in Seq(Aliases) /\ L \in Nat
  BY WrittenIs
<1>2. PICK hosts \in Recursive(Seq(Aliases), <<>>, L, HostSteps(w)) : AllConfiguredHosts(config) = hosts[L]
  BY <1>1, HostsFunction
<1>3. f \in Lister(Aliases, Aliases) /\ Kept(w, Aliases \ AliasPatterns) = FlatMap(w, f)
  BY <1>1, KeptFlat
<1>4. \A name \in Aliases : f[name] = IF name \in Aliases \ AliasPatterns THEN <<name>> ELSE <<>>
  BY DEF Pick
<1> HIDE DEF w, f
<1>5. PICK names \in Recursive(Seq(Aliases), <<>>, L, FlatSteps(w, f, Aliases)) : FlatMap(w, f) = names[L]
  BY <1>1, <1>3, FlatFunction
<1> HIDE DEF L
<1> DEFINE All == {n \in Nat : n <= L => \E e : IsMentioned(hosts[n], names[n], e)}
<1>6. 0 \in All
  <2> DEFINE e == [k \in {} |-> k]
  <2>1. hosts[0] = <<>> /\ names[0] = <<>>
    BY <1>2, <1>5 DEF Recursive
  <2>2. 1..Len(<<>>) = {}
    OBVIOUS
  <2>3. IsMentioned(<<>>, <<>>, e)
    BY <2>2 DEF IsMentioned
  <2> QED BY <2>1, <2>3
<1>7. ASSUME NEW n \in All PROVE n + 1 \in All
  <2> SUFFICES ASSUME n + 1 <= L PROVE \E e : IsMentioned(hosts[n + 1], names[n + 1], e)
    OBVIOUS
  <2>1. n \in Nat /\ n \in 0..L /\ n + 1 \in 1..L /\ (n + 1) - 1 = n
    BY <1>1
  <2>2. PICK e : IsMentioned(hosts[n], names[n], e)
    BY <1>1
  <2> HIDE DEF All
  <2> DEFINE x == hosts[n]
             y == names[n]
             name == w[n + 1]
  <2>3. x \in Seq(Aliases) /\ hosts[n + 1] = HostSteps(w)[<<x, n + 1>>]
    BY <1>2, <2>1 DEF Recursive
  <2>4. y \in Seq(Aliases) /\ names[n + 1] = FlatSteps(w, f, Aliases)[<<y, n + 1>>]
    BY <1>5, <2>1 DEF Recursive
  <2>5. name \in Aliases /\ n + 1 \in 1..Len(w)
    BY <1>1, <2>1 DEF L
  <2> HIDE DEF x, y
  <2>6. HostSteps(w)[<<x, n + 1>>] = AddHost(x, name)
    BY <1>1, <2>3, <2>5, HostStep
  <2>7. FlatSteps(w, f, Aliases)[<<y, n + 1>>] = y \o f[name]
    <3>1. <<y, n + 1>> \in Seq(Aliases) \X (1..Len(w)) /\ <<y, n + 1>>[1] = y /\ <<y, n + 1>>[2] = n + 1
      BY <2>4, <2>5
    <3> QED BY <3>1 DEF FlatSteps
  <2> HIDE DEF name
  <2>8. f[name] = IF name \in Aliases \ AliasPatterns THEN <<name>> ELSE <<>>
    BY <1>4, <2>5
  <2>9. IsMentioned(x, y, e)
    BY <2>2 DEF x, y
  <2>10. \E d : IsMentioned(AddHost(x, name),
                            y \o (IF name \in Aliases \ AliasPatterns THEN <<name>> ELSE <<>>), d)
    BY <2>3, <2>4, <2>5, <2>9, MentionsNext
  <2> QED BY <2>3, <2>4, <2>6, <2>7, <2>8, <2>10
<1>8. All = Nat
  <2> HIDE DEF All
  <2>1. All \in SUBSET Nat
    BY DEF All
  <2> QED BY <1>6, <1>7, <2>1, Inductive
<1>9. hosts[L] \in Seq(Aliases)
  <2>1. hosts \in [0..L -> Seq(Aliases)] /\ L \in 0..L
    BY <1>1, <1>2 DEF Recursive
  <2> QED BY <2>1
<1>10. \E e : IsMentioned(hosts[L], names[L], e)
  BY <1>1, <1>8
<1> QED BY <1>2, <1>3, <1>5, <1>9, <1>10 DEF w
LEMMA FilesAre ==
  ASSUME ConfigInit
  PROVE  /\ file[1] \in Seq(UserLines) /\ file[2] \in Seq(IncludedLines) /\ file[3] \in Seq(SystemLines)
         /\ \A n \in 1..3 : file[n] \in Seq(Lines)
<1>1. MaxLines \in Nat /\ MaxLines - 1 \in Nat
  BY ConfigAssumption
<1>2. ASSUME NEW n \in Nat, NEW T, NEW s \in UpTo(n, T) PROVE s \in Seq(T)
  <2>1. PICK m \in 0..n : s \in [1..m -> T]
    BY DEF UpTo
  <2>2. m \in Nat
    OBVIOUS
  <2> QED BY <2>1, <2>2
<1>3. PICK one \in UpTo(MaxLines, UserLines), two \in UpTo(MaxLines - 1, IncludedLines),
           three \in UpTo(MaxLines - 1, SystemLines) : file = <<one, two, three>>
  BY DEF ConfigInit
<1>4. one \in Seq(UserLines) /\ two \in Seq(IncludedLines) /\ three \in Seq(SystemLines)
  BY <1>1, <1>2
<1>5. file[1] = one /\ file[2] = two /\ file[3] = three
  BY <1>3
<1>6. one \in Seq(Lines) /\ two \in Seq(Lines) /\ three \in Seq(Lines)
  BY <1>4 DEF Lines
<1> QED BY <1>4, <1>5, <1>6

\* What was read of the third file, of the second and of the first.
ThirdConfig == Expansion(file[3], <<<<>>, <<>>, <<>>>>)
SecondConfig == Expansion(file[2], <<<<>>, <<>>, ThirdConfig>>)
FirstConfig == Expansion(file[1], <<<<>>, SecondConfig, ThirdConfig>>)
ThirdText == Reading(file[3], <<<<>>, <<>>, <<>>>>)
SecondText == Reading(file[2], <<<<>>, <<>>, ThirdText>>)
FirstText == Reading(file[1], <<<<>>, SecondText, ThirdText>>)

\* The three files, by their names.
LEMMA FilesRead ==
  /\ Expand(1) = FirstConfig /\ Expand(2) = SecondConfig /\ Expand(3) = ThirdConfig
  /\ Linear(1) = FirstText /\ Linear(2) = SecondText /\ Linear(3) = ThirdText
BY DEF Expand, Linear, FirstConfig, SecondConfig, ThirdConfig, FirstText, SecondText, ThirdText

\* Configurations and texts of three files, if they name the same hosts.
LEMMA ThreeFiles ==
  ASSUME NEW a \in Configs, NEW b \in Configs, NEW c \in Configs,
         NoIncludes(a), NoIncludes(b), NoIncludes(c),
         NEW x \in Seq(Lines), NEW y \in Seq(Lines), NEW z \in Seq(Lines),
         Written(a) = FlatMap(x, NamesOf), Written(b) = FlatMap(y, NamesOf), Written(c) = FlatMap(z, NamesOf)
  PROVE  SameNames(<<a, b, c>>, <<x, y, z>>)
<1>1. 1..3 = {1, 2, 3}
  OBVIOUS
<1> DEFINE f == <<a, b, c>>
           g == <<x, y, z>>
<1>2. f \in [1..3 -> Configs] /\ f[1] = a /\ f[2] = b /\ f[3] = c
  BY <1>1
<1>3. g \in [1..3 -> Seq(Lines)] /\ g[1] = x /\ g[2] = y /\ g[3] = z
  BY <1>1
<1> HIDE DEF f, g
<1>4. f \in Expanded
  BY <1>1, <1>2 DEF Expanded
<1>5. \A n \in 1..3 : Written(f[n]) = FlatMap(g[n], NamesOf)
  BY <1>1, <1>2, <1>3
<1>6. SameNames(f, g)
  BY <1>3, <1>4, <1>5 DEF SameNames
<1> QED BY <1>6 DEF f, g

\* All the configurations name the hosts that their texts name.
LEMMA FilesNamed ==
  ASSUME ConfigInit
  PROVE  /\ FirstConfig \in Configs /\ SecondConfig \in Configs /\ ThirdConfig \in Configs
         /\ NoIncludes(SecondConfig) /\ NoIncludes(ThirdConfig)
         /\ FirstText \in Seq(Lines) /\ SecondText \in Seq(Lines) /\ ThirdText \in Seq(Lines)
         /\ Written(FirstConfig) = FlatMap(FirstText, NamesOf) /\ Written(ThirdConfig) = FlatMap(ThirdText, NamesOf)
<1> DEFINE none == <<>>
<1>1. none \in Configs /\ NoIncludes(none) /\ none \in Seq(Lines) /\ Written(none) = FlatMap(none, NamesOf)
  <2>1. FlatMap(<<>>, NamesOf) = <<>> /\ Written(<<>>) = <<>>
    BY NamesOfIs, FlatEmpty, WrittenIs
  <2>2. <<>> \in Seq(Lines) /\ <<>> \in Configs
    BY DEF Configs
  <2>3. NoIncludes(<<>>)
    BY DEF NoIncludes
  <2> QED BY <2>1, <2>2, <2>3
<1>2. \A n \in 1..3 : file[n] \in Seq(Lines)
  BY FilesAre
<1> HIDE DEF none
<1>3. SameNames(<<none, none, none>>, <<none, none, none>>)
  BY <1>1, ThreeFiles
<1>4. /\ ThirdConfig \in Configs /\ NoIncludes(ThirdConfig) /\ ThirdText \in Seq(Lines)
      /\ Written(ThirdConfig) = FlatMap(ThirdText, NamesOf)
  BY <1>2, <1>3, ExpansionNames DEF ThirdConfig, ThirdText, none
<1>5. SameNames(<<none, none, ThirdConfig>>, <<none, none, ThirdText>>)
  BY <1>1, <1>4, ThreeFiles
<1>6. /\ SecondConfig \in Configs /\ NoIncludes(SecondConfig) /\ SecondText \in Seq(Lines)
      /\ Written(SecondConfig) = FlatMap(SecondText, NamesOf)
  BY <1>2, <1>5, ExpansionNames DEF SecondConfig, SecondText, none
<1>7. SameNames(<<none, SecondConfig, ThirdConfig>>, <<none, SecondText, ThirdText>>)
  BY <1>1, <1>4, <1>6, ThreeFiles
<1>8. FirstConfig \in Configs /\ FirstText \in Seq(Lines) /\ Written(FirstConfig) = FlatMap(FirstText, NamesOf)
  BY <1>2, <1>7, ExpansionNames DEF FirstConfig, FirstText, none
<1> QED BY <1>4, <1>6, <1>8

\* Whatever the files are made of and however long they are, the hosts that are
\* offered are the names of the Host lines that a reading from top to bottom finds,
\* which leaves out what is included below a Match line, each once and in that order.
THEOREM AllHostsListed == ConfigInit => HostsListed
<1> SUFFICES ASSUME ConfigInit PROVE HostsListed
  OBVIOUS
<1> DEFINE named == Kept(FlatMap(Linear(1) \o Linear(3), NamesOf), Aliases \ AliasPatterns)
           hosts == AllConfiguredHosts(Load)
           First(name) == CHOOSE i \in DOMAIN named :
                             named[i] = name /\ \A j \in 1..(i - 1) : named[j] # name
<1>1. Load \in Configs /\ Written(Load) = FlatMap(Linear(1) \o Linear(3), NamesOf)
  <2>1. Load = FirstConfig \o ThirdConfig /\ Linear(1) = FirstText /\ Linear(3) = ThirdText
    BY FilesRead DEF Load
  <2>2. FirstConfig \in Configs /\ ThirdConfig \in Configs
    BY FilesNamed
  <2>3. /\ FirstConfig \o ThirdConfig \in Configs
        /\ Written(FirstConfig \o ThirdConfig) = Written(FirstConfig) \o Written(ThirdConfig)
    BY <2>2, WrittenIs DEF Configs
  <2>4. FlatMap(FirstText \o ThirdText, NamesOf) = FlatMap(FirstText, NamesOf) \o FlatMap(ThirdText, NamesOf)
    <3>1. FirstText \in Seq(Lines) /\ ThirdText \in Seq(Lines)
      BY FilesNamed
    <3> QED BY <3>1, NamesOfIs, FlatConcat
  <2> QED BY <2>1, <2>3, <2>4, FilesNamed
<1>2. hosts \in Seq(Aliases) /\ named \in Seq(Aliases) /\ \E e : IsMentioned(hosts, named, e)
  <2>1. Written(Load) \in Seq(Aliases)
    BY <1>1, WrittenIs
  <2>2. Kept(Written(Load), Aliases \ AliasPatterns) \in Seq(Aliases)
    BY <2>1, KeptPicks
  <2> QED BY <1>1, <2>2, HostsMentioned
<1>3. PICK e : IsMentioned(hosts, named, e)
  BY <1>2
<1> HIDE DEF named, hosts
<1>4. DOMAIN hosts = 1..Len(hosts) /\ DOMAIN named = 1..Len(named) /\ Len(named) \in Nat /\ Len(hosts) \in Nat
  BY <1>1, <1>2
<1>5. {hosts[i] : i \in DOMAIN hosts} = {named[i] : i \in DOMAIN named}
  <2>1. \A k \in 1..Len(hosts) : e[k] \in 1..Len(named) /\ named[e[k]] = hosts[k]
    BY <1>3 DEF IsMentioned
  <2>2. \A i \in 1..Len(named) : \E k \in 1..Len(hosts) : hosts[k] = named[i]
    BY <1>3 DEF IsMentioned
  <2>3. \A i \in DOMAIN hosts : \E j \in DOMAIN named : hosts[i] = named[j]
    BY <1>4, <2>1
  <2>4. \A j \in DOMAIN named : \E i \in DOMAIN hosts : hosts[i] = named[j]
    BY <1>4, <2>2
  <2> DEFINE lhs == {hosts[i] : i \in DOMAIN hosts}
             rhs == {named[i] : i \in DOMAIN named}
  <2>5. \A h : h \in lhs <=> \E i \in DOMAIN hosts : h = hosts[i]
    OBVIOUS
  <2>6. \A h : h \in rhs <=> \E j \in DOMAIN named : h = named[j]
    OBVIOUS
  <2> HIDE DEF lhs, rhs
  <2>7. \A h : h \in lhs <=> h \in rhs
    BY <2>3, <2>4, <2>5, <2>6
  <2>8. lhs = rhs
    BY <2>7
  <2> QED BY <2>8 DEF lhs, rhs
<1>6. ASSUME NEW k \in DOMAIN hosts PROVE First(hosts[k]) = e[k]
  <2> DEFINE IsFirst(i) == named[i] = hosts[k] /\ \A j \in 1..(i - 1) : named[j] # hosts[k]
  <2>1. /\ e[k] \in DOMAIN named /\ named[e[k]] = hosts[k]
        /\ \A i \in 1..Len(named) : named[i] = hosts[k] => e[k] <= i
    BY <1>3, <1>4 DEF IsMentioned
  <2>2. IsFirst(e[k])
    <3> SUFFICES ASSUME NEW j \in 1..(e[k] - 1), named[j] = hosts[k] PROVE FALSE
      BY <2>1
    <3>1. j \in 1..Len(named) /\ ~(e[k] <= j)
      BY <1>4, <2>1
    <3> QED BY <2>1, <3>1
  <2>3. ASSUME NEW i \in DOMAIN named, IsFirst(i) PROVE i = e[k]
    <3>1. i \in 1..Len(named) /\ e[k] <= i
      BY <1>4, <2>1, <2>3
    <3>2. ~(e[k] < i)
      <4> SUFFICES ASSUME e[k] < i PROVE FALSE
        OBVIOUS
      <4>1. e[k] \in 1..(i - 1)
        BY <1>4, <2>1, <3>1
      <4> QED BY <2>1, <2>3, <4>1
    <3> QED BY <1>4, <2>1, <3>1, <3>2
  <2> HIDE DEF IsFirst
  <2>4. (CHOOSE i \in DOMAIN named : IsFirst(i)) = e[k]
    BY <2>1, <2>2, <2>3
  <2> QED BY <2>4 DEF IsFirst
<1>7. ASSUME NEW i \in DOMAIN hosts, NEW j \in DOMAIN hosts, i < j PROVE First(hosts[i]) < First(hosts[j])
  <2>1. e[i] < e[j]
    BY <1>3, <1>4, <1>7 DEF IsMentioned
  <2>2. First(hosts[i]) = e[i] /\ First(hosts[j]) = e[j]
    BY <1>6
  <2> HIDE DEF First
  <2> QED BY <2>1, <2>2
<1> HIDE DEF First
<1>8. \A i, j \in DOMAIN hosts : i < j => First(hosts[i]) < First(hosts[j])
  BY <1>7
<1> QED BY <1>5, <1>8 DEF HostsListed, named, hosts, First

----------------------------------------------------------------------------
(* The sections that directives belong to. *)

\* An open section is the last of a longer configuration too.
LEMMA OpenJoin ==
  ASSUME NEW x \in Configs, NEW front \in Configs, NEW last \in Sections
  PROVE  x \o Append(front, last) = Append(x \o front, last) /\ x \o front \in Configs
BY DEF Configs

\* A line joins, or starts, the same section when other sections come before.
LEMMA ParseLineJoin ==
  ASSUME NEW x \in Configs, NEW y \in Configs, NEW line \in Lines, y # <<>>
  PROVE  ParseLine(x \o y, line) = x \o ParseLine(y, line)
<1>1. PICK front \in Configs, last \in Sections : y = Append(front, last)
  BY SequenceEmptyOrAppend DEF Configs
<1> DEFINE more == x \o front
<1>2. x \o y = Append(more, last) /\ more \in Configs
  BY <1>1, OpenJoin
<1> HIDE DEF more
<1>3. y[Len(y)] = last /\ Append(more, last)[Len(Append(more, last))] = last /\ Append(more, last) \in Configs
  BY <1>1, <1>2, LastOf DEF Configs
<1>4. CASE Opens(line) \/ ~Opens(last.line)
  <2>1. ParseLine(y, line) = Append(y, Section(line, <<>>))
    BY <1>3, <1>4, StartsSection DEF IsOpen
  <2>2. ParseLine(Append(more, last), line) = Append(Append(more, last), Section(line, <<>>))
    BY <1>3, <1>4, StartsSection DEF IsOpen
  <2>3. Section(line, <<>>) \in Sections
    BY DEF Section, Sections
  <2>4. x \o Append(y, Section(line, <<>>)) = Append(x \o y, Section(line, <<>>))
    BY <2>3, OpenJoin
  <2> QED BY <1>2, <2>1, <2>2, <2>4
<1>5. CASE ~Opens(line) /\ Opens(last.line)
  <2> DEFINE new == Section(last.line, Append(last.children, line))
  <2>1. new \in Sections
    BY DEF Section, Sections
  <2>2. ParseLine(Append(front, last), line) = Append(front, new)
    BY <1>5, JoinsSection
  <2>3. ParseLine(Append(more, last), line) = Append(more, new)
    BY <1>2, <1>5, JoinsSection
  <2> HIDE DEF new
  <2>4. x \o Append(front, new) = Append(x \o front, new)
    BY <2>1, OpenJoin
  <2> QED BY <1>1, <1>2, <2>2, <2>3, <2>4 DEF more
<1> QED BY <1>4, <1>5

\* No line, no section.
LEMMA ParseSome ==
  ASSUME NEW s \in Seq(Lines), s # <<>>
  PROVE  Parse(s) # <<>>
<1>1. PICK t \in Seq(Lines), line \in Lines : s = Append(t, line)
  BY SequenceEmptyOrAppend
<1>2. Parse(s) = ParseLine(Parse(t), line) /\ Parse(t) \in Configs
  BY <1>1, ParseAppend
<1>3. \A config \in Configs, section \in Sections : Append(config, section) # <<>>
  BY DEF Configs
<1>4. Section(line, <<>>) \in Sections /\ \A last \in Sections : Section(last.line, Append(last.children, line)) \in Sections
  BY DEF Section, Sections
<1>5. ParseLine(Parse(t), line) # <<>>
  <2> DEFINE config == Parse(t)
  <2>1. config \in Configs
    BY <1>2
  <2> HIDE DEF config
  <2>2. \/ ParseLine(config, line) = Append(config, Section(line, <<>>))
        \/ \E front \in Configs, last \in Sections :
             ParseLine(config, line) = Append(front, Section(last.line, Append(last.children, line)))
    BY <2>1, ParseLineIs
  <2>3. ParseLine(config, line) # <<>>
    BY <1>3, <1>4, <2>1, <2>2
  <2> QED BY <2>3 DEF config
<1> QED BY <1>2, <1>5

\* Lines can be parsed on their own if they do not continue an open section.
LEMMA ParseJoin ==
  ASSUME NEW s \in Seq(Lines), NEW t \in Seq(Lines),
         t = <<>> \/ Opens(t[1]) \/ ~IsOpen(Parse(s))
  PROVE  Parse(s \o t) = Parse(s) \o Parse(t)
<1> DEFINE Apart(u) == u = <<>> \/ Opens(u[1]) \/ ~IsOpen(Parse(s))
           P == {u \in Seq(Lines) : Apart(u) => Parse(s \o u) = Parse(s) \o Parse(u)}
<1>1. Parse(s) \in Configs
  BY ParseType
<1>2. <<>> \in P
  <2>1. s \o <<>> = s /\ Parse(s) \o <<>> = Parse(s)
    BY <1>1 DEF Configs
  <2>2. Parse(s \o <<>>) = Parse(s) \o Parse(<<>>)
    BY <2>1, ParseEmpty
  <2>3. <<>> \in Seq(Lines)
    OBVIOUS
  <2> QED BY <2>2, <2>3, Zenon
<1>3. ASSUME NEW u \in P, NEW line \in Lines PROVE Append(u, line) \in P
  <2> DEFINE v == Append(u, line)
  <2>1. /\ u \in Seq(Lines) /\ v \in Seq(Lines) /\ v # <<>> /\ s \o u \in Seq(Lines)
        /\ s \o v = Append(s \o u, line)
    <3>1. u \in Seq(Lines)
      OBVIOUS
    <3> HIDE DEF P
    <3> QED BY <3>1
  <2>2. Apart(u) => Parse(s \o u) = Parse(s) \o Parse(u)
    OBVIOUS
  <2>3. u # <<>> => v[1] = u[1]
    BY <2>1
  <2>4. u = <<>> => v[1] = line
    OBVIOUS
  <2> HIDE DEF P
  <2> SUFFICES ASSUME Apart(v) PROVE Parse(s \o v) = Parse(s) \o Parse(v)
    BY <2>1 DEF P
  <2>5. Parse(v) = ParseLine(Parse(u), line) /\ Parse(u) \in Configs
    BY <2>1, ParseAppend
  <2>6. Parse(s \o v) = ParseLine(Parse(s \o u), line)
    <3> DEFINE w == s \o u
    <3> HIDE DEF w, v
    <3>1. w \in Seq(Lines) /\ s \o v = Append(w, line)
      BY <2>1 DEF w
    <3> QED BY <3>1, ParseAppend DEF w
  <2>7. CASE u = <<>>
    <3>1. Opens(line) \/ ~IsOpen(Parse(s))
      BY <2>1, <2>4, <2>7
    <3>2. ParseLine(Parse(s), line) = Append(Parse(s), Section(line, <<>>))
      BY <1>1, <3>1, StartsSection
    <3>3. ParseLine(<<>>, line) = <<Section(line, <<>>)>>
      <4>1. ~IsOpen(<<>>) /\ <<>> \in Configs
        BY DEF IsOpen, Configs
      <4>2. ParseLine(<<>>, line) = Append(<<>>, Section(line, <<>>))
        BY <4>1, StartsSection
      <4> QED BY <4>2
    <3>4. Section(line, <<>>) \in Sections
      BY DEF Section, Sections
    <3>5. Parse(s) \o <<Section(line, <<>>)>> = Append(Parse(s), Section(line, <<>>))
      BY <1>1, <3>4 DEF Configs
    <3>6. s \o u = s /\ Parse(u) = <<>>
      BY <2>7, ParseEmpty
    <3> QED BY <2>5, <2>6, <3>2, <3>3, <3>5, <3>6
  <2>8. CASE u # <<>>
    <3>1. Apart(u)
      BY <2>1, <2>3, <2>8
    <3>2. Parse(u) # <<>>
      BY <2>1, <2>8, ParseSome
    <3>3. ParseLine(Parse(s) \o Parse(u), line) = Parse(s) \o ParseLine(Parse(u), line)
      BY <1>1, <2>5, <3>2, ParseLineJoin
    <3> QED BY <2>2, <2>5, <2>6, <3>1, <3>3
  <2> QED BY <2>7, <2>8
<1>4. \A u \in Seq(Lines) : u \in P
  <2> HIDE DEF P
  <2>1. P \in SUBSET Seq(Lines)
    BY DEF P
  <2> QED BY <1>2, <1>3, <2>1, EveryList
<1> QED BY <1>4

\* The configurations of the files are what is parsed of their texts.
SameParse(expanded, text) ==
  /\ expanded \in Expanded
  /\ text \in [1..3 -> Seq(Lines)]
  /\ \A n \in 1..3 : expanded[n] = Parse(text[n])

\* Tidy, for one file whose Include lines stand for the texts.
IsTidy(lines, text) ==
  \A i \in 1..Len(lines) : Resolved(lines, i) =>
    /\ i < Len(lines) => lines[i + 1].kind # "set"
    /\ LET inside == \E j \in 1..(i - 1) : lines[j].kind # "set"
       IN  inside /\ text[lines[i].of] # <<>> => Opens(text[lines[i].of][1])

\* Without its last line a tidy file is tidy.
LEMMA TidyBefore ==
  ASSUME NEW text, NEW s \in Seq(Lines), NEW line \in Lines, IsTidy(Append(s, line), text)
  PROVE  IsTidy(s, text)
<1> DEFINE t == Append(s, line)
           L == Len(s)
<1>1. Len(t) = L + 1 /\ L \in Nat /\ \A i \in 1..L : t[i] = s[i]
  BY LastOf
<1>2. \A i \in 1..L : Resolved(t, i) <=> Resolved(s, i)
  BY ResolvedBefore
<1> HIDE DEF t
<1> SUFFICES ASSUME NEW i \in 1..L, Resolved(s, i)
             PROVE  /\ i < L => s[i + 1].kind # "set"
                    /\ LET inside == \E j \in 1..(i - 1) : s[j].kind # "set"
                       IN  inside /\ text[s[i].of] # <<>> => Opens(text[s[i].of][1])
  BY DEF IsTidy
<1>3. i \in 1..Len(t) /\ i < Len(t) /\ t[i] = s[i] /\ Resolved(t, i)
  BY <1>1, <1>2
<1>4. /\ i < Len(t) => t[i + 1].kind # "set"
      /\ LET inside == \E j \in 1..(i - 1) : t[j].kind # "set"
         IN  inside /\ text[t[i].of] # <<>> => Opens(text[t[i].of][1])
  BY <1>3 DEF IsTidy, t
<1>5. \A j \in 1..(i - 1) : j \in 1..L
  BY <1>1
<1>6. ASSUME i < L PROVE i + 1 \in 1..L
  BY <1>1, <1>6
<1> QED BY <1>1, <1>3, <1>4, <1>5, <1>6

\* The last of some lines is not an Include that is looked at.
Settled(s) == s # <<>> /\ ~Resolved(s, Len(s))

\* What holds of the lines of a file up to some line: the sections are those of a
\* reading from top to bottom; once settled, no Include is looked at in the section
\* that is open, and if none is, there were only directives.
IsOwned(s, expanded, text) ==
  LET config == Parse(s)
  IN  /\ FlatMap(config, Piece(expanded)) = Parse(Reading(s, text))
      /\ IsOpen(config) /\ Settled(s) => IsClean(Searched(config[Len(config)]))
      /\ ~IsOpen(config) /\ Settled(s) => \A i \in 1..Len(s) : s[i].kind = "set"

\* Directives stand for themselves.
LEMMA CleanReading ==
  ASSUME NEW text \in [1..3 -> Seq(Lines)], NEW s \in Seq(Lines), \A i \in 1..Len(s) : s[i].kind = "set"
  PROVE  Reading(s, text) = s
<1> DEFINE Sets(u) == \A i \in 1..Len(u) : u[i].kind = "set"
           P == {u \in Seq(Lines) : Sets(u) => Reading(u, text) = u}
<1>1. <<>> \in P
  <2>1. <<>> \in Seq(Lines) /\ Reading(<<>>, text) = <<>>
    BY ReadingEmpty
  <2> HIDE DEF Sets
  <2> QED BY <2>1
<1>2. ASSUME NEW u \in P, NEW line \in Lines PROVE Append(u, line) \in P
  <2> DEFINE v == Append(u, line)
             L == Len(u) + 1
  <2>1. u \in Seq(Lines) /\ (Sets(u) => Reading(u, text) = u)
    OBVIOUS
  <2> HIDE DEF P
  <2>2. /\ v \in Seq(Lines) /\ Len(v) = L /\ v[L] = line /\ L \in 1..L
        /\ \A i \in 1..Len(u) : v[i] = u[i] /\ i \in 1..L
    BY <2>1, LastOf
  <2>3. Reading(v, text) = Reading(u, text) \o Stands(v, L, text)
    BY <2>1, ReadingAppend
  <2>4. u \o <<line>> = v
    BY <2>1
  <2> HIDE DEF v, L
  <2> SUFFICES ASSUME Sets(v) PROVE Reading(v, text) = v
    BY <2>2 DEF P, v
  <2>5. Sets(u)
    BY <2>2
  <2>6. ~Resolved(v, L)
    <3>1. v[L].kind = "set"
      BY <2>2
    <3> QED BY <3>1 DEF Resolved, IsInclude
  <2>7. Stands(v, L, text) = <<line>>
    BY <2>2, <2>6 DEF Stands
  <2> QED BY <2>1, <2>3, <2>4, <2>5, <2>7
<1>3. s \in P
  <2> HIDE DEF P
  <2>1. P \in SUBSET Seq(Lines)
    BY DEF P
  <2> QED BY <1>1, <1>2, <2>1, EveryList
<1> QED BY <1>3

\* The first lines of a tidy file: the next of them.
LEMMA OwnedNext ==
  ASSUME NEW expanded, NEW text, SameParse(expanded, text),
         NEW s \in Seq(Lines), NEW line \in Lines,
         IsTidy(Append(s, line), text), IsOwned(s, expanded, text)
  PROVE  IsOwned(Append(s, line), expanded, text)
<1> DEFINE t == Append(s, line)
           f == Piece(expanded)
           config == Parse(s)
           new == Parse(t)
           out == FlatMap(config, f)
           rd == Reading(s, text)
           y == Stands(t, Len(s) + 1, text)
<1>1. /\ t \in Seq(Lines) /\ t # <<>> /\ Len(t) = Len(s) + 1 /\ t[Len(t)] = line /\ t[Len(s) + 1] = line
      /\ \A i \in 1..Len(s) : t[i] = s[i]
      /\ \A i \in 1..Len(t) : i \in 1..Len(s) \/ i = Len(s) + 1
      /\ Len(s) \in Nat
  BY LastOf
<1>2. expanded \in Expanded /\ text \in [1..3 -> Seq(Lines)] /\ \A n \in 1..3 : expanded[n] = Parse(text[n])
  BY DEF SameParse
<1>3. f \in Lister(Sections, Sections)
  BY <1>2, PieceIs
<1>4. config \in Configs /\ new = ParseLine(config, line)
  BY ParseAppend
<1>5. Reading(t, text) = rd \o y /\ rd \in Seq(Lines)
  BY <1>2, ReadingAppend
<1>6. /\ out = Parse(rd)
      /\ IsOpen(config) /\ Settled(s) => IsClean(Searched(config[Len(config)]))
      /\ ~IsOpen(config) /\ Settled(s) => \A i \in 1..Len(s) : s[i].kind = "set"
  BY DEF IsOwned
<1>7. Resolved(t, Len(t)) <=> IsInclude(line) /\ (IsOpen(config) => IsHost(config[Len(config)].line))
  BY <1>1, ResolvedIf
<1>8. /\ Resolved(t, Len(t)) => IsInclude(line) /\ line.of \in 1..3 /\ y = text[line.of]
      /\ ~Resolved(t, Len(t)) => y = <<line>>
  BY <1>1, IncludeOf DEF Stands, Resolved
<1>9. ASSUME Resolved(t, Len(t))
      PROVE  (\E j \in 1..Len(s) : s[j].kind # "set") /\ text[line.of] # <<>> => Opens(text[line.of][1])
  <2>1. Len(t) \in 1..Len(t) /\ Len(t) - 1 = Len(s)
    BY <1>1
  <2>2. (\E j \in 1..(Len(t) - 1) : t[j].kind # "set") /\ text[t[Len(t)].of] # <<>> => Opens(text[t[Len(t)].of][1])
    BY <1>1, <1>9, <2>1 DEF IsTidy, t
  <2> QED BY <1>1, <2>1, <2>2
<1>10. ASSUME s # <<>>, line.kind = "set" PROVE Settled(s)
  <2>1. Len(s) \in 1..Len(s) /\ Len(s) \in 1..Len(t) /\ Len(s) < Len(t)
    BY <1>1, <1>10
  <2>2. ~Resolved(t, Len(s))
    BY <1>1, <1>10, <2>1 DEF IsTidy, t
  <2> QED BY <1>10, <2>1, <2>2, ResolvedBefore DEF Settled, t
<1>11. rd \o <<line>> = Append(rd, line)
  <2> HIDE DEF rd
  <2> QED BY <1>5
<1>12. ~IsOpen(config) => \A i \in 1..Len(s) : ~Opens(s[i])
  BY OpenSection
<1>13. IsOpen(config) => \E i \in 1..Len(s) : Opens(s[i])
  BY OpenSection
<1> HIDE DEF t, f, config, new, out, rd, y
<1>14. SUFFICES /\ FlatMap(new, f) = Parse(rd \o y)
                /\ IsOpen(new) /\ ~Resolved(t, Len(t)) => IsClean(Searched(new[Len(new)]))
                /\ ~IsOpen(new) /\ ~Resolved(t, Len(t)) => \A i \in 1..Len(t) : t[i].kind = "set"
  BY <1>5 DEF IsOwned, Settled, t, f, new
<1>15. ASSUME new = Append(config, Section(line, <<>>))
       PROVE  /\ new[Len(new)] = Section(line, <<>>) /\ IsClean(Searched(new[Len(new)]))
              /\ IsOpen(new) <=> Opens(line)
              /\ IsInclude(line) => FlatMap(new, f) = out \o expanded[line.of]
              /\ ~IsInclude(line) => FlatMap(new, f) = Append(out, Section(line, <<>>))
  <2> DEFINE section == Section(line, <<>>)
  <2>1. /\ section \in Sections /\ section.line = line /\ IsClean(Searched(section))
        /\ IsInclude(line) => f[section] = expanded[line.of]
        /\ ~IsInclude(line) => f[section] = <<section>>
    BY <1>2, NewSection DEF f
  <2> HIDE DEF section
  <2>2. new = Append(config, section)
    BY <1>15 DEF section
  <2>3. config \in Seq(Sections)
    BY <1>4 DEF Configs
  <2>4. Append(config, section)[Len(Append(config, section))] = section /\ Append(config, section) # <<>>
    BY <2>1, <2>3, LastOf
  <2>5. FlatMap(Append(config, section), f) = FlatMap(config, f) \o f[section]
    BY <1>3, <2>1, <2>3, FlatAppend
  <2>6. out \in Seq(Sections)
    BY <1>3, <2>3, FlatType DEF out
  <2>7. out \o <<section>> = Append(out, section)
    BY <2>1, <2>6
  <2>8. IsOpen(new) <=> Opens(line)
    BY <2>1, <2>2, <2>4 DEF IsOpen
  <2> QED BY <2>1, <2>2, <2>4, <2>5, <2>7, <2>8 DEF section, out
<1>16. ~Resolved(t, Len(t)) => Parse(rd \o y) = ParseLine(out, line) /\ out \in Configs
  <2>1. Parse(Append(rd, line)) = ParseLine(out, line) /\ out \in Configs
    BY <1>5, <1>6, ParseAppend
  <2> QED BY <1>8, <1>11, <2>1
<1>17. CASE Opens(line)
  <2>1. new = Append(config, Section(line, <<>>))
    BY <1>4, <1>17, StartsSection
  <2>2. ~IsInclude(line) /\ ~Resolved(t, Len(t))
    BY <1>7, <1>17 DEF Opens, IsInclude
  <2>3. ParseLine(out, line) = Append(out, Section(line, <<>>))
    BY <1>16, <1>17, <2>2, StartsSection
  <2> QED BY <1>15, <1>16, <1>17, <2>1, <2>2, <2>3
<1>18. CASE Resolved(t, Len(t))
  <2> DEFINE x == expanded[line.of]
  <2>1. y \in Seq(Lines) /\ x = Parse(y) /\ x \in Configs /\ IsInclude(line)
    BY <1>2, <1>8, <1>18 DEF Expanded
  <2>2. ~Opens(line)
    BY <2>1 DEF Opens, IsInclude
  <2>3. (\E j \in 1..Len(s) : s[j].kind # "set") /\ y # <<>> => Opens(y[1])
    BY <1>8, <1>9, <1>18
  <2> HIDE DEF x
  <2>4. ASSUME y = <<>> \/ Opens(y[1]) \/ ~IsOpen(out) PROVE Parse(rd \o y) = out \o x
    <3>1. Parse(rd \o y) = Parse(rd) \o Parse(y)
      BY <1>5, <1>6, <2>1, <2>4, ParseJoin
    <3> QED BY <1>6, <2>1, <3>1
  <2>5. CASE IsOpen(config)
    <3>1. PICK front \in Configs, last \in Sections :
            config = Append(front, last) /\ Opens(last.line) /\ config[Len(config)] = last
      BY <1>4, <2>5, OpenIs
    <3>2. IsHost(last.line)
      BY <1>7, <1>18, <2>5, <3>1
    <3> DEFINE more == Section(last.line, Append(last.children, line))
    <3>3. new = Append(front, more)
      BY <1>4, <2>2, <3>1, JoinsSection
    <3>4. more \in Sections /\ f[more] = f[last] \o x
      BY <1>2, <2>1, <3>2, IncludePiece DEF f, x
    <3> HIDE DEF more
    <3> DEFINE a == FlatMap(front, f)
               b == f[last]
    <3>5. front \in Seq(Sections) /\ a \in Seq(Sections) /\ b \in Seq(Sections) /\ x \in Seq(Sections)
      <4>1. front \in Seq(Sections) /\ x \in Seq(Sections)
        BY <2>1 DEF Configs
      <4>2. a \in Seq(Sections)
        BY <1>3, <4>1, FlatType
      <4>3. b \in Seq(Sections)
        BY <1>3, ListerOf
      <4> QED BY <4>1, <4>2, <4>3
    <3>6. FlatMap(Append(front, more), f) = a \o f[more]
      <4>1. more \in Sections
        BY <3>4
      <4> QED BY <1>3, <3>5, <4>1, FlatAppend
    <3>7. FlatMap(Append(front, last), f) = a \o b
      BY <1>3, <3>5, FlatAppend
    <3>8. Regroups(a, b, x)
      <4> HIDE DEF a, b
      <4> QED BY <3>5, Associative
    <3>9. FlatMap(new, f) = out \o x
      BY <3>1, <3>3, <3>4, <3>6, <3>7, <3>8 DEF out, Regroups
    <3>10. \E j \in 1..Len(s) : s[j].kind # "set"
      BY <1>13, <2>5 DEF Opens
    <3>11. y = <<>> \/ Opens(y[1])
      BY <2>3, <3>10
    <3> QED BY <1>18, <2>4, <3>9, <3>11
  <2>6. CASE ~IsOpen(config)
    <3>1. new = Append(config, Section(line, <<>>))
      BY <1>4, <2>6, StartsSection
    <3>2. FlatMap(new, f) = out \o x
      BY <1>15, <2>1, <3>1 DEF x
    <3>3. ASSUME ~(\E j \in 1..Len(s) : s[j].kind # "set") PROVE ~IsOpen(out)
      <4>1. \A i \in 1..Len(s) : s[i].kind = "set"
        BY <3>3
      <4>2. rd = s
        BY <1>2, <4>1, CleanReading DEF rd
      <4> QED BY <1>6, <2>6, <4>2 DEF config
    <3> QED BY <1>18, <2>3, <2>4, <3>2, <3>3
  <2> QED BY <2>5, <2>6
<1>19. CASE ~Opens(line) /\ ~Resolved(t, Len(t))
  <2>1. line.kind = "set" \/ IsInclude(line)
    BY <1>19, ConfigAssumption DEF Opens, IsInclude
  <2>2. CASE IsOpen(config)
    <3>1. PICK front \in Configs, last \in Sections :
            config = Append(front, last) /\ Opens(last.line) /\ config[Len(config)] = last
      BY <1>4, <2>2, OpenIs
    <3> DEFINE more == Section(last.line, Append(last.children, line))
    <3>2. new = Append(front, more)
      BY <1>4, <1>19, <3>1, JoinsSection
    <3>3. /\ more \in Sections /\ more.line = last.line /\ more.children = Append(last.children, line)
          /\ ~IsInclude(last.line) /\ last.children \in Seq(Lines)
      BY <3>1 DEF Section, Sections, Opens, IsInclude
    <3> HIDE DEF more
    <3>4. IsClean(Searched(last)) /\ IsClean(Searched(more))
      <4>1. CASE ~IsHost(last.line)
        <5>1. Searched(last) = <<>> /\ Searched(more) = <<>>
          BY <3>3, <4>1, SearchedIs
        <5> QED BY <5>1 DEF IsClean
      <4>2. CASE IsHost(last.line)
        <5> DEFINE c == last.children
        <5>1. line.kind = "set" /\ ~IsInclude(line)
          BY <1>7, <1>19, <2>1, <2>2, <3>1, <4>2
        <5>2. s # <<>>
          BY <2>2, ParseEmpty DEF config, IsOpen
        <5>3. c \in Seq(Lines) /\ IsClean(c) /\ Searched(last) = c /\ Searched(more) = Append(c, line)
          BY <1>6, <1>10, <2>2, <3>1, <3>3, <4>2, <5>1, <5>2, SearchedIs
        <5> HIDE DEF c
        <5>4. /\ Len(Append(c, line)) = Len(c) + 1 /\ Append(c, line)[Len(c) + 1] = line
              /\ \A i \in 1..Len(c) : Append(c, line)[i] = c[i]
              /\ \A i \in 1..(Len(c) + 1) : i \in 1..Len(c) \/ i = Len(c) + 1
          BY <5>3, LastOf
        <5>5. IsClean(Append(c, line))
          BY <5>1, <5>3, <5>4 DEF IsClean
        <5> QED BY <5>3, <5>5
      <4> QED BY <4>1, <4>2
    <3>5. f[last] = <<last>> /\ f[more] = <<more>>
      BY <1>2, <3>3, <3>4, CleanPiece DEF f
    <3> DEFINE a == FlatMap(front, f)
    <3>6. front \in Seq(Sections) /\ a \in Seq(Sections) /\ a \in Configs
      BY <1>3, FlatType DEF Configs
    <3>7. FlatMap(Append(front, more), f) = a \o f[more]
      BY <1>3, <3>3, <3>6, FlatAppend
    <3>8. FlatMap(Append(front, last), f) = a \o f[last]
      BY <1>3, <3>6, FlatAppend
    <3> HIDE DEF a
    <3>9. a \o <<more>> = Append(a, more) /\ a \o <<last>> = Append(a, last)
      BY <3>3, <3>6
    <3>10. out = Append(a, last) /\ FlatMap(new, f) = Append(a, more)
      BY <3>1, <3>2, <3>5, <3>7, <3>8, <3>9 DEF out
    <3>11. ParseLine(Append(a, last), line) = Append(a, more)
      BY <1>19, <3>1, <3>6, JoinsSection DEF more
    <3>12. Append(front, more)[Len(Append(front, more))] = more /\ Append(front, more) # <<>>
      BY <3>3, <3>6, LastOf
    <3>13. IsOpen(new) /\ IsClean(Searched(new[Len(new)]))
      BY <3>1, <3>2, <3>3, <3>4, <3>12 DEF IsOpen
    <3> QED BY <1>16, <1>19, <3>10, <3>11, <3>13
  <2>3. CASE ~IsOpen(config)
    <3>1. new = Append(config, Section(line, <<>>))
      BY <1>4, <2>3, StartsSection
    <3>2. line.kind = "set" /\ ~IsInclude(line)
      BY <1>7, <1>19, <2>1, <2>3
    <3>3. \A i \in 1..Len(s) : s[i].kind = "set"
      <4>1. CASE s = <<>>
        BY <4>1
      <4>2. CASE s # <<>>
        BY <1>6, <1>10, <2>3, <3>2, <4>2
      <4> QED BY <4>1, <4>2
    <3>4. rd = s
      BY <1>2, <3>3, CleanReading DEF rd
    <3>5. ~IsOpen(out)
      BY <1>6, <2>3, <3>4 DEF config
    <3>6. ParseLine(out, line) = Append(out, Section(line, <<>>))
      BY <1>16, <1>19, <3>5, StartsSection
    <3>7. \A i \in 1..Len(t) : t[i].kind = "set"
      BY <1>1, <3>2, <3>3
    <3> QED BY <1>15, <1>16, <1>19, <3>1, <3>2, <3>6, <3>7
  <2> QED BY <2>2, <2>3
<1> QED BY <1>17, <1>18, <1>19

\* In a tidy file every directive belongs to the section that a reading from top
\* to bottom gives it to.
LEMMA FileOwned ==
  ASSUME NEW expanded, NEW text, SameParse(expanded, text), NEW lines \in Seq(Lines), IsTidy(lines, text)
  PROVE  Expansion(lines, expanded) = Parse(Reading(lines, text))
<1> DEFINE P == {s \in Seq(Lines) : IsTidy(s, text) => IsOwned(s, expanded, text)}
<1>1. expanded \in Expanded /\ text \in [1..3 -> Seq(Lines)]
  BY DEF SameParse
<1>2. ASSUME NEW s \in Seq(Lines), s = <<>> PROVE s \in P
  <2>1. Parse(s) = <<>> /\ Len(s) = 0
    BY <1>2, ParseEmpty
  <2>2. FlatMap(<<>>, Piece(expanded)) = <<>> /\ Reading(<<>>, text) = <<>>
    BY <1>1, PieceIs, ReadingEmpty, FlatEmpty
  <2>3. IsOwned(s, expanded, text)
    BY <1>2, <2>1, <2>2 DEF IsOwned, IsOpen
  <2> QED BY <2>3
<1>3. <<>> \in P
  <2>1. <<>> \in Seq(Lines)
    OBVIOUS
  <2> HIDE DEF P
  <2> QED BY <1>2, <2>1
<1>4. ASSUME NEW s \in P, NEW line \in Lines PROVE Append(s, line) \in P
  <2> DEFINE t == Append(s, line)
  <2>1. s \in Seq(Lines) /\ (IsTidy(s, text) => IsOwned(s, expanded, text))
    OBVIOUS
  <2>2. t \in Seq(Lines)
    BY <2>1
  <2> HIDE DEF P, t
  <2> SUFFICES ASSUME IsTidy(t, text) PROVE IsOwned(t, expanded, text)
    BY <2>2 DEF P, t
  <2>3. IsTidy(s, text)
    BY <2>1, TidyBefore DEF t
  <2> QED BY <2>1, <2>3, OwnedNext DEF t
<1>5. lines \in P
  <2> HIDE DEF P
  <2>1. P \in SUBSET Seq(Lines)
    BY DEF P
  <2> QED BY <1>3, <1>4, <2>1, EveryList
<1>6. FlatMap(Parse(lines), Piece(expanded)) = Parse(Reading(lines, text))
  BY <1>5 DEF IsOwned
<1>7. Expansion(lines, expanded) = FlatMap(Parse(lines), Piece(expanded))
  BY <1>1, ExpansionIs
<1> QED BY <1>6, <1>7

\* Three configurations that are what the parser makes of three texts.
LEMMA ThreeParsed ==
  ASSUME NEW a \in Configs, NEW b \in Configs, NEW c \in Configs,
         NoIncludes(a), NoIncludes(b), NoIncludes(c),
         NEW x \in Seq(Lines), NEW y \in Seq(Lines), NEW z \in Seq(Lines),
         a = Parse(x), b = Parse(y), c = Parse(z)
  PROVE  SameParse(<<a, b, c>>, <<x, y, z>>)
<1>1. 1..3 = {1, 2, 3}
  OBVIOUS
<1> DEFINE f == <<a, b, c>>
           g == <<x, y, z>>
<1>2. f \in [1..3 -> Configs] /\ f[1] = a /\ f[2] = b /\ f[3] = c
  BY <1>1
<1>3. g \in [1..3 -> Seq(Lines)] /\ g[1] = x /\ g[2] = y /\ g[3] = z
  BY <1>1
<1> HIDE DEF f, g
<1>4. f \in Expanded
  BY <1>1, <1>2 DEF Expanded
<1>5. \A n \in 1..3 : f[n] = Parse(g[n])
  BY <1>1, <1>2, <1>3
<1>6. SameParse(f, g)
  BY <1>3, <1>4, <1>5 DEF SameParse
<1> QED BY <1>6 DEF f, g

\* A file of a tidy configuration, where text has what its Include lines stand for.
LEMMA TidyFile ==
  ASSUME ConfigInit, Tidy, NEW n \in {1, 2, 3}, NEW text \in [1..3 -> Seq(Lines)],
         \A i \in 1..Len(file[n]) : IsInclude(file[n][i]) => text[file[n][i].of] = Linear(file[n][i].of)
  PROVE  IsTidy(file[n], text)
<1> DEFINE lines == file[n]
<1>1. lines \in Seq(Lines) /\ DOMAIN lines = 1..Len(lines)
  <2>1. n \in 1..3
    OBVIOUS
  <2>2. lines \in Seq(Lines)
    BY <2>1, FilesAre
  <2> QED BY <2>2
<1>2. \A i \in DOMAIN lines : Resolved(lines, i) =>
        /\ i < Len(lines) => lines[i + 1].kind # "set"
        /\ LET here == Linear(lines[i].of)
               inside == \E j \in 1..(i - 1) : lines[j].kind # "set"
           IN  inside /\ here # <<>> => Opens(Head(here))
  BY DEF Tidy
<1>3. \A i \in 1..Len(lines) : IsInclude(lines[i]) => text[lines[i].of] = Linear(lines[i].of)
  OBVIOUS
<1> HIDE DEF lines
<1> SUFFICES ASSUME NEW i \in 1..Len(lines), Resolved(lines, i)
             PROVE  /\ i < Len(lines) => lines[i + 1].kind # "set"
                    /\ LET inside == \E j \in 1..(i - 1) : lines[j].kind # "set"
                       IN  inside /\ text[lines[i].of] # <<>> => Opens(text[lines[i].of][1])
  BY DEF IsTidy, lines
<1> DEFINE here == Linear(lines[i].of)
<1>4. lines[i].of \in 1..3 /\ IsInclude(lines[i])
  <2>1. lines[i] \in Lines /\ IsInclude(lines[i])
    BY <1>1 DEF Resolved
  <2> QED BY <2>1, IncludeOf
<1>5. text[lines[i].of] = here /\ here \in Seq(Lines)
  BY <1>3, <1>4
<1>6. /\ i < Len(lines) => lines[i + 1].kind # "set"
      /\ (\E j \in 1..(i - 1) : lines[j].kind # "set") /\ here # <<>> => Opens(Head(here))
  BY <1>1, <1>2
<1> HIDE DEF here
<1>7. here # <<>> => Head(here) = here[1]
  BY <1>5
<1> QED BY <1>5, <1>6, <1>7

\* In tidy files, whatever is nested and hoisted, every directive is in the section
\* that a reading from top to bottom gives it to.
THEOREM AllDirectivesOwned == ConfigInit => DirectivesOwned
<1> SUFFICES ASSUME ConfigInit, Tidy PROVE Expand(1) = Parse(Linear(1))
  BY DEF DirectivesOwned
<1> DEFINE none == <<>>
<1>1. none \in Configs /\ NoIncludes(none) /\ none \in Seq(Lines) /\ none = Parse(none)
  <2>1. <<>> \in Configs /\ <<>> \in Seq(Lines) /\ NoIncludes(<<>>)
    BY DEF Configs, NoIncludes
  <2> QED BY <2>1, ParseEmpty
<1>2. /\ file[1] \in Seq(Lines) /\ file[2] \in Seq(Lines) /\ file[3] \in Seq(Lines)
      /\ file[1] \in Seq(UserLines) /\ file[2] \in Seq(IncludedLines) /\ file[3] \in Seq(SystemLines)
  BY FilesAre
<1>3. /\ SecondConfig \in Configs /\ ThirdConfig \in Configs
      /\ NoIncludes(SecondConfig) /\ NoIncludes(ThirdConfig)
      /\ SecondText \in Seq(Lines) /\ ThirdText \in Seq(Lines)
  BY FilesNamed
<1> HIDE DEF none
<1> DEFINE none3 == <<none, none, none>>
           text2 == <<none, none, ThirdText>>
           text1 == <<none, SecondText, ThirdText>>
<1>4. /\ none3 \in [1..3 -> Seq(Lines)] /\ text2 \in [1..3 -> Seq(Lines)] /\ text1 \in [1..3 -> Seq(Lines)]
      /\ text2[3] = ThirdText /\ text1[2] = SecondText /\ text1[3] = ThirdText
  <2>1. 1..3 = {1, 2, 3}
    OBVIOUS
  <2> QED BY <1>1, <1>3, <2>1
<1>5. ThirdConfig = Parse(ThirdText)
  <2>1. \A i \in 1..Len(file[3]) : ~IsInclude(file[3][i])
    <3>1. \A i \in 1..Len(file[3]) : file[3][i] \in SystemLines
      BY <1>2
    <3> QED BY <3>1, ConfigAssumption DEF Includes, Lines
  <2>2. IsTidy(file[3], none3)
    BY <2>1 DEF IsTidy, Resolved
  <2>3. SameParse(none3, none3)
    BY <1>1, ThreeParsed
  <2> HIDE DEF none3
  <2>4. Expansion(file[3], none3) = Parse(Reading(file[3], none3))
    BY <1>2, <2>2, <2>3, FileOwned
  <2> QED BY <2>4 DEF ThirdConfig, ThirdText, none3, none
<1>6. SecondConfig = Parse(SecondText)
  <2>1. \A i \in 1..Len(file[2]) : IsInclude(file[2][i]) => file[2][i].of = 3
    <3>1. \A i \in 1..Len(file[2]) : file[2][i] \in IncludedLines
      BY <1>2
    <3> QED BY <3>1, ConfigAssumption DEF Includes, Lines
  <2>2. IsTidy(file[2], text2)
    <3> HIDE DEF text2
    <3>1. \A i \in 1..Len(file[2]) : IsInclude(file[2][i]) => text2[file[2][i].of] = Linear(file[2][i].of)
      BY <1>4, <2>1, FilesRead
    <3> QED BY <1>4, <3>1, TidyFile
  <2> DEFINE config2 == <<none, none, ThirdConfig>>
  <2>3. SameParse(config2, text2)
    BY <1>1, <1>3, <1>5, ThreeParsed
  <2> HIDE DEF text2, config2
  <2>4. Expansion(file[2], config2) = Parse(Reading(file[2], text2))
    BY <1>2, <2>2, <2>3, FileOwned
  <2> QED BY <2>4 DEF SecondConfig, SecondText, config2, text2, none
<1>7. FirstConfig = Parse(FirstText)
  <2>1. \A i \in 1..Len(file[1]) : IsInclude(file[1][i]) => file[1][i].of \in {2, 3}
    <3>1. \A i \in 1..Len(file[1]) : file[1][i] \in Lines
      BY <1>2
    <3> QED BY <3>1, IncludeOf
  <2>2. IsTidy(file[1], text1)
    <3> HIDE DEF text1
    <3>1. \A i \in 1..Len(file[1]) : IsInclude(file[1][i]) => text1[file[1][i].of] = Linear(file[1][i].of)
      BY <1>4, <2>1, FilesRead
    <3> QED BY <1>4, <3>1, TidyFile
  <2> DEFINE config1 == <<none, SecondConfig, ThirdConfig>>
  <2>3. SameParse(config1, text1)
    BY <1>1, <1>3, <1>5, <1>6, ThreeParsed
  <2> HIDE DEF text1, config1
  <2>4. Expansion(file[1], config1) = Parse(Reading(file[1], text1))
    BY <1>2, <2>2, <2>3, FileOwned
  <2> QED BY <2>4 DEF FirstConfig, FirstText, config1, text1, none
<1> QED BY <1>7, FilesRead
==============================================================================
