-------------------------- MODULE VaultMandate_proofs --------------------------
(***************************************************************************)
(* Theorems about VaultMandate, for every set of clients, texts, intents,  *)
(* actors and keys, every setting of the bridge and every number of        *)
(* requests: the log tells the truth, the vault is atomic, and what the    *)
(* bridge lets through stays within its policy.                            *)
(***************************************************************************)
EXTENDS VaultMandate, FiniteSetTheorems, WellFoundedInduction, TLAPS

-----------------------------------------------------------------------------
(* Least and greatest places *)

LEMMA LeastOf ==
    ASSUME NEW S \in SUBSET Nat, S # {}
    PROVE  Min(S) \in S /\ \A i \in S : Min(S) <= i
  <1>1. \E x \in S : \A y \in S : <<y, x>> \notin OpToRel(<, Nat)
    BY NatLessThanWellFounded, WFMin, Zenon
  <1>2. ASSUME NEW x \in Nat, NEW y \in Nat, y < x
        PROVE  <<y, x>> \in OpToRel(<, Nat)
    <2>1. <<y, x>> \in Nat \X Nat /\ <<y, x>>[1] < <<y, x>>[2]
      BY <1>2
    <2>2. QED BY <2>1, Zenon DEF OpToRel
  <1>3. PICK x \in S : \A y \in S : <<y, x>> \notin OpToRel(<, Nat)
    BY <1>1, Zenon
  <1>4. \A y \in S : x <= y
    <2> TAKE y \in S
    <2>1. ~(y < x)
      BY <1>2, <1>3
    <2>2. QED BY <2>1
  <1>5. QED BY <1>4 DEF Min

LEMMA GreatestOf ==
    ASSUME NEW n \in Nat, NEW S \in SUBSET (1..n), S # {}
    PROVE  Max(S) \in S /\ \A i \in S : i <= Max(S)
  <1> DEFINE T == {n - i : i \in S}
  <1>1. T \in SUBSET Nat /\ T # {}
    <2>1. \A i \in S : n - i \in Nat
      OBVIOUS
    <2>2. QED BY <2>1
  <1>2. Min(T) \in T /\ \A j \in T : Min(T) <= j
    BY <1>1, LeastOf
  <1>3. PICK x \in S : Min(T) = n - x
    BY <1>2
  <1>4. \A y \in S : n - x <= n - y
    BY <1>2, <1>3
  <1>5. \A y \in S : x >= y
    BY <1>4
  <1>6. QED BY <1>5 DEF Max

-----------------------------------------------------------------------------
(* Prefixes and suffixes, token by token *)

Token == STRING \cup {"/"}

LEMMA BlankIsNoSeparator == Blank \notin Separators
  BY Zenon DEF Blank, Separators

LEMMA LengthIsNat ==
    ASSUME NEW S, NEW s \in Seq(S)
    PROVE  Len(s) \in Nat /\ DOMAIN s = 1..Len(s)
  OBVIOUS

LEMMA TextsAreTokens == Seq(STRING) \subseteq Seq(Token)
  BY DEF Token

LEMMA PrefixTokens ==
    ASSUME NEW s \in Seq(Token), NEW t \in Seq(Token)
    PROVE  IsPrefix(s, t) <=> /\ Len(s) <= Len(t)
                              /\ \A i \in 1..Len(s) : s[i] = t[i]
  <1>1. ASSUME Len(s) <= Len(t)
        PROVE  SubSeq(s, 1, Len(s)) = SubSeq(t, 1, Len(s)) <=> \A i \in 1..Len(s) : s[i] = t[i]
    <2>1. SubSeq(s, 1, Len(s)) = [i \in 1..Len(s) |-> s[i]]
      OBVIOUS
    <2>2. SubSeq(t, 1, Len(s)) = [i \in 1..Len(s) |-> t[i]]
      BY <1>1
    <2>3. QED BY <2>1, <2>2
  <1>2. QED BY <1>1 DEF IsPrefix

LEMMA ReversedIsText ==
    ASSUME NEW s \in Seq(Token)
    PROVE  /\ Reverse(s) \in Seq(Token) /\ Len(Reverse(s)) = Len(s)
           /\ \A i \in 1..Len(s) : Reverse(s)[i] = s[Len(s) - i + 1]
  BY DEF Reverse

LEMMA SuffixTokens ==
    ASSUME NEW s \in Seq(Token), NEW t \in Seq(Token), s # <<>>, IsSuffix(s, t)
    PROVE  t # <<>> /\ t[Len(t)] = s[Len(s)]
  <1>1. /\ Len(s) <= Len(t)
        /\ \A i \in 1..Len(s) : Reverse(s)[i] = Reverse(t)[i]
    BY ReversedIsText, PrefixTokens DEF IsSuffix
  <1>2. 1 \in 1..Len(s) /\ 1 \in 1..Len(t)
    BY <1>1
  <1>3. Reverse(s)[1] = s[Len(s)] /\ Reverse(t)[1] = t[Len(t)]
    BY <1>2, ReversedIsText
  <1>4. QED BY <1>1, <1>2, <1>3

-----------------------------------------------------------------------------
(* What the two parsers make of one text *)

LEMMA SlashedText ==
    ASSUME NEW t \in Seq(Token)
    PROVE  /\ ForwardSlashes(t) \in Seq(Token)
           /\ Len(ForwardSlashes(t)) = Len(t)
           /\ \A i \in 1..Len(t) :
                 /\ ForwardSlashes(t)[i] = "/" <=> t[i] \in Separators
                 /\ ForwardSlashes(t)[i] = Blank <=> t[i] = Blank
                 /\ t[i] \notin Separators => ForwardSlashes(t)[i] = t[i]
  <1>1. ForwardSlashes(t) = [i \in 1..Len(t) |-> IF t[i] = "\\" THEN "/" ELSE t[i]]
    BY DEF ForwardSlashes
  <1>2. \A i \in 1..Len(t) : t[i] \in Token
    OBVIOUS
  <1>3. ForwardSlashes(t) \in Seq(Token) /\ Len(ForwardSlashes(t)) = Len(t)
    <2>1. Len(t) \in Nat
      OBVIOUS
    <2>2. \A i \in 1..Len(t) : (IF t[i] = "\\" THEN "/" ELSE t[i]) \in Token
      BY <1>2 DEF Token
    <2>3. ForwardSlashes(t) \in [1..Len(t) -> Token]
      BY <1>1, <2>2
    <2>4. QED BY <2>1, <2>3
  <1>4. QED BY <1>1, <1>3, BlankIsNoSeparator DEF Separators

LEMMA Part ==
    ASSUME NEW t \in Seq(Token), NEW a \in 1..Len(t), NEW b \in 1..Len(t), a <= b
    PROVE  /\ SubSeq(t, a, b) \in Seq(Token)
           /\ Len(SubSeq(t, a, b)) = b - a + 1
           /\ \A i \in 1..(b - a + 1) : SubSeq(t, a, b)[i] = t[a + i - 1]
  OBVIOUS

LEMMA IntervalSize ==
    ASSUME NEW n \in Nat
    PROVE  Cardinality(1..n) = n
  <1>1. Cardinality(1..n) = IF 1 > n THEN 0 ELSE n - 1 + 1
    BY FS_Interval
  <1>2. QED BY <1>1

\* The first token is kept as it is.
LEMMA CollapseHead ==
    ASSUME NEW w \in Seq(Token), w # <<>>
    PROVE  Collapse(w) # <<>> => Collapse(w)[1] = ForwardSlashes(w)[1]
  <1> DEFINE t == ForwardSlashes(w)
             S == Singles(t)
             nth(n) == CHOOSE i \in S : Cardinality({k \in S : k <= i}) = n
  <1>0. t \in Seq(Token) /\ Len(t) = Len(w)
    BY SlashedText
  <1>1. 1 \in S /\ S \subseteq 1..Len(t)
    BY <1>0 DEF Singles
  <1>2. IsFiniteSet(S)
    <2>1. IsFiniteSet(1..Len(t))
      BY <1>0, FS_Interval
    <2>2. QED BY <1>1, <2>1, FS_Subset
  <1>3. {k \in S : k <= 1} = {1}
    BY <1>1
  <1>4. Cardinality({k \in S : k <= 1}) = 1
    BY <1>3, FS_Singleton
  <1>5. ASSUME NEW i \in S, Cardinality({k \in S : k <= i}) = 1
        PROVE  i = 1
    <2> DEFINE U == {k \in S : k <= i}
    <2>1. IsFiniteSet(U)
      BY <1>2, FS_Subset
    <2>2. PICK x : U = {x}
      BY <1>5, <2>1, FS_Singleton
    <2>3. 1 \in U /\ i \in U
      BY <1>1
    <2>4. QED BY <2>2, <2>3
  <1>6. nth(1) = 1
    BY <1>1, <1>4, <1>5
  <1>7. Collapse(w) = [n \in 1..Cardinality(S) |-> t[nth(n)]]
    BY DEF Collapse
  <1>8. Cardinality(S) \in Nat /\ Cardinality(S) # 0
    BY <1>1, <1>2, FS_CardinalityType, FS_EmptySet
  <1>9. Collapse(w)[1] = t[nth(1)]
    <2> HIDE DEF nth
    <2>1. 1 \in 1..Cardinality(S)
      BY <1>8
    <2>2. QED BY <1>7, <2>1
  <1>10. QED BY <1>6, <1>9

\* A text without two slashes in a row is kept as a whole.
LEMMA CollapseKeeps ==
    ASSUME NEW w \in Seq(Token),
           \A i \in 1..(Len(w) - 1) : ~(/\ ForwardSlashes(w)[i] = "/"
                                        /\ ForwardSlashes(w)[i + 1] = "/")
    PROVE  Collapse(w) = ForwardSlashes(w)
  <1> DEFINE t == ForwardSlashes(w)
             S == Singles(t)
             nth(n) == CHOOSE i \in S : Cardinality({k \in S : k <= i}) = n
  <1>1. t \in Seq(Token) /\ Len(t) = Len(w)
    BY SlashedText
  <1>2. S = 1..Len(t)
    <2>1. ASSUME NEW i \in 1..Len(t), i # 1, t[i] = "/", t[i - 1] = "/"
          PROVE  FALSE
      <3>1. i - 1 \in 1..(Len(w) - 1) /\ (i - 1) + 1 = i
        BY <1>1, <2>1
      <3>2. QED BY <2>1, <3>1
    <2>2. DOMAIN t = 1..Len(t)
      BY <1>1
    <2>3. QED BY <2>1, <2>2 DEF Singles
  <1>3. \A i \in S : Cardinality({k \in S : k <= i}) = i
    <2> TAKE i \in S
    <2>1. {k \in S : k <= i} = 1..i
      BY <1>1, <1>2
    <2>2. i \in Nat
      BY <1>1, <1>2
    <2>3. Cardinality(1..i) = i
      BY <2>2, IntervalSize
    <2>4. QED BY <2>1, <2>3, Zenon
  <1>4. \A n \in S : nth(n) = n
    BY <1>3
  <1>5. Cardinality(S) = Len(t)
    <2>1. Len(t) \in Nat
      BY <1>1
    <2>2. Cardinality(1..Len(t)) = Len(t)
      BY <2>1, IntervalSize
    <2>3. QED BY <1>2, <2>2, Zenon
  <1>6. Collapse(w) = [n \in 1..Cardinality(S) |-> t[nth(n)]]
    BY DEF Collapse
  <1>7. Collapse(w) = [n \in 1..Len(t) |-> t[n]]
    BY <1>2, <1>4, <1>5, <1>6
  <1>8. QED BY <1>1, <1>7

-----------------------------------------------------------------------------
(* The bridge and the vault agree on the texts the bridge lets through *)

LEMMA EntryTokens ==
    ASSUME NEW e \in WritableExact \cup WritablePrefixes \cup WritableSuffixes
    PROVE  /\ e \in Seq(Token) /\ Len(e) \in Nat \ {0}
           /\ e[1] # Blank /\ e[Len(e)] # Blank
  <1>1. e \in Seq(STRING) /\ e # <<>> /\ Head(e) # Blank /\ Last(e) # Blank
    BY PolicyAssumption
  <1>2. e \in Seq(Token)
    BY <1>1, TextsAreTokens
  <1>3. Len(e) \in Nat \ {0}
    <2>1. Len(e) \in Nat
      BY <1>1, LengthIsNat
    <2>2. Len(e) # 0
      BY <1>1
    <2>3. QED BY <2>1, <2>2
  <1>4. Head(e) = e[1]
    OBVIOUS
  <1>5. QED BY <1>1, <1>2, <1>3, <1>4 DEF Last

\* A text that starts with neither a blank nor a separator, and whose slashes stand
\* alone, loses only blanks at its end.
LEMMA TrimmedPath ==
    ASSUME NEW t \in Seq(Token), NEW b \in 1..Len(t),
           ~HasBadPart(ForwardSlashes(t))
    PROVE  /\ Collapse(SubSeq(t, 1, b)) \in Seq(Token)
           /\ Len(Collapse(SubSeq(t, 1, b))) = b
           /\ \A i \in 1..b : Collapse(SubSeq(t, 1, b))[i] = ForwardSlashes(t)[i]
  <1> DEFINE u == ForwardSlashes(t)
             w == SubSeq(t, 1, b)
  <1>1. w \in Seq(Token) /\ Len(w) = b /\ \A i \in 1..b : w[i] = t[i]
    <2>1. 1 \in 1..Len(t) /\ 1 <= b /\ b - 1 + 1 = b
      OBVIOUS
    <2>2. QED BY <2>1, Part
  <1>2. ForwardSlashes(w) \in Seq(Token) /\ Len(ForwardSlashes(w)) = b
    BY <1>1, SlashedText
  <1>3. \A i \in 1..b : ForwardSlashes(w)[i] = u[i]
    BY <1>1 DEF ForwardSlashes
  <1>4. \A i \in 1..(b - 1) : ~(u[i] = "/" /\ u[i + 1] = "/")
    <2>1. Len(u) = Len(t) /\ Len(t) \in Nat
      BY SlashedText, LengthIsNat, Zenon
    <2>2. \A i \in 1..(Len(u) - 1) : ~(u[i] = "/" /\ u[i + 1] = "/")
      BY DEF HasBadPart
    <2>3. QED BY <2>1, <2>2
  <1>5. \A i \in 1..(Len(w) - 1) : ~(/\ ForwardSlashes(w)[i] = "/"
                                     /\ ForwardSlashes(w)[i + 1] = "/")
    <2> TAKE i \in 1..(Len(w) - 1)
    <2>1. i \in 1..b /\ i + 1 \in 1..b /\ i \in 1..(b - 1)
      BY <1>1
    <2>2. QED BY <1>3, <1>4, <2>1
  <1>6. Collapse(w) = ForwardSlashes(w)
    BY <1>1, <1>5, CollapseKeeps
  <1>7. QED BY <1>2, <1>3, <1>6

\* A text that the bridge finds writable, and the vault service takes, names a writable
\* file: the two parse it by rules of their own, and only the text is handed on.
THEOREM BridgeAndVaultAgree ==
    ASSUME NEW t \in Seq(STRING),
           ~AllWritable,
           NormalizeVaultPath(t) # NoPath, IsWritablePath(NormalizeVaultPath(t)),
           SafeVaultPath(t) # NoPath
    PROVE  WritableByPolicy(SafeVaultPath(t))
  <1> DEFINE u == ForwardSlashes(t)
             n == NormalizeVaultPath(t)
             K == Kept(t, {Blank})
             M == Kept(u, {"/"})
             a == Min(K)
             b == Max(K)
             m == Min(M)
             w == Strip(t, {Blank})
             v == Collapse(w)
  <1> HIDE DEF u, n, K, M, a, b, m, w, v
  <1>1. /\ t \in Seq(Token) /\ u \in Seq(Token) /\ Len(u) = Len(t) /\ Len(t) \in Nat
        /\ DOMAIN t = 1..Len(t) /\ DOMAIN u = 1..Len(t)
    <2>1. t \in Seq(Token)
      BY TextsAreTokens
    <2>2. u \in Seq(Token) /\ Len(u) = Len(t)
      BY <2>1, SlashedText DEF u
    <2>3. QED BY <2>1, <2>2, LengthIsNat
  <1>2. \A i \in 1..Len(t) : /\ u[i] = "/" <=> t[i] \in Separators
                             /\ u[i] = Blank <=> t[i] = Blank
                             /\ t[i] \notin Separators => u[i] = t[i]
    BY <1>1, SlashedText DEF u
  \* What the vault service reads.
  <1>3. /\ w # <<>> /\ Head(w) # "/"
        /\ SafeVaultPath(t) = v /\ ~HasBadPart(v)
    BY DEF SafeVaultPath, Checked, NoPath, w, v
  <1>4. K # {} /\ w = SubSeq(t, a, b)
    BY <1>3 DEF Strip, w, K, a, b
  <1>5. K \in SUBSET (1..Len(t)) /\ K \in SUBSET Nat
    <2>1. \A i \in K : i \in 1..Len(t)
      BY <1>1 DEF Kept, K
    <2>2. QED BY <1>1, <2>1
  <1>6. /\ a \in 1..Len(t) /\ b \in 1..Len(t) /\ a <= b
        /\ t[a] # Blank /\ \A i \in 1..Len(t) : t[i] # Blank => a <= i /\ i <= b
    <2>1. a \in K /\ \A i \in K : a <= i
      BY <1>4, <1>5, LeastOf DEF a
    <2>2. b \in K /\ \A i \in K : i <= b
      BY <1>1, <1>4, <1>5, GreatestOf DEF b
    <2>3. QED BY <1>1, <1>5, <2>1, <2>2 DEF Kept, K
  <1>7. w \in Seq(Token) /\ w[1] = t[a]
    <2>1. 1 \in 1..(b - a + 1) /\ a + 1 - 1 = a
      BY <1>1, <1>6
    <2>2. QED BY <1>1, <1>4, <1>6, <2>1, Part
  <1>8. t[a] \notin Separators
    <2>1. v # <<>> /\ Head(v) # "/"
      BY <1>3 DEF HasBadPart
    <2>2. v[1] = ForwardSlashes(w)[1]
      BY <1>3, <1>7, <2>1, CollapseHead DEF v
    <2>3. 1 \in 1..Len(w)
      BY <1>3, <1>7
    <2>4. ForwardSlashes(w)[1] = "/" <=> w[1] \in Separators
      BY <1>7, <2>3, SlashedText
    <2>5. Head(v) = v[1]
      BY DEF Collapse, v
    <2>6. QED BY <1>7, <2>1, <2>2, <2>4, <2>5
  \* What the bridge reads.
  <1>9. /\ n = StripLeft(u, {"/"}) /\ n # <<>> /\ ~HasBadPart(n)
    BY DEF NormalizeVaultPath, Checked, NoPath, n, u
  <1>10. M # {} /\ n = SubSeq(u, m, Len(u))
    BY <1>9 DEF StripLeft, M, m
  <1>11. /\ m \in 1..Len(t) /\ u[m] # "/"
         /\ \A i \in 1..Len(t) : i < m => u[i] = "/"
    <2>1. M \in SUBSET Nat
      BY <1>1 DEF Kept, M
    <2>2. m \in M /\ \A i \in M : m <= i
      BY <1>10, <2>1, LeastOf DEF m
    <2>3. \A i \in 1..Len(t) : i \in M <=> u[i] # "/"
      BY <1>1 DEF Kept, M
    <2>4. M \subseteq 1..Len(t)
      BY <1>1 DEF Kept, M
    <2>5. QED BY <1>1, <2>2, <2>3, <2>4
  <1>12. n \in Seq(Token) /\ n[1] = u[m]
    <2>1. Len(u) \in 1..Len(u) /\ m \in 1..Len(u) /\ m <= Len(u)
      BY <1>1, <1>11
    <2>2. 1 \in 1..(Len(u) - m + 1) /\ m + 1 - 1 = m
      BY <1>1, <1>11
    <2>3. QED BY <1>1, <1>10, <2>1, <2>2, Part
  <1>13. n[1] # Blank
    <2>1. PICK p \in WritableExact \cup WritablePrefixes : n = p \/ IsPrefix(p, n)
      BY DEF IsWritablePath, n
    <2>2. p \in Seq(Token) /\ Len(p) \in Nat \ {0} /\ p[1] # Blank
      BY EntryTokens
    <2>3. n[1] = p[1]
      BY <1>12, <2>1, <2>2, PrefixTokens
    <2>4. QED BY <2>2, <2>3
  \* The text starts where both read it from.
  <1>14. m = 1 /\ a = 1
    <2>1. t[m] # Blank /\ t[m] \notin Separators
      BY <1>2, <1>11, <1>12, <1>13
    <2>2. ASSUME m # 1 PROVE FALSE
      <3>1. 1 \in 1..Len(t) /\ 1 < m
        BY <1>1, <1>11, <2>2
      <3>2. t[1] \in Separators
        BY <1>2, <1>11, <3>1
      <3>3. t[1] # Blank
        BY <3>2, BlankIsNoSeparator
      <3>4. a = 1
        BY <1>1, <1>6, <3>1, <3>3
      <3>5. QED BY <1>8, <3>2, <3>4
    <2>3. QED BY <1>1, <1>6, <2>1, <2>2
  <1>15. n = u
    BY <1>1, <1>10, <1>14
  <1>16. /\ v \in Seq(Token) /\ Len(v) = b /\ \A i \in 1..b : v[i] = u[i]
    BY <1>1, <1>4, <1>6, <1>9, <1>14, <1>15, TrimmedPath DEF u, v
  \* The end the blanks are dropped from.
  <1>17. ASSUME NEW i \in 1..Len(t), u[i] # Blank
         PROVE  i <= b
    BY <1>2, <1>6, <1>17
  <1>18. ASSUME u[Len(t)] # Blank
         PROVE  v = u
    <2>1. Len(t) \in 1..Len(t)
      <3>1. Len(t) \in Nat /\ b \in Nat /\ b <= Len(t) /\ 1 <= b
        BY <1>1, <1>6
      <3>2. QED BY <3>1
    <2>2. Len(t) <= b /\ b <= Len(t) /\ b \in Nat /\ Len(t) \in Nat
      <3>1. Len(t) <= b
        BY <1>17, <1>18, <2>1
      <3>2. QED BY <1>1, <1>6, <3>1
    <2>3. b = Len(t)
      BY <2>2
    <2>4. QED BY <1>1, <1>16, <2>3
  <1>19. \E p \in WritableExact \cup WritablePrefixes :
            v = p \/ (p \in WritablePrefixes /\ IsPrefix(p, v))
    <2>1. CASE n \in WritableExact
      <3>1. u[Len(t)] # Blank
        BY <1>1, <1>15, <2>1, EntryTokens
      <3>2. QED BY <1>15, <1>18, <2>1, <3>1
    <2>2. ASSUME NEW p \in WritablePrefixes, IsPrefix(p, n)
          PROVE  IsPrefix(p, v)
      <3>1. p \in Seq(Token) /\ Len(p) \in Nat \ {0} /\ p[Len(p)] # Blank
        BY EntryTokens
      <3>2. Len(p) <= Len(t) /\ \A i \in 1..Len(p) : p[i] = u[i]
        BY <1>1, <1>15, <2>2, <3>1, PrefixTokens
      <3>3. Len(p) \in 1..Len(t) /\ u[Len(p)] # Blank
        BY <1>1, <3>1, <3>2
      <3>4. Len(p) <= b
        BY <1>17, <3>3
      <3>5. \A i \in 1..Len(p) : p[i] = v[i]
        BY <1>6, <1>16, <3>1, <3>2, <3>4
      <3>6. QED BY <1>16, <3>1, <3>4, <3>5, PrefixTokens
    <2>3. QED BY <2>1, <2>2 DEF IsWritablePath, n
  <1>20. WritableSuffixes # {} => \E s \in WritableSuffixes : IsSuffix(s, v)
    <2>1. SUFFICES ASSUME NEW s \in WritableSuffixes, IsSuffix(s, u)
                   PROVE  IsSuffix(s, v)
      BY <1>15 DEF IsWritablePath, n
    <2>2. s \in Seq(Token) /\ Len(s) \in Nat \ {0} /\ s[Len(s)] # Blank
      BY EntryTokens
    <2>3. u[Len(u)] = s[Len(s)]
      BY <1>1, <2>1, <2>2, SuffixTokens
    <2>4. QED BY <1>1, <1>18, <2>1, <2>2, <2>3
  <1>21. QED BY <1>3, <1>19, <1>20 DEF WritableByPolicy

-----------------------------------------------------------------------------
(* The inductive invariant *)

Piece == [op : Nat \ {0}, newline : BOOLEAN]

Contents == {NoFile} \cup (Seq(Piece) \ {<<>>})

Answer == [pc : {"idle"}, op : Nat, reply : {"none", "ok", "error"}]

\* A request as its client asks it; the mutation carries a path of a file.
Call == [pc : {"resolve", "mandate", "mutate", "stat", "log", "insert"}, op : Nat,
         via : {"direct", "bridge"}, kind : Kinds, path : ReadPaths,
         to : ReadPaths \cup {NoPath}, intent : Intents \cup {Unknown}, actor : Actors,
         key : Keys \cup {Null}, seen : Contents]

Mutation == [op : Nat, kind : Kinds, path : Paths, to : Paths \cup {NoPath},
             intent : Intents \cup {Unknown}, actor : Actors, via : {"direct", "bridge"}]

Action == [op : Nat, kind : Kinds, intent : Intents \cup {Unknown}, actor : Actors,
           key : Keys \cup {Null}, path : ReadPaths]

TypeOK ==
    /\ ops \in Nat
    /\ files \in [Paths -> Contents]
    /\ activeActors \subseteq Actors /\ activeKeys \subseteq Keys
    /\ actorKey \in [Actors -> Keys \cup {Null}]
    /\ actions \subseteq Action
    /\ performed \in Seq(Mutation)
    /\ request \in [Clients -> Answer \cup Call]

Open(c) == request[c].pc # "idle"

\* What a request performs.
MutationOf(r) == [op |-> r.op, kind |-> r.kind, path |-> r.path, to |-> r.to,
                  intent |-> r.intent, actor |-> r.actor, via |-> r.via]

Happened(r) == \E i \in DOMAIN performed : performed[i] = MutationOf(r)

\* A bridged call carries the profile's contract; without one, and unless clients may
\* name one, none before it takes its actor's.
KeyOK(r) ==
    /\ BridgeContract # Null => r.key = BridgeContract
    /\ BridgeContract = Null /\ ~ClientContext /\ r.key # Null =>
           r.pc = "insert" /\ actorKey[r.actor] # Null

\* A request's parts fit each other; through the bridge it keeps to the policy.
CallOK(r) ==
    /\ r.op \in 1..ops
    /\ r.kind # "move" => r.to = NoPath
    /\ r.pc = "stat" => r.kind = "append"
    /\ r.pc \in {"stat", "log", "insert"} =>
           r.path # NoPath /\ (r.kind = "move" => r.to # NoPath)
    /\ r.via = "bridge" =>
           /\ r.kind \in ExposedTools /\ (BridgeActor # Null => r.actor = BridgeActor)
           /\ KeyOK(r)
           /\ \E t \in WritableTexts : r.path = SafeVaultPath(t)

\* Before its mutation a request is in no one's records, after it it is in the list
\* of mutations.
RecordOK(r) ==
    IF r.pc \in {"log", "insert"} THEN Happened(r)
    ELSE \A i \in DOMAIN performed : performed[i].op # r.op

RequestsOK ==
    \A c \in Clients : Open(c) =>
        /\ CallOK(request[c]) /\ RecordOK(request[c])
        /\ \A d \in Clients \ {c} : Open(d) => request[d].op # request[c].op

\* Every request is performed once, and its mutation is what it asked for.
PerformedOK ==
    /\ \A i \in DOMAIN performed :
           /\ performed[i].op \in 1..ops
           /\ performed[i].kind = "move" <=> performed[i].to # NoPath
           /\ performed[i].via = "bridge" =>
                 /\ performed[i].kind \in ExposedTools
                 /\ BridgeActor # Null => performed[i].actor = BridgeActor
                 /\ ~AllWritable => WritableByPolicy(performed[i].path)
    /\ \A i, j \in DOMAIN performed : performed[i].op = performed[j].op => i = j

KeysOK ==
    \A i \in DOMAIN performed : performed[i].via = "bridge" =>
        \A a \in actions : a.op = performed[i].op => GovernedByPolicy(a)

Inv == TypeOK /\ RequestsOK /\ PerformedOK /\ ActionsTruthful /\ KeysOK

-----------------------------------------------------------------------------
(* Requests and the list of mutations *)

LEMMA OpenIsCall ==
    ASSUME TypeOK, NEW c \in Clients, Open(c)
    PROVE  request[c] \in Call
  BY DEF TypeOK, Open, Answer

LEMMA NextPc ==
    ASSUME NEW r \in Call, NEW pc \in {"resolve", "mandate", "mutate", "stat", "log", "insert"}
    PROVE  /\ [r EXCEPT !.pc = pc] \in Call
           /\ [r EXCEPT !.pc = pc].pc = pc
           /\ [r EXCEPT !.pc = pc].op = r.op
           /\ [r EXCEPT !.pc = pc].kind = r.kind
           /\ [r EXCEPT !.pc = pc].path = r.path
           /\ [r EXCEPT !.pc = pc].to = r.to
           /\ [r EXCEPT !.pc = pc].via = r.via
           /\ [r EXCEPT !.pc = pc].actor = r.actor
           /\ [r EXCEPT !.pc = pc].key = r.key
           /\ MutationOf([r EXCEPT !.pc = pc]) = MutationOf(r)
  BY DEF Call, MutationOf

\* A step that changes the request of one client, and no record, keeps the invariant
\* if the new request fits the records.
LEMMA RequestStep ==
    ASSUME Inv, NEW c \in Clients, NEW r \in Answer \cup Call,
           request' = [request EXCEPT ![c] = r],
           UNCHANGED <<ops, files, governance, actions, performed>>,
           r.pc # "idle" => /\ Open(c) /\ r.op = request[c].op
                            /\ CallOK(r) /\ RecordOK(r)
    PROVE  Inv'
  <1>1. TypeOK'
    BY DEF Inv, TypeOK, governance
  <1>2. \A d \in Clients : request'[d] = IF d = c THEN r ELSE request[d]
    BY DEF Inv, TypeOK
  <1>3. RequestsOK'
    <2>1. ASSUME NEW d \in Clients, request'[d].pc # "idle"
          PROVE  /\ Open(d) /\ request'[d].op = request[d].op
                 /\ CallOK(request'[d]) /\ RecordOK(request'[d])
      BY <1>2, <2>1 DEF Inv, RequestsOK, Open
    <2>2. ASSUME NEW d \in Clients, request'[d].pc # "idle"
          PROVE  /\ CallOK(request[d])' /\ RecordOK(request[d])'
                 /\ \A e \in Clients \ {d} : Open(e)' => request'[e].op # request'[d].op
      <3>1. CallOK(request[d])' /\ RecordOK(request[d])'
        BY <2>1, <2>2 DEF CallOK, KeyOK, RecordOK, Happened, MutationOf, governance
      <3>2. QED BY <2>1, <2>2, <3>1 DEF Inv, RequestsOK, Open
    <2>3. QED BY <2>2 DEF RequestsOK, Open
  <1>4. PerformedOK' /\ ActionsTruthful' /\ KeysOK'
    BY DEF Inv, PerformedOK, ActionsTruthful, KeysOK, GovernedByPolicy, governance
  <1>5. QED BY <1>1, <1>3, <1>4 DEF Inv

LEMMA ReplyStep ==
    ASSUME Inv, NEW c \in Clients, Open(c), NEW answer \in {"ok", "error"},
           Reply(c, answer),
           UNCHANGED <<ops, files, governance, actions, performed>>
    PROVE  Inv'
  <1> DEFINE r == [pc |-> "idle", op |-> request[c].op, reply |-> answer]
  <1>1. request[c].op \in Nat
    BY OpenIsCall DEF Inv, Call
  <1>2. r \in Answer
    BY <1>1 DEF Answer
  <1>3. request' = [request EXCEPT ![c] = r]
    BY DEF Reply, Inv, TypeOK
  <1>4. QED BY <1>2, <1>3, RequestStep

LEMMA GotoStep ==
    ASSUME Inv, NEW c \in Clients, Open(c),
           NEW pc \in {"mandate", "mutate"}, Goto(c, pc),
           request[c].pc \notin {"log", "insert"},
           UNCHANGED <<ops, files, governance, actions, performed>>
    PROVE  Inv'
  <1> DEFINE r == [request[c] EXCEPT !.pc = pc]
  <1>1. request[c] \in Call /\ CallOK(request[c]) /\ RecordOK(request[c])
    BY OpenIsCall DEF Inv, RequestsOK
  <1>2. request' = [request EXCEPT ![c] = r]
    BY DEF Goto, Inv, TypeOK
  <1>3. pc \in {"resolve", "mandate", "mutate", "stat", "log", "insert"}
    OBVIOUS
  <1>4. CallOK(r)
    BY <1>1, <1>3, NextPc DEF CallOK, KeyOK
  <1>5. /\ r \in Call /\ r.pc = pc /\ r.op = request[c].op
        /\ MutationOf(r) = MutationOf(request[c])
    BY <1>1, <1>3, NextPc
  <1>6. RecordOK(r)
    <2> HIDE DEF r
    <2>1. QED BY <1>1, <1>5 DEF RecordOK, Happened
  <1>7. QED BY <1>2, <1>4, <1>5, <1>6, RequestStep

LEMMA AskStep ==
    ASSUME Inv, NEW c \in Clients, NEW r \in Call, Ask(c, r),
           r.pc = "resolve", r.op = ops + 1, r.kind # "move" => r.to = NoPath,
           r.via = "bridge" =>
             /\ r.kind \in ExposedTools /\ (BridgeActor # Null => r.actor = BridgeActor)
             /\ KeyOK(r)
             /\ \E t \in WritableTexts : r.path = SafeVaultPath(t)
    PROVE  Inv'
  <1>1. /\ ops \in Nat /\ ops' = ops + 1 /\ request' = [request EXCEPT ![c] = r]
        /\ UNCHANGED <<files, governance, actions, performed>>
    BY DEF Ask, Inv, TypeOK
  <1>2. TypeOK'
    BY <1>1 DEF Inv, TypeOK, governance
  <1>3. \A d \in Clients : request'[d] = IF d = c THEN r ELSE request[d]
    BY <1>1 DEF Inv, TypeOK
  <1>4. \A i \in DOMAIN performed : performed[i].op \in 1..ops
    BY DEF Inv, PerformedOK
  <1>5. ASSUME NEW d \in Clients, request'[d].pc # "idle"
        PROVE  /\ CallOK(request[d])' /\ RecordOK(request[d])'
               /\ d # c => request'[d].op \in 1..ops
    <2>1. CASE d = c
      <3>1. CallOK(request[d])'
        BY <1>1, <1>3, <2>1 DEF CallOK, KeyOK, governance
      <3>2. RecordOK(request[d])'
        BY <1>1, <1>3, <1>4, <2>1 DEF RecordOK
      <3>3. QED BY <2>1, <3>1, <3>2
    <2>2. CASE d # c
      <3>1. CallOK(request[d]) /\ RecordOK(request[d]) /\ request'[d] = request[d]
        BY <1>3, <1>5, <2>2 DEF Inv, RequestsOK, Open
      <3>2. CallOK(request[d])'
        BY <1>1, <3>1 DEF CallOK, KeyOK, governance
      <3>3. RecordOK(request[d])'
        BY <1>1, <3>1 DEF RecordOK, Happened, MutationOf
      <3>4. QED BY <3>1, <3>2, <3>3 DEF CallOK
    <2>3. QED BY <2>1, <2>2
  <1>6. RequestsOK'
    <2>1. ASSUME NEW d \in Clients, NEW e \in Clients \ {d},
                 request'[d].pc # "idle", request'[e].pc # "idle"
          PROVE  request'[d].op # request'[e].op
      <3>1. CASE d = c \/ e = c
        BY <1>1, <1>3, <1>5, <2>1, <3>1
      <3>2. CASE d # c /\ e # c
        BY <1>3, <2>1, <3>2 DEF Inv, RequestsOK, Open
      <3>3. QED BY <3>1, <3>2
    <2>2. QED BY <1>5, <2>1 DEF RequestsOK, Open
  <1>7. PerformedOK'
    BY <1>1 DEF Inv, PerformedOK
  <1>8. ActionsTruthful' /\ KeysOK'
    BY <1>1 DEF Inv, ActionsTruthful, KeysOK, GovernedByPolicy, governance
  <1>9. QED BY <1>2, <1>6, <1>7, <1>8 DEF Inv

LEMMA Appended ==
    ASSUME NEW S, NEW s \in Seq(S), NEW x \in S
    PROVE  /\ Append(s, x) \in Seq(S) /\ Len(s) \in Nat
           /\ DOMAIN s = 1..Len(s) /\ DOMAIN Append(s, x) = 1..(Len(s) + 1)
           /\ \A i \in 1..(Len(s) + 1) :
                 Append(s, x)[i] = IF i = Len(s) + 1 THEN x ELSE s[i]
  OBVIOUS

LEMMA AsFunction ==
    ASSUME NEW S, NEW s \in Seq(S)
    PROVE  s = [i \in 1..Len(s) |-> s[i]]
  <1>1. s \in [1..Len(s) -> S]
    OBVIOUS
  <1>2. QED BY <1>1

LEMMA AppendedFunction ==
    ASSUME NEW S, NEW s \in Seq(S), NEW x
    PROVE  Append(s, x) = [i \in 1..(Len(s) + 1) |-> IF i = Len(s) + 1 THEN x ELSE s[i]]
  <1> DEFINE e == Append(s, x)
  <1>1. e \in Seq(S \cup {x}) /\ Len(e) = Len(s) + 1 /\ Len(s) \in Nat
    OBVIOUS
  <1>2. \A i \in 1..(Len(s) + 1) : e[i] = IF i = Len(s) + 1 THEN x ELSE s[i]
    OBVIOUS
  <1> HIDE DEF e
  <1>3. e = [i \in 1..Len(e) |-> e[i]]
    BY <1>1, AsFunction
  <1>4. QED BY <1>1, <1>2, <1>3 DEF e

\* A mutation's step adds it to the list, and its client goes on to log it.
LEMMA PerformStep ==
    ASSUME Inv, NEW c \in Clients, request[c].pc \in {"mutate", "stat"},
           request[c].path # NoPath,
           request[c].kind = "move" => request[c].to # NoPath,
           NEW new \in [Paths -> Contents], Perform(c, new)
    PROVE  Inv'
  <1> DEFINE r == request[c]
             m == MutationOf(r)
             n == Len(performed)
             q == [r EXCEPT !.pc = "log"]
  <1>1. r \in Call /\ CallOK(r) /\ RecordOK(r)
    BY OpenIsCall DEF Inv, RequestsOK, Open
  <1>2. m \in Mutation
    BY <1>1 DEF MutationOf, Mutation, Call, Paths
  <1>3. /\ performed \in Seq(Mutation) /\ performed' = Append(performed, m)
        /\ files' = new /\ request' = [request EXCEPT ![c] = q]
        /\ UNCHANGED <<ops, governance, actions>>
    BY DEF Perform, Goto, MutationOf, Inv, TypeOK
  <1>4. /\ n \in Nat /\ DOMAIN performed = 1..n /\ DOMAIN performed' = 1..(n + 1)
        /\ \A i \in 1..n : i \in 1..(n + 1) /\ performed'[i] = performed[i]
        /\ n + 1 \in 1..(n + 1) /\ performed'[n + 1] = m
        /\ \A i \in 1..(n + 1) : i \in 1..n \/ i = n + 1
        /\ performed' \in Seq(Mutation)
    BY <1>2, <1>3, Appended
  <1>5. q \in Call /\ q.pc = "log" /\ MutationOf(q) = m /\ q.op = r.op
    BY <1>1, NextPc
  <1> HIDE DEF q, n
  <1>6. TypeOK'
    BY <1>3, <1>4, <1>5 DEF Inv, TypeOK, governance
  <1>7. \A d \in Clients : request'[d] = IF d = c THEN q ELSE request[d]
    BY <1>3 DEF Inv, TypeOK
  <1>8. m.op = r.op /\ m.kind = r.kind /\ m.path = r.path /\ m.to = r.to
        /\ m.via = r.via /\ m.actor = r.actor
    BY DEF MutationOf
  <1>9. \A i \in 1..n : performed[i].op # m.op
    BY <1>1, <1>4, <1>8 DEF RecordOK
  <1> HIDE DEF m
  <1>10. RequestsOK'
    <2>1. CallOK(q)
      BY <1>1, NextPc DEF CallOK, KeyOK, q
    <2>2. CallOK(request[c])' /\ RecordOK(request[c])'
      <3>1. request'[c] = q
        BY <1>7
      <3>2. CallOK(request[c])'
        BY <1>3, <2>1, <3>1 DEF CallOK, KeyOK, governance
      <3>3. \E i \in DOMAIN performed' : performed'[i] = MutationOf(q)
        BY <1>4, <1>5
      <3>4. RecordOK(request[c])'
        BY <1>5, <3>1, <3>3 DEF RecordOK, Happened, MutationOf
      <3>5. QED BY <3>2, <3>4
    <2>3. ASSUME NEW d \in Clients \ {c}, Open(d)
          PROVE  CallOK(request[d])' /\ RecordOK(request[d])'
      <3>1. /\ request'[d] = request[d] /\ CallOK(request[d]) /\ RecordOK(request[d])
            /\ request[d].op # r.op
        BY <1>1, <1>7, <2>3 DEF Inv, RequestsOK, Open, Call
      <3>2. CallOK(request[d])'
        BY <1>3, <3>1 DEF CallOK, KeyOK, governance
      <3>3. RecordOK(request[d])'
        BY <1>4, <1>8, <3>1 DEF RecordOK, Happened, MutationOf
      <3>4. QED BY <3>2, <3>3
    <2>4. \A d \in Clients : request'[d].op = request[d].op /\ (Open(d)' <=> Open(d))
      BY <1>1, <1>5, <1>7 DEF Open, Call
    <2>5. ASSUME NEW d \in Clients, Open(d)'
          PROVE  CallOK(request[d])' /\ RecordOK(request[d])'
      BY <1>7, <2>2, <2>3, <2>4, <2>5
    <2>6. QED BY <2>4, <2>5 DEF Inv, RequestsOK
  <1>11. PerformedOK'
    <2>1. /\ m.op \in 1..ops /\ (m.kind = "move" <=> m.to # NoPath)
          /\ m.via = "bridge" =>
                m.kind \in ExposedTools /\ (BridgeActor # Null => m.actor = BridgeActor)
      BY <1>1, <1>8 DEF CallOK
    <2>2. m.via = "bridge" /\ ~AllWritable => WritableByPolicy(m.path)
      <3>1. SUFFICES ASSUME m.via = "bridge", ~AllWritable PROVE WritableByPolicy(r.path)
        BY <1>8
      <3>2. PICK t \in WritableTexts : r.path = SafeVaultPath(t)
        BY <1>1, <1>8, <3>1 DEF CallOK
      <3>3. /\ t \in Seq(STRING) /\ NormalizeVaultPath(t) # NoPath
            /\ IsWritablePath(NormalizeVaultPath(t))
        BY MandateAssumption DEF WritableTexts
      <3>4. r.path # NoPath
        OBVIOUS
      <3>5. QED BY <3>1, <3>2, <3>3, <3>4, BridgeAndVaultAgree
    <2>3. \A i \in 1..(n + 1) : performed'[i] = m \/ (i \in 1..n /\ performed'[i] = performed[i])
      BY <1>4
    <2>4. \A i \in 1..n : /\ performed[i].op \in 1..ops
                          /\ performed[i].kind = "move" <=> performed[i].to # NoPath
                          /\ performed[i].via = "bridge" =>
                                /\ performed[i].kind \in ExposedTools
                                /\ BridgeActor # Null => performed[i].actor = BridgeActor
                                /\ ~AllWritable => WritableByPolicy(performed[i].path)
      BY <1>4 DEF Inv, PerformedOK
    <2>5. \A i \in 1..(n + 1) :
             /\ performed'[i].op \in 1..ops
             /\ performed'[i].kind = "move" <=> performed'[i].to # NoPath
             /\ performed'[i].via = "bridge" =>
                   /\ performed'[i].kind \in ExposedTools
                   /\ BridgeActor # Null => performed'[i].actor = BridgeActor
                   /\ ~AllWritable => WritableByPolicy(performed'[i].path)
      <3> TAKE i \in 1..(n + 1)
      <3>1. CASE performed'[i] = m
        BY <2>1, <2>2, <3>1
      <3>2. CASE i \in 1..n /\ performed'[i] = performed[i]
        BY <2>4, <3>2
      <3>3. QED BY <2>3, <3>1, <3>2
    <2>6. \A i, j \in 1..(n + 1) : performed'[i].op = performed'[j].op => i = j
      BY <1>4, <1>9 DEF Inv, PerformedOK
    <2>7. QED BY <1>3, <1>4, <2>5, <2>6 DEF PerformedOK
  <1>12. ActionsTruthful'
    BY <1>3, <1>4 DEF Inv, ActionsTruthful
  <1>13. KeysOK'
    <2>1. \A a \in actions : a.op # m.op
      BY <1>4, <1>9 DEF Inv, ActionsTruthful
    <2>2. QED BY <1>3, <1>4, <2>1 DEF Inv, KeysOK, GovernedByPolicy, governance
  <1>14. QED BY <1>6, <1>10, <1>11, <1>12, <1>13 DEF Inv

-----------------------------------------------------------------------------
(* The contents of files *)

LEMMA NoFileHasNone == Pieces(NoFile) = <<>> /\ NoFile \in Contents
  BY DEF Pieces, Contents

LEMMA WrittenContents ==
    ASSUME NEW s \in Seq(Piece), s # <<>>
    PROVE  /\ s \in Contents /\ s # NoFile
           /\ Pieces(s) = [i \in 1..Len(s) |-> s[i].op] /\ Pieces(s) # <<>>
  <1>1. s[1] \in Piece /\ s[1].op # 0
    <2>1. Len(s) \in Nat /\ Len(s) # 0
      BY LengthIsNat
    <2>2. s[1] \in Piece
      BY <2>1
    <2>3. QED BY <2>2 DEF Piece
  <1>2. NoFile[1].op = 0
    BY DEF NoFile
  <1>3. s # NoFile
    BY <1>1, <1>2
  <1>4. Pieces(s) = [i \in 1..Len(s) |-> s[i].op]
    BY <1>3 DEF Pieces
  <1>5. Len(s) \in Nat /\ Len(s) # 0
    OBVIOUS
  <1>6. Pieces(s) # <<>>
    BY <1>4, <1>5
  <1>7. QED BY <1>3, <1>4, <1>6 DEF Contents

LEMMA OnePiece ==
    ASSUME NEW o \in Nat \ {0}, NEW b \in BOOLEAN
    PROVE  /\ <<[op |-> o, newline |-> b]>> \in Contents
           /\ Pieces(<<[op |-> o, newline |-> b]>>) = <<o>>
  <1> DEFINE s == <<[op |-> o, newline |-> b]>>
  <1>1. s \in Seq(Piece) /\ s # <<>> /\ Len(s) = 1 /\ s[1].op = o
    BY DEF Piece
  <1>2. Pieces(s) = [i \in 1..1 |-> s[i].op]
    BY <1>1, WrittenContents
  <1> HIDE DEF s
  <1>3. [i \in 1..1 |-> s[i].op] = <<o>>
    BY <1>1
  <1>4. QED BY <1>1, <1>2, <1>3, WrittenContents DEF s

\* An append keeps the pieces there are.
LEMMA ExtendedContents ==
    ASSUME NEW c \in Contents, NEW o \in Nat \ {0}, NEW b \in BOOLEAN
    PROVE  /\ Extended(c, o, b) \in Contents
           /\ Pieces(Extended(c, o, b)) = Append(Pieces(c), o)
  <1> DEFINE x == [op |-> o, newline |-> b]
  <1>1. x \in Piece /\ x.op = o
    BY DEF Piece
  <1>2. CASE c = NoFile
    <2>1. Extended(c, o, b) = <<x>>
      BY <1>1, <1>2 DEF Extended
    <2>2. Append(Pieces(c), o) = <<o>>
      BY <1>2, NoFileHasNone
    <2>3. QED BY <2>1, <2>2, OnePiece
  <1>3. CASE c # NoFile
    <2>1. c \in Seq(Piece) /\ c # <<>> /\ Len(c) \in Nat
      BY <1>3 DEF Contents
    <2>2. Extended(c, o, b) = c \o <<x>>
      BY <1>3 DEF Extended
    <2> DEFINE s == c \o <<x>>
    <2>3. /\ s \in Seq(Piece) /\ s # <<>> /\ Len(s) = Len(c) + 1 /\ s[Len(c) + 1] = x
          /\ \A i \in 1..Len(c) : s[i] = c[i]
      BY <1>1, <2>1
    <2> HIDE DEF s, x
    <2>4. Pieces(s) = [i \in 1..(Len(c) + 1) |-> s[i].op] /\ s \in Contents
      BY <2>3, WrittenContents
    <2>5. Pieces(c) = [i \in 1..Len(c) |-> c[i].op]
      BY <2>1, WrittenContents
    <2>6. Pieces(c) \in Seq(Nat) /\ Len(Pieces(c)) = Len(c)
      <3>1. \A i \in 1..Len(c) : c[i] \in Piece
        BY <2>1
      <3>2. \A i \in 1..Len(c) : c[i].op \in Nat
        BY <3>1 DEF Piece
      <3>3. Pieces(c) \in [1..Len(c) -> Nat]
        BY <2>5, <3>2
      <3>4. QED BY <2>1, <3>3
    <2>7. Append(Pieces(c), o) = [i \in 1..(Len(c) + 1) |-> IF i = Len(c) + 1 THEN o ELSE Pieces(c)[i]]
      BY <2>6, AppendedFunction
    <2>8. \A i \in 1..(Len(c) + 1) : s[i].op = IF i = Len(c) + 1 THEN o ELSE Pieces(c)[i]
      BY <1>1, <2>1, <2>3, <2>5
    <2>9. QED BY <2>2, <2>4, <2>7, <2>8 DEF s, x
  <1>4. QED BY <1>2, <1>3

LEMMA FilesTyped ==
    ASSUME TypeOK, NEW p \in Paths
    PROVE  files[p] \in Contents
  BY DEF TypeOK

-----------------------------------------------------------------------------
(* The steps that perform a mutation *)

\* The vault as AtomicVault has it.
Vault == [p \in Paths |-> Pieces(files[p])]

\* The files after the mutation are files, and the vault is as AtomicVault has it.
LEMMA WriteVault ==
    ASSUME TypeOK, NEW p \in Paths, NEW c \in Contents
    PROVE  /\ [files EXCEPT ![p] = c] \in [Paths -> Contents]
           /\ [q \in Paths |-> Pieces([files EXCEPT ![p] = c][q])] =
                 [Vault EXCEPT ![p] = Pieces(c)]
  BY DEF TypeOK, Vault

LEMMA MoveVault ==
    ASSUME TypeOK, NEW p \in Paths, NEW q \in Paths
    PROVE  /\ Moved(files, p, q) \in [Paths -> Contents]
           /\ [r \in Paths |-> Pieces(Moved(files, p, q)[r])] =
                 IF p = q THEN Vault ELSE [Vault EXCEPT ![q] = Vault[p], ![p] = <<>>]
  BY NoFileHasNone DEF TypeOK, Moved, Vault

\* A request that is about to mutate.
Ready(c) ==
    /\ request[c].pc \in {"mutate", "stat"} /\ request[c].path # NoPath
    /\ request[c].kind = "move" => request[c].to # NoPath

LEMMA MutatesReady ==
    ASSUME Inv, NEW c \in Clients, NEW kind, Mutates(c, kind) \/ request[c].pc = "stat"
    PROVE  /\ Ready(c) /\ request[c] \in Call /\ CallOK(request[c]) /\ RecordOK(request[c])
           /\ request[c].path \in Paths /\ request[c].op \in Nat \ {0}
  <1>1. Open(c) /\ request[c].pc \in {"mutate", "stat"}
    BY DEF Mutates, Open
  <1>2. request[c] \in Call /\ CallOK(request[c]) /\ RecordOK(request[c])
    BY <1>1, OpenIsCall DEF Inv, RequestsOK
  <1>3. Ready(c)
    BY <1>1, <1>2 DEF Ready, Mutates, CallOK
  <1>4. request[c].op \in Nat \ {0}
    BY <1>2 DEF CallOK, Call
  <1>5. QED BY <1>2, <1>3, <1>4 DEF Ready, Call, Paths

LEMMA WriteStep ==
    ASSUME Inv, NEW c \in Clients, Write(c)
    PROVE  Inv'
  <1>1. Ready(c) /\ request[c].path \in Paths /\ request[c].op \in Nat \ {0}
    BY MutatesReady DEF Write
  <1>2. QED BY <1>1, OnePiece, WriteVault, PerformStep DEF Write, Inv, Ready

LEMMA AppendStep ==
    ASSUME Inv, NEW c \in Clients, AppendPiece(c)
    PROVE  Inv'
  <1>1. Ready(c) /\ request[c].path \in Paths /\ request[c].op \in Nat \ {0}
    BY MutatesReady DEF AppendPiece
  <1>2. Perform(c, [files EXCEPT ![request[c].path] =
                       Extended(files[request[c].path], request[c].op, request[c].seen # NoFile)])
    BY DEF AppendPiece, Inv, TypeOK
  <1>3. Extended(files[request[c].path], request[c].op, request[c].seen # NoFile) \in Contents
    BY <1>1, FilesTyped, ExtendedContents DEF Inv
  <1>4. QED BY <1>1, <1>2, <1>3, WriteVault, PerformStep DEF Inv, Ready

LEMMA DeleteStep ==
    ASSUME Inv, NEW c \in Clients, Delete(c)
    PROVE  Inv'
  <1>1. Ready(c) /\ request[c].path \in Paths /\ request[c].op \in Nat \ {0}
    BY MutatesReady DEF Delete
  <1>2. QED BY <1>1, NoFileHasNone, WriteVault, PerformStep DEF Delete, Inv, Ready

LEMMA MoveStep ==
    ASSUME Inv, NEW c \in Clients, Move(c)
    PROVE  Inv'
  <1>1. /\ Ready(c) /\ request[c].path \in Paths /\ request[c] \in Call
        /\ request[c].kind = "move" /\ request[c].pc = "mutate"
    BY MutatesReady DEF Move, Mutates
  <1>2. request[c].to \in Paths
    BY <1>1 DEF Ready, Call, Paths
  <1>3. CASE files[request[c].path] = NoFile
    BY <1>1, <1>3, ReplyStep DEF Move, Open
  <1>4. CASE files[request[c].path] # NoFile
    <2>1. Perform(c, Moved(files, request[c].path, request[c].to))
      BY <1>4 DEF Move
    <2>2. Moved(files, request[c].path, request[c].to) \in [Paths -> Contents]
      BY <1>1, <1>2, MoveVault DEF Inv
    <2>3. QED BY <1>1, <2>1, <2>2, PerformStep DEF Ready
  <1>5. QED BY <1>3, <1>4

LEMMA StatStep ==
    ASSUME Inv, NEW c \in Clients, StatForAppend(c)
    PROVE  Inv'
  <1> DEFINE r == request[c]
             q == [r EXCEPT !.pc = "stat", !.seen = files[r.path]]
  <1>1. /\ r \in Call /\ CallOK(r) /\ RecordOK(r) /\ r.path \in Paths
        /\ r.kind = "append" /\ r.pc = "mutate" /\ r.path # NoPath
    BY MutatesReady DEF StatForAppend, Mutates
  <1>2. files[r.path] \in Contents
    BY <1>1, FilesTyped DEF Inv
  <1>3. /\ q \in Call /\ q.pc = "stat" /\ q.op = r.op /\ q.kind = r.kind /\ q.path = r.path
        /\ q.to = r.to /\ q.via = r.via /\ q.actor = r.actor /\ q.key = r.key
    BY <1>1, <1>2 DEF Call
  <1>4. request' = [request EXCEPT ![c] = q]
    BY DEF StatForAppend, Inv, TypeOK
  <1> HIDE DEF q
  <1>5. CallOK(q) /\ RecordOK(q)
    BY <1>1, <1>3 DEF CallOK, KeyOK, RecordOK
  <1>6. QED BY <1>1, <1>3, <1>4, <1>5, RequestStep DEF StatForAppend, Open

-----------------------------------------------------------------------------
(* The other steps *)

LEMMA AskDirectStep ==
    ASSUME Inv, NEW c \in Clients, AskDirect(c)
    PROVE  Inv'
  <1>0. PICK k \in Kinds, p \in ReadPaths, i \in Intents \cup {Unknown}, a \in Actors :
           \E to \in IF k = "move" THEN ReadPaths ELSE {NoPath},
              key \in IF k \in ServerTools THEN Keys \cup {Null} ELSE {Null} :
                Ask(c, [pc |-> "resolve", op |-> ops + 1, via |-> "direct", kind |-> k,
                        path |-> p, to |-> to, intent |-> i, actor |-> a, key |-> key,
                        seen |-> NoFile])
    BY Zenon DEF AskDirect
  <1>1. PICK to \in IF k = "move" THEN ReadPaths ELSE {NoPath},
             key \in IF k \in ServerTools THEN Keys \cup {Null} ELSE {Null} :
                Ask(c, [pc |-> "resolve", op |-> ops + 1, via |-> "direct", kind |-> k,
                        path |-> p, to |-> to, intent |-> i, actor |-> a, key |-> key,
                        seen |-> NoFile])
    BY <1>0, Zenon
  <1> DEFINE r == [pc |-> "resolve", op |-> ops + 1, via |-> "direct", kind |-> k,
                   path |-> p, to |-> to, intent |-> i, actor |-> a, key |-> key,
                   seen |-> NoFile]
  <1>2. ops + 1 \in Nat /\ to \in ReadPaths \cup {NoPath} /\ key \in Keys \cup {Null}
    BY DEF Inv, TypeOK
  <1>3. r \in Call
    BY <1>2, NoFileHasNone DEF Call
  <1>4. r.kind # "move" => r.to = NoPath
    OBVIOUS
  <1>5. r.pc = "resolve" /\ r.op = ops + 1 /\ r.via # "bridge"
    OBVIOUS
  <1> HIDE DEF r
  <1>6. Ask(c, r)
    BY <1>1 DEF r
  <1>7. QED BY <1>3, <1>4, <1>5, <1>6, AskStep

LEMMA AskBridgeStep ==
    ASSUME Inv, NEW c \in Clients, AskBridge(c)
    PROVE  Inv'
  <1>1. PICK k \in ServerTools \cap ExposedTools, p \in {SafeVaultPath(t) : t \in WritableTexts},
             i \in Intents \cup {Unknown}, a \in BridgeActors, key \in Keys \cup {Null} :
                Ask(c, [pc |-> "resolve", op |-> ops + 1, via |-> "bridge", kind |-> k,
                        path |-> p, to |-> NoPath, intent |-> i, actor |-> a,
                        key |-> Forwarded(key), seen |-> NoFile])
    BY DEF AskBridge
  <1> DEFINE r == [pc |-> "resolve", op |-> ops + 1, via |-> "bridge", kind |-> k,
                   path |-> p, to |-> NoPath, intent |-> i, actor |-> a,
                   key |-> Forwarded(key), seen |-> NoFile]
  <1>2. /\ ops + 1 \in Nat /\ k \in Kinds /\ p \in ReadPaths
        /\ (BridgeActor # Null => a = BridgeActor) /\ a \in Actors
        /\ Forwarded(key) \in Keys \cup {Null}
    BY MandateAssumption
       DEF Inv, TypeOK, Kinds, ServerTools, ReadPaths, WritableTexts, BridgeActors, Forwarded
  <1>3. r \in Call
    BY <1>2, NoFileHasNone DEF Call
  <1>4. r.pc = "resolve" /\ r.op = ops + 1 /\ r.to = NoPath
    OBVIOUS
  <1>5. /\ r.kind \in ExposedTools /\ (BridgeActor # Null => r.actor = BridgeActor)
        /\ KeyOK(r)
        /\ \E t \in WritableTexts : r.path = SafeVaultPath(t)
    BY <1>2 DEF KeyOK, Forwarded
  <1> HIDE DEF r
  <1>6. Ask(c, r)
    BY <1>1 DEF r
  <1>7. QED BY <1>3, <1>4, <1>5, <1>6, AskStep

\* The action will carry the call's contract, or its actor's as it is now.
LEMMA CheckContractStep ==
    ASSUME Inv, NEW c \in Clients, CheckContract(c)
    PROVE  Inv'
  <1> DEFINE r == request[c]
             q == [r EXCEPT !.pc = "insert", !.key = Governing(r)]
  <1>1. r \in Call /\ CallOK(r) /\ RecordOK(r) /\ r.pc = "log" /\ Open(c)
    BY OpenIsCall DEF CheckContract, Inv, RequestsOK, Open
  <1>2. CASE Governing(r) \notin activeKeys \cup {Null}
    BY <1>1, <1>2, ReplyStep DEF CheckContract
  <1>3. CASE Governing(r) \in activeKeys \cup {Null}
    <2>1. Governing(r) \in Keys \cup {Null}
      BY <1>3 DEF Inv, TypeOK
    <2>2. /\ q \in Call /\ q.pc = "insert" /\ q.op = r.op /\ q.kind = r.kind
          /\ q.path = r.path /\ q.to = r.to /\ q.via = r.via /\ q.actor = r.actor
          /\ q.intent = r.intent /\ q.key = Governing(r)
      BY <1>1, <2>1 DEF Call
    <2>3. request' = [request EXCEPT ![c] = q]
      BY <1>3 DEF CheckContract, Inv, TypeOK
    <2> HIDE DEF q
    <2>4. r.via = "bridge" => KeyOK(q)
      BY <1>1, <2>2 DEF CallOK, KeyOK, Governing
    <2>5. CallOK(q)
      BY <1>1, <2>2, <2>4 DEF CallOK
    <2>6. RecordOK(q)
      BY <1>1, <2>2 DEF RecordOK, Happened, MutationOf
    <2>7. QED BY <1>1, <2>2, <2>3, <2>5, <2>6, RequestStep DEF CheckContract
  <1>4. QED BY <1>2, <1>3

\* The action that is logged is of the request's mutation, the only one of its number.
LEMMA InsertStep ==
    ASSUME Inv, NEW c \in Clients, InsertAction(c)
    PROVE  Inv'
  <1> DEFINE r == request[c]
             a == [op |-> r.op, kind |-> r.kind, intent |-> r.intent, actor |-> r.actor,
                   key |-> r.key, path |-> r.path]
             q == [pc |-> "idle", op |-> r.op, reply |-> "ok"]
  <1>1. r \in Call /\ CallOK(r) /\ RecordOK(r) /\ r.pc = "insert"
    BY OpenIsCall DEF InsertAction, Inv, RequestsOK, Open
  <1>2. /\ a \in Action /\ q \in Answer /\ q.pc = "idle" /\ q.op = r.op
        /\ a.op = r.op /\ a.kind = r.kind /\ a.intent = r.intent /\ a.actor = r.actor
        /\ a.key = r.key /\ a.path = r.path
    BY <1>1 DEF Call, Action, Answer
  <1>3. /\ actions' = actions \cup {a} /\ request' = [request EXCEPT ![c] = q]
        /\ UNCHANGED <<ops, files, governance, performed>>
    BY DEF InsertAction, Reply, Inv, TypeOK
  <1> HIDE DEF a, q
  <1>4. PICK k \in DOMAIN performed : performed[k] = MutationOf(r)
    BY <1>1 DEF RecordOK, Happened
  <1>5. /\ performed[k].op = r.op /\ performed[k].kind = r.kind /\ performed[k].path = r.path
        /\ performed[k].intent = r.intent /\ performed[k].actor = r.actor
        /\ performed[k].via = r.via
    BY <1>4 DEF MutationOf
  <1>6. TypeOK'
    BY <1>2, <1>3 DEF Inv, TypeOK, governance
  <1>7. RequestsOK'
    <2>1. \A d \in Clients : request'[d] = IF d = c THEN q ELSE request[d]
      BY <1>3 DEF Inv, TypeOK
    <2>2. ASSUME NEW d \in Clients, request'[d].pc # "idle"
          PROVE  d # c /\ Open(d) /\ request'[d] = request[d]
      BY <1>2, <2>1, <2>2 DEF Open
    <2>3. ASSUME NEW d \in Clients, request'[d].pc # "idle"
          PROVE  CallOK(request[d])' /\ RecordOK(request[d])'
      <3>1. CallOK(request[d]) /\ RecordOK(request[d]) /\ request'[d] = request[d]
        BY <2>2, <2>3 DEF Inv, RequestsOK
      <3>2. QED BY <1>3, <3>1 DEF CallOK, KeyOK, RecordOK, Happened, MutationOf, governance
    <2>4. QED BY <2>2, <2>3 DEF Inv, RequestsOK, Open
  <1>8. PerformedOK'
    BY <1>3 DEF Inv, PerformedOK
  <1>9. ActionsTruthful'
    BY <1>2, <1>3, <1>5 DEF Inv, ActionsTruthful
  <1>10. KeysOK'
    <2>1. ASSUME NEW i \in DOMAIN performed, performed[i].via = "bridge", r.op = performed[i].op
          PROVE  GovernedByPolicy(a)
      <3>1. i = k
        BY <1>5, <2>1 DEF Inv, PerformedOK
      <3>2. KeyOK(r)
        BY <1>1, <1>5, <2>1, <3>1 DEF CallOK
      <3>3. QED BY <1>2, <3>2 DEF KeyOK, GovernedByPolicy
    <2>2. QED BY <1>2, <1>3, <2>1 DEF Inv, KeysOK, GovernedByPolicy, governance
  <1>11. QED BY <1>6, <1>7, <1>8, <1>9, <1>10 DEF Inv

\* Actors retire and are put under contracts, and contracts close; nothing else
\* changes, and an actor under a contract stays under one.
LEMMA SurroundingStep ==
    ASSUME Inv, RetireActor \/ CloseContract \/ GovernActor \/ UNCHANGED vars
    PROVE  Inv'
  <1>1. /\ UNCHANGED <<ops, files, actions, performed, request>>
        /\ activeActors' \subseteq activeActors /\ activeKeys' \subseteq activeKeys
    BY DEF RetireActor, CloseContract, GovernActor, Meanwhile, vars, governance
  <1>2. /\ actorKey' \in [Actors -> Keys \cup {Null}]
        /\ \A a \in Actors : actorKey[a] # Null => actorKey'[a] # Null
    <2>1. CASE UNCHANGED actorKey
      BY <2>1 DEF Inv, TypeOK
    <2>2. CASE GovernActor
      BY <2>2, MandateAssumption DEF GovernActor, Inv, TypeOK
    <2>3. QED BY <2>1, <2>2 DEF RetireActor, CloseContract, vars, governance
  <1>3. TypeOK'
    BY <1>1, <1>2 DEF Inv, TypeOK
  <1>4. RequestsOK'
    <2>1. ASSUME NEW c \in Clients, Open(c)
          PROVE  CallOK(request[c])'
      <3>1. CallOK(request[c]) /\ request[c].actor \in Actors
        BY <2>1, OpenIsCall DEF Inv, RequestsOK, Call
      <3>2. KeyOK(request[c]) => KeyOK(request[c])'
        BY <1>1, <1>2, <3>1 DEF KeyOK
      <3>3. QED BY <1>1, <3>1, <3>2 DEF CallOK
    <2>2. QED BY <1>1, <2>1 DEF Inv, RequestsOK, Open, RecordOK, Happened, MutationOf
  <1>5. KeysOK'
    <2>1. \A a \in actions : GovernedByPolicy(a) => GovernedByPolicy(a)'
      BY <1>2 DEF GovernedByPolicy, Inv, TypeOK, Action
    <2>2. QED BY <1>1, <2>1 DEF Inv, KeysOK
  <1>6. PerformedOK' /\ ActionsTruthful'
    BY <1>1 DEF Inv, PerformedOK, ActionsTruthful
  <1>7. QED BY <1>3, <1>4, <1>5, <1>6 DEF Inv

LEMMA InvInit == Init => Inv
  <1> SUFFICES ASSUME Init PROVE Inv
    OBVIOUS
  <1>1. [pc |-> "idle", op |-> 0, reply |-> "none"] \in Answer
    BY DEF Answer
  <1>2. performed = <<>> /\ performed \in Seq(Mutation) /\ DOMAIN performed = {}
    BY DEF Init
  <1>3. TypeOK
    BY <1>1, <1>2, NoFileHasNone DEF Init, TypeOK
  <1>4. RequestsOK
    BY DEF Init, RequestsOK, Open
  <1>5. PerformedOK /\ ActionsTruthful /\ KeysOK
    BY <1>2 DEF Init, PerformedOK, ActionsTruthful, KeysOK
  <1>6. QED BY <1>3, <1>4, <1>5 DEF Inv

LEMMA InvNext == Inv /\ [Next]_vars => Inv'
  <1> SUFFICES ASSUME Inv, [Next]_vars PROVE Inv'
    OBVIOUS
  <1>1. CASE RetireActor \/ CloseContract \/ GovernActor \/ UNCHANGED vars
    BY <1>1, SurroundingStep
  <1>2. ASSUME NEW c \in Clients, AskDirect(c) \/ AskBridge(c)
        PROVE  Inv'
    BY <1>2, AskDirectStep, AskBridgeStep
  <1>3. ASSUME NEW c \in Clients, Resolve(c)
        PROVE  Inv'
    BY <1>3, GotoStep, ReplyStep DEF Resolve, Open
  <1>4. ASSUME NEW c \in Clients, CheckMandate(c)
        PROVE  Inv'
    BY <1>4, GotoStep, ReplyStep DEF CheckMandate, Open
  <1>5. ASSUME NEW c \in Clients, BadPath(c)
        PROVE  Inv'
    BY <1>5, ReplyStep DEF BadPath, Open
  <1>6. ASSUME NEW c \in Clients,
               Write(c) \/ StatForAppend(c) \/ AppendPiece(c) \/ Move(c) \/ Delete(c)
        PROVE  Inv'
    BY <1>6, WriteStep, StatStep, AppendStep, MoveStep, DeleteStep
  <1>7. ASSUME NEW c \in Clients, CheckContract(c)
        PROVE  Inv'
    BY <1>7, CheckContractStep
  <1>8. ASSUME NEW c \in Clients, InsertAction(c)
        PROVE  Inv'
    BY <1>8, InsertStep
  <1>9. ASSUME NEW c \in Clients, Fail(c)
        PROVE  Inv'
    BY <1>9, ReplyStep DEF Fail, Open
  <1>10. QED BY <1>1, <1>2, <1>3, <1>4, <1>5, <1>6, <1>7, <1>8, <1>9 DEF Next

LEMMA Invariant == Spec => []Inv
  BY InvInit, InvNext, PTL DEF Spec

-----------------------------------------------------------------------------
(* Theorems *)

\* Every action in the log is of a mutation that happened, of that file, by that actor
\* and under that intent, however many requests overlap and fail.
THEOREM LogTellsTruth == Spec => []ActionsTruthful
  BY Invariant, PTL DEF Inv

LEMMA InvBridged == Inv => BridgedWithinPolicy
  BY DEF Inv, PerformedOK, KeysOK, BridgedWithinPolicy

\* What is done through the bridge is within its policy where it is done, for every
\* text a client can send and every setting of the bridge: its lists of paths or all
\* paths, scoped to an actor or not, with a contract of its own, the client's or none.
THEOREM BridgeKeepsPolicy == Spec => []BridgedWithinPolicy
  BY Invariant, InvBridged, PTL

-----------------------------------------------------------------------------
(* Refinement of AtomicVault *)

LEMMA RefinementInit == Init => Atomic!Init
  <1> SUFFICES ASSUME Init PROVE Atomic!Init
    OBVIOUS
  <1>1. Vault = [p \in Paths |-> <<>>]
    BY NoFileHasNone DEF Vault, Init
  <1>2. Mutations = <<>>
    BY DEF Mutations, Init
  <1>3. QED BY <1>1, <1>2 DEF Atomic!Init, Vault

\* What a mutation adds to the list has a new number.
LEMMA LogGrows ==
    ASSUME Inv, NEW c \in Clients, NEW new, request[c] \in Call, RecordOK(request[c]),
           request[c].pc \in {"mutate", "stat"}, Perform(c, new)
    PROVE  /\ Mutations' = Append(Mutations,
                  [op |-> request[c].op, kind |-> request[c].kind,
                   path |-> request[c].path, to |-> request[c].to])
           /\ request[c].op \in Atomic!Done' \ Atomic!Done
  <1> DEFINE r == request[c]
             n == Len(performed)
             m == MutationOf(r)
             x == [op |-> r.op, kind |-> r.kind, path |-> r.path, to |-> r.to]
             brief(y) == [op |-> y.op, kind |-> y.kind, path |-> y.path, to |-> y.to]
  <1>1. /\ performed' = Append(performed, m) /\ performed \in Seq(Mutation)
        /\ brief(m) = x /\ x.op = r.op
    BY DEF Perform, MutationOf, Inv, TypeOK
  <1>2. /\ n \in Nat /\ DOMAIN performed = 1..n /\ DOMAIN performed' = 1..(n + 1)
        /\ \A i \in 1..(n + 1) : performed'[i] = IF i = n + 1 THEN m ELSE performed[i]
    BY <1>1
  <1>3. Mutations = [i \in 1..n |-> brief(performed[i])]
    BY <1>2 DEF Mutations
  <1>4. Mutations' = [i \in 1..(n + 1) |-> brief(performed'[i])]
    BY <1>2 DEF Mutations
  <1> HIDE DEF x, n, m
  <1>5. Mutations' = Append(Mutations, x)
    <2>1. Mutations \in Seq({brief(performed[i]) : i \in 1..n}) /\ Len(Mutations) = n
      BY <1>2, <1>3
    <2>2. Append(Mutations, x) = [i \in 1..(n + 1) |-> IF i = n + 1 THEN x ELSE Mutations[i]]
      BY <2>1, AppendedFunction
    <2>3. \A i \in 1..(n + 1) : brief(performed'[i]) = IF i = n + 1 THEN x ELSE Mutations[i]
      BY <1>1, <1>2, <1>3
    <2>4. QED BY <1>4, <2>2, <2>3
  <1>6. \A i \in 1..n : Mutations[i].op # r.op
    BY <1>2, <1>3 DEF RecordOK
  <1>7. r.op \notin Atomic!Done
    BY <1>3, <1>6 DEF Atomic!Done
  <1>8. n + 1 \in DOMAIN Mutations' /\ Mutations'[n + 1].op = r.op
    BY <1>1, <1>2, <1>4
  <1>9. r.op \in Atomic!Done'
    BY <1>8 DEF Atomic!Done
  <1>10. QED BY <1>5, <1>7, <1>9 DEF x

LEMMA RefinementNext == Inv /\ [Next]_vars => [Atomic!Next]_<<Vault, Mutations>>
  <1> SUFFICES ASSUME Inv, [Next]_vars
               PROVE  Atomic!Next \/ UNCHANGED <<Vault, Mutations>>
    OBVIOUS
  <1>1. CASE UNCHANGED <<files, performed>>
    BY <1>1 DEF Vault, Mutations
  <1>2. ASSUME NEW c \in Clients, Write(c)
        PROVE  Atomic!Next
    <2> DEFINE r == request[c]
    <2>1. /\ r.path \in Paths /\ r.op \in Nat \ {0} /\ r \in Call /\ RecordOK(r)
          /\ r.pc = "mutate" /\ r.kind = "write" /\ r.to = NoPath
      BY <1>2, MutatesReady DEF Write, Mutates, CallOK
    <2>2. Perform(c, [files EXCEPT ![r.path] = <<[op |-> r.op, newline |-> FALSE]>>])
      BY <1>2 DEF Write
    <2>3. Vault' = [Vault EXCEPT ![r.path] = <<r.op>>]
      BY <2>1, <2>2, OnePiece, WriteVault DEF Perform, Vault, Inv
    <2>4. /\ Mutations' = Append(Mutations, [op |-> r.op, kind |-> "write",
                                            path |-> r.path, to |-> NoPath])
          /\ r.op \in Atomic!Done' \ Atomic!Done
      BY <2>1, <2>2, LogGrows
    <2>5. Atomic!Write(r.op, r.path)
      BY <2>3, <2>4 DEF Atomic!Write, Atomic!Mutate, Vault
    <2>6. QED BY <2>1, <2>4, <2>5 DEF Atomic!Next
  <1>3. ASSUME NEW c \in Clients, AppendPiece(c)
        PROVE  Atomic!Next
    <2> DEFINE r == request[c]
               new == Extended(files[r.path], r.op, r.seen # NoFile)
    <2>1. /\ r.path \in Paths /\ r.op \in Nat \ {0} /\ r \in Call /\ RecordOK(r)
          /\ r.pc = "stat" /\ r.kind = "append" /\ r.to = NoPath
      BY <1>3, MutatesReady DEF AppendPiece, CallOK
    <2>2. Perform(c, [files EXCEPT ![r.path] = new])
      BY <1>3 DEF AppendPiece, Inv, TypeOK
    <2>3. new \in Contents /\ Pieces(new) = Append(Pieces(files[r.path]), r.op)
      BY <2>1, FilesTyped, ExtendedContents DEF Inv
    <2>4. Vault' = [Vault EXCEPT ![r.path] = Pieces(new)]
      BY <2>1, <2>2, <2>3, WriteVault DEF Perform, Vault, Inv
    <2>5. Vault' = [Vault EXCEPT ![r.path] = Append(Vault[r.path], r.op)]
      BY <2>1, <2>3, <2>4 DEF Vault
    <2>6. /\ Mutations' = Append(Mutations, [op |-> r.op, kind |-> "append",
                                            path |-> r.path, to |-> NoPath])
          /\ r.op \in Atomic!Done' \ Atomic!Done
      BY <2>1, <2>2, LogGrows
    <2>7. Atomic!Extend(r.op, r.path)
      BY <2>1, <2>5, <2>6 DEF Atomic!Extend, Atomic!Mutate, Vault
    <2>8. QED BY <2>1, <2>6, <2>7 DEF Atomic!Next
  <1>4. ASSUME NEW c \in Clients, Delete(c)
        PROVE  Atomic!Next
    <2> DEFINE r == request[c]
    <2>1. /\ r.path \in Paths /\ r \in Call /\ RecordOK(r)
          /\ r.pc = "mutate" /\ r.kind = "delete" /\ r.to = NoPath
      BY <1>4, MutatesReady DEF Delete, Mutates, CallOK
    <2>2. Perform(c, [files EXCEPT ![r.path] = NoFile])
      BY <1>4 DEF Delete
    <2>3. Vault' = [Vault EXCEPT ![r.path] = <<>>]
      BY <2>1, <2>2, NoFileHasNone, WriteVault DEF Perform, Vault, Inv
    <2>4. /\ Mutations' = Append(Mutations, [op |-> r.op, kind |-> "delete",
                                            path |-> r.path, to |-> NoPath])
          /\ r.op \in Atomic!Done' \ Atomic!Done
      BY <2>1, <2>2, LogGrows
    <2>5. Atomic!Delete(r.op, r.path)
      BY <2>3, <2>4 DEF Atomic!Delete, Atomic!Mutate, Vault
    <2>6. QED BY <2>1, <2>4, <2>5 DEF Atomic!Next
  <1>5. ASSUME NEW c \in Clients, Move(c)
        PROVE  Atomic!Next \/ UNCHANGED <<files, performed>>
    <2> DEFINE r == request[c]
    <2>1. /\ r.path \in Paths /\ r \in Call /\ RecordOK(r) /\ Ready(c)
          /\ r.pc = "mutate" /\ r.kind = "move"
      BY <1>5, MutatesReady DEF Move, Mutates
    <2>2. r.to \in Paths
      BY <2>1 DEF Ready, Call, Paths
    <2>3. CASE files[r.path] = NoFile
      BY <1>5, <2>3 DEF Move
    <2>4. CASE files[r.path] # NoFile
      <3>1. Perform(c, Moved(files, r.path, r.to))
        BY <1>5, <2>4 DEF Move
      <3>2. Vault' = IF r.path = r.to THEN Vault
                     ELSE [Vault EXCEPT ![r.to] = Vault[r.path], ![r.path] = <<>>]
        <4>1. files' = Moved(files, r.path, r.to)
          BY <3>1 DEF Perform
        <4>2. Vault' = [q \in Paths |-> Pieces(Moved(files, r.path, r.to)[q])]
          BY <4>1 DEF Vault
        <4>3. QED BY <2>1, <2>2, <4>2, MoveVault DEF Inv
      <3>3. Vault[r.path] # <<>>
        <4>1. files[r.path] \in Seq(Piece) /\ files[r.path] # <<>>
          BY <2>1, <2>4, FilesTyped DEF Inv, Contents
        <4>2. QED BY <2>1, <4>1, WrittenContents DEF Vault
      <3>4. /\ Mutations' = Append(Mutations, [op |-> r.op, kind |-> "move",
                                              path |-> r.path, to |-> r.to])
            /\ r.op \in Atomic!Done' \ Atomic!Done
        BY <2>1, <3>1, LogGrows
      <3>5. Atomic!Move(r.op, r.path, r.to)
        BY <3>2, <3>3, <3>4 DEF Atomic!Move, Atomic!Mutate, Vault
      <3>6. QED BY <2>1, <2>2, <3>4, <3>5 DEF Atomic!Next
    <2>5. QED BY <2>3, <2>4
  <1>6. ASSUME NEW c \in Clients,
               \/ AskDirect(c) \/ AskBridge(c) \/ Resolve(c) \/ CheckMandate(c) \/ BadPath(c)
               \/ StatForAppend(c) \/ CheckContract(c) \/ InsertAction(c) \/ Fail(c)
        PROVE  UNCHANGED <<files, performed>>
    BY <1>6 DEF AskDirect, AskBridge, Ask, Resolve, CheckMandate, BadPath, StatForAppend,
                CheckContract, InsertAction, Fail
  <1>7. CASE RetireActor \/ CloseContract \/ GovernActor \/ UNCHANGED vars
    BY <1>1, <1>7 DEF RetireActor, CloseContract, GovernActor, Meanwhile, vars
  <1>8. QED BY <1>1, <1>2, <1>3, <1>4, <1>5, <1>6, <1>7 DEF Next

\* The vault and its clients implement the atomic vault, for every number of requests,
\* whatever their interleaving and wherever they fail.
THEOREM VaultIsAtomic == Spec => ImplementsAtomicVault
  <1>1. Init => Atomic!Init
    BY RefinementInit
  <1>2. Inv /\ [Next]_vars => [Atomic!Next]_<<Vault, Mutations>>
    BY RefinementNext
  <1>3. QED
    BY <1>1, <1>2, Invariant, PTL DEF Spec, ImplementsAtomicVault, Atomic!Spec, Vault

=============================================================================
