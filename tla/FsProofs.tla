------------------------------ MODULE FsProofs ------------------------------
(* Proofs about FsEffects: the tree stays a tree, a task changes only what its
   allow-list covers, and writes are atomic. While a write is under way its
   temporary file holds what was stored of the content so far; a file that only
   writes touch holds what one write stored, whole, and no later write was
   answered with success. *)
EXTENDS FsEffects, EffectRuntimeProofs

-----------------------------------------------------------------------------
(* Prefixes. *)

Words == Seq(STRING)

LEMMA WordFacts ==
    ASSUME NEW a \in Words
    PROVE  /\ Len(a) \in Nat /\ DOMAIN a = 1 .. Len(a)
           /\ \A i \in 1 .. Len(a) : a[i] \in STRING
  BY LenProperties, ElementOfSeq DEF Words

LEMMA SubWord ==
    ASSUME NEW a \in Words, NEW m \in Nat, NEW n \in Nat, 1 =< m, n =< Len(a)
    PROVE  /\ SubSeq(a, m, n) \in Words
           /\ Len(SubSeq(a, m, n)) = IF m =< n THEN n - m + 1 ELSE 0
           /\ \A i \in 1 .. n - m + 1 : SubSeq(a, m, n)[i] = a[m + i - 1]
<1>1. \A i \in m .. n : a[i] \in STRING
  BY WordFacts
<1>2. m \in Int /\ n \in Int
  OBVIOUS
<1>3. QED
  BY <1>1, <1>2, SubSeqProperties DEF Words

(* A prefix, element by element. *)
LEMMA PrefixFacts ==
    ASSUME NEW a \in Words, NEW b \in Words
    PROVE  IsPrefix(a, b) <=> Len(a) =< Len(b) /\ \A i \in 1 .. Len(a) : a[i] = b[i]
<1>1. PICK n \in Nat, k \in Nat : n = Len(a) /\ k = Len(b)
  BY WordFacts
<1>2. CASE n =< k
  <2>1. SubSeq(a, 1, n) = a
    BY <1>1, SubSeqFull DEF Words
  <2>2. /\ SubSeq(b, 1, n) \in Words /\ Len(SubSeq(b, 1, n)) = n
        /\ \A i \in 1 .. n : SubSeq(b, 1, n)[i] = b[i]
    BY <1>1, <1>2, SubWord
  <2>3. a = SubSeq(b, 1, n) <=> \A i \in 1 .. n : a[i] = b[i]
    BY <1>1, <2>2, SeqEqual DEF Words
  <2>4. QED
    BY <1>1, <1>2, <2>1, <2>3 DEF IsPrefix
<1>3. CASE ~(n =< k)
  BY <1>1, <1>3 DEF IsPrefix
<1>4. QED
  BY <1>2, <1>3

LEMMA PrefixTransitive ==
    ASSUME NEW a \in Words, NEW b \in Words, NEW c \in Words, IsPrefix(a, b), IsPrefix(b, c)
    PROVE  IsPrefix(a, c)
<1>1. PICK l \in Nat, m \in Nat, n \in Nat : l = Len(a) /\ m = Len(b) /\ n = Len(c)
  BY WordFacts
<1>2. /\ l =< m /\ \A i \in 1 .. l : a[i] = b[i]
      /\ m =< n /\ \A i \in 1 .. m : b[i] = c[i]
  BY <1>1, PrefixFacts
<1>3. l =< n /\ \A i \in 1 .. l : a[i] = c[i]
  BY <1>2
<1>4. QED
  BY <1>1, <1>3, PrefixFacts

LEMMA PrefixSelf == \A a \in Words : IsPrefix(a, a)
  BY PrefixFacts, WordFacts

LEMMA PrefixesEqual ==
    ASSUME NEW a \in Words, NEW b \in Words, IsPrefix(a, b), Len(b) =< Len(a)
    PROVE  a = b
<1>1. PICK l \in Nat, m \in Nat : l = Len(a) /\ m = Len(b)
  BY WordFacts
<1>2. l =< m /\ \A i \in 1 .. l : a[i] = b[i]
  BY <1>1, PrefixFacts
<1>3. l = m
  BY <1>1, <1>2
<1>4. QED
  BY <1>1, <1>2, <1>3, SeqEqual DEF Words

(* Two prefixes of one path: the shorter is a prefix of the longer. *)
LEMMA PrefixesOfOne ==
    ASSUME NEW a \in Words, NEW b \in Words, NEW c \in Words,
           IsPrefix(a, c), IsPrefix(b, c), Len(a) =< Len(b)
    PROVE  IsPrefix(a, b)
<1>1. PICK l \in Nat, m \in Nat : l = Len(a) /\ m = Len(b)
  BY WordFacts
<1>2. l =< m /\ (\A i \in 1 .. l : a[i] = c[i]) /\ (\A i \in 1 .. m : b[i] = c[i])
  BY <1>1, PrefixFacts
<1>3. \A i \in 1 .. l : a[i] = b[i]
  BY <1>2
<1>4. QED
  BY <1>1, <1>2, <1>3, PrefixFacts

LEMMA PathFacts ==
    ASSUME NEW p \in Paths
    PROVE  /\ p \in Words /\ Len(p) \in Nat /\ 1 =< Len(p)
           /\ TmpOf[p] \in Paths
           /\ \A a \in Words : IsPrefix(a, p) /\ 1 =< Len(a) => a \in Paths
<1>1. p \in Words /\ p # <<>> /\ TmpOf[p] \in Paths
  BY PathsAreClosed DEF Words
<1>2. Len(p) \in Nat /\ 1 =< Len(p)
  BY <1>1, EmptySeq, WordFacts DEF Words
<1>3. ASSUME NEW a \in Words, IsPrefix(a, p), 1 =< Len(a) PROVE a \in Paths
  <2>1. Len(a) \in 1 .. Len(p)
    BY <1>1, <1>2, <1>3, PrefixFacts, WordFacts
  <2>2. SubSeq(a, 1, Len(a)) = a
    BY SubSeqFull DEF Words
  <2>3. a = SubSeq(p, 1, Len(a))
    BY <1>3, <2>2 DEF IsPrefix
  <2>4. QED
    BY <2>1, <2>3, PathsAreClosed
<1>4. QED
  BY <1>1, <1>2, <1>3

(* The parent, and that the directories above a path are it and those above it. *)
LEMMA FrontFacts ==
    ASSUME NEW p \in Paths, Len(p) > 1
    PROVE  /\ Front(p) \in Paths /\ Front(p) # p /\ IsPrefix(Front(p), p)
           /\ \A a \in Words : IsPrefix(a, p) /\ a # p => IsPrefix(a, Front(p))
<1>1. PICK n \in Nat : n = Len(p) /\ n > 1 /\ p \in Words
  BY PathFacts
<1>2. PICK k \in Nat : k = n - 1 /\ 1 =< k
  BY <1>1
<1>3. /\ Front(p) \in Words /\ Len(Front(p)) = k
      /\ \A i \in 1 .. k : Front(p)[i] = p[i]
  BY <1>1, <1>2, SubWord DEF Front
<1>4. IsPrefix(Front(p), p) /\ Front(p) # p
  BY <1>1, <1>2, <1>3, PrefixFacts
<1>5. Front(p) \in Paths
  BY <1>2, <1>3, <1>4, PathFacts
<1>6. ASSUME NEW a \in Words, IsPrefix(a, p), a # p PROVE IsPrefix(a, Front(p))
  <2>1. Len(a) \in Nat /\ ~(Len(p) =< Len(a))
    BY <1>1, <1>6, PrefixesEqual, WordFacts
  <2>2. Len(a) =< Len(Front(p))
    BY <1>1, <1>2, <1>3, <2>1
  <2>3. QED
    BY <1>1, <1>3, <1>4, <1>6, <2>2, PrefixesOfOne
<1>7. QED
  BY <1>4, <1>5, <1>6

-----------------------------------------------------------------------------
(* The host's calls keep a tree a tree. *)

LEMMA KindsDiffer ==
    /\ Absent.kind = "absent" /\ Dir.kind = "dir"
    /\ \A b : File(b).kind = "file" /\ File(b).bytes = b
    /\ \A b : File(b) # Absent
    /\ Dir # Absent
  BY DEF Absent, Dir, File, Node

(* A path whose parent is a directory is in directories all the way. *)
LEMMA AboveAreDirs ==
    ASSUME NEW t, IsTree(t), NEW p \in Paths, ParentIsDir(t, p),
           NEW a \in Paths, IsPrefix(a, p), a # p
    PROVE  IsDir(t, a)
<1>1. /\ a \in Words /\ p \in Words /\ Len(a) \in Nat /\ Len(p) \in Nat /\ 1 =< Len(a)
  BY PathFacts
<1>2. ~(Len(p) =< Len(a))
  BY <1>1, PrefixesEqual
<1>3. Len(p) > 1
  BY <1>1, <1>2
<1>4. Front(p) \in Paths /\ IsPrefix(a, Front(p)) /\ IsDir(t, Front(p))
  BY <1>1, <1>3, FrontFacts DEF ParentIsDir
<1>5. t[Front(p)] # Absent
  BY <1>4, KindsDiffer DEF IsDir
<1>6. CASE a = Front(p)
  BY <1>4, <1>6
<1>7. CASE a # Front(p)
  BY <1>4, <1>5, <1>7 DEF IsTree
<1>8. QED
  BY <1>6, <1>7

(* Creating, truncating or writing a file, creating a directory. *)
LEMMA TreeSet ==
    ASSUME NEW t, IsTree(t), NEW p \in Paths, NEW e,
           ParentIsDir(t, p) \/ t[p] # Absent, ~IsDir(t, p)
    PROVE  IsTree([t EXCEPT ![p] = e])
<1> DEFINE u == [t EXCEPT ![p] = e]
<1>1. DOMAIN u = Paths /\ u[p] = e /\ \A q \in Paths : q # p => u[q] = t[q]
  BY DEF IsTree
<1>2. ASSUME NEW a \in Paths, NEW q \in Paths, a # q, IsPrefix(a, q), u[q] # Absent
      PROVE  IsDir(u, a)
  <2>1. CASE q = p
    <3>1. IsDir(t, a)
      BY <1>2, <2>1, AboveAreDirs DEF IsTree
    <3>2. QED
      BY <1>1, <1>2, <2>1, <3>1 DEF IsDir
  <2>2. CASE q # p
    <3>1. IsDir(t, a)
      BY <1>1, <1>2, <2>2 DEF IsTree
    <3>2. a # p
      BY <3>1
    <3>3. QED
      BY <1>1, <3>1, <3>2 DEF IsDir
  <2>3. QED
    BY <2>1, <2>2
<1> HIDE DEF u
<1>3. IsTree(u)
  BY <1>1, <1>2 DEF IsTree
<1>4. QED
  BY <1>3 DEF u

LEMMA TreeRemove ==
    ASSUME NEW t, IsTree(t), NEW p \in Paths, Children(t, p) = {}
    PROVE  IsTree([t EXCEPT ![p] = Absent])
<1> DEFINE u == [t EXCEPT ![p] = Absent]
<1>1. DOMAIN u = Paths /\ u[p] = Absent /\ \A q \in Paths : q # p => u[q] = t[q]
  BY DEF IsTree
<1>2. ASSUME NEW a \in Paths, NEW q \in Paths, a # q, IsPrefix(a, q), u[q] # Absent
      PROVE  IsDir(u, a)
  <2>1. t[q] # Absent /\ IsDir(t, a)
    BY <1>1, <1>2 DEF IsTree
  <2>2. a # p
    BY <1>2, <2>1 DEF Children
  <2>3. QED
    BY <1>1, <2>1, <2>2 DEF IsDir
<1> HIDE DEF u
<1>3. IsTree(u)
  BY <1>1, <1>2 DEF IsTree
<1>4. QED
  BY <1>3 DEF u

(* Nothing is below a file, or below what is not there. *)
LEMMA ChildlessUnlessDir ==
    ASSUME NEW t, IsTree(t), NEW p \in Paths, ~IsDir(t, p)
    PROVE  Children(t, p) = {}
  BY DEF IsTree, Children

(* A path below one directory, carried below another. *)
Carried(from, to, p) == from \o SubSeq(p, Len(to) + 1, Len(p))

CarriedAs(from, to, p, f, l, n) ==
    /\ Carried(from, to, p) \in Words
    /\ Len(Carried(from, to, p)) = f + n - l
    /\ \A i \in 1 .. f + n - l :
         Carried(from, to, p)[i] = IF i =< f THEN from[i] ELSE p[l + i - f]

LEMMA CarriedFacts ==
    ASSUME NEW from \in Words, NEW to \in Words, NEW p \in Words, IsPrefix(to, p)
    PROVE  CarriedAs(from, to, p, Len(from), Len(to), Len(p))
<1>1. PICK f \in Nat, l \in Nat, n \in Nat : f = Len(from) /\ l = Len(to) /\ n = Len(p)
  BY WordFacts
<1>2. l =< n
  BY <1>1, PrefixFacts
<1>3. PICK rest : rest = SubSeq(p, l + 1, n)
  OBVIOUS
<1>4. /\ rest \in Words /\ Len(rest) = n - l
      /\ \A i \in 1 .. n - l : rest[i] = p[l + i]
  <2>1. l + 1 \in Nat /\ 1 =< l + 1 /\ n =< n /\ n - (l + 1) + 1 = n - l
        /\ \A i \in 1 .. n - l : l + 1 + i - 1 = l + i
    OBVIOUS
  <2>2. /\ rest \in Words
        /\ Len(rest) = IF l + 1 =< n THEN n - (l + 1) + 1 ELSE 0
        /\ \A i \in 1 .. n - (l + 1) + 1 : rest[i] = p[l + 1 + i - 1]
    BY <1>1, <1>3, <2>1, SubWord
  <2>3. Len(rest) = n - l
    BY <1>2, <2>2
  <2>4. QED
    BY <2>1, <2>2, <2>3
<1>5. PICK m \in Nat : m = n - l
  BY <1>2
<1>6. PICK c : c = from \o rest
  OBVIOUS
<1>7. /\ c \in Words /\ Len(c) = f + m
      /\ \A i \in 1 .. f + m : c[i] = IF i =< f THEN from[i] ELSE rest[i - f]
  <2>1. Len(rest) = m /\ rest \in Words
    BY <1>4, <1>5
  <2>2. /\ from \o rest \in Words
        /\ Len(from \o rest) = Len(from) + Len(rest)
        /\ \A i \in 1 .. Len(from) + Len(rest) :
             (from \o rest)[i] = IF i =< Len(from) THEN from[i] ELSE rest[i - Len(from)]
    BY <2>1, ConcatProperties DEF Words
  <2>3. QED
    BY <1>1, <1>6, <2>1, <2>2
<1>8. \A i \in 1 .. f + m : ~(i =< f) => i - f \in 1 .. m /\ l + (i - f) = l + i - f
  BY <1>1
<1>9. \A i \in 1 .. f + m : c[i] = IF i =< f THEN from[i] ELSE p[l + i - f]
  BY <1>4, <1>5, <1>7, <1>8
<1>10. f + m = f + n - l
  BY <1>5
<1>11. c = Carried(from, to, p)
  BY <1>1, <1>3, <1>6 DEF Carried
<1>12. CarriedAs(from, to, p, f, l, n)
  BY <1>7, <1>9, <1>10, <1>11 DEF CarriedAs
<1>13. QED
  BY <1>1, <1>12

LEMMA CarriedPrefix ==
    ASSUME NEW from \in Words, NEW to \in Words, NEW p \in Words, NEW q \in Words,
           IsPrefix(to, p), IsPrefix(p, q), p # q
    PROVE  /\ IsPrefix(Carried(from, to, p), Carried(from, to, q))
           /\ Carried(from, to, p) # Carried(from, to, q)
           /\ Len(from) =< Len(Carried(from, to, p))
<1>1. PICK f \in Nat, l \in Nat, m \in Nat, n \in Nat :
        f = Len(from) /\ l = Len(to) /\ m = Len(p) /\ n = Len(q)
  BY WordFacts
<1>2. IsPrefix(to, q)
  BY PrefixTransitive
<1>3. l =< m /\ m =< n /\ \A i \in 1 .. m : p[i] = q[i]
  BY <1>1, PrefixFacts
<1>4. m # n
  BY <1>1, PrefixesEqual
<1>5. PICK a : a = Carried(from, to, p)
  OBVIOUS
<1>6. PICK b : b = Carried(from, to, q)
  OBVIOUS
<1>7. /\ a \in Words /\ Len(a) = f + m - l
      /\ \A i \in 1 .. f + m - l : a[i] = IF i =< f THEN from[i] ELSE p[l + i - f]
  <2>1. CarriedAs(from, to, p, Len(from), Len(to), Len(p))
    BY CarriedFacts
  <2>2. CarriedAs(from, to, p, f, l, m)
    BY <1>1, <2>1
  <2>3. QED
    BY <1>5, <2>2 DEF CarriedAs
<1>8. /\ b \in Words /\ Len(b) = f + n - l
      /\ \A i \in 1 .. f + n - l : b[i] = IF i =< f THEN from[i] ELSE q[l + i - f]
  <2>1. CarriedAs(from, to, q, Len(from), Len(to), Len(q))
    BY <1>2, CarriedFacts
  <2>2. CarriedAs(from, to, q, f, l, n)
    BY <1>1, <2>1
  <2>3. QED
    BY <1>6, <2>2 DEF CarriedAs
<1>9. f + m - l =< f + n - l /\ f + m - l # f + n - l /\ f =< f + m - l
  BY <1>3, <1>4
<1>10. ASSUME NEW i \in 1 .. f + m - l PROVE a[i] = b[i]
  <2>1. i \in 1 .. f + n - l
    BY <1>3
  <2>2. ~(i =< f) => l + i - f \in 1 .. m
    BY <1>3
  <2>3. QED
    BY <1>3, <1>7, <1>8, <2>1, <2>2
<1>11. IsPrefix(a, b)
  BY <1>7, <1>8, <1>9, <1>10, PrefixFacts
<1>12. QED
  BY <1>1, <1>5, <1>6, <1>7, <1>8, <1>9, <1>11

LEMMA TreeRename ==
    ASSUME NEW t, IsTree(t), NEW from \in Paths, NEW to \in Paths, CanRename(t, from, to)
    PROVE  IsTree(Renamed(t, from, to))
<1>1. CASE from = to
  BY <1>1 DEF Renamed
<1>2. CASE from # to
  <2> DEFINE u == Renamed(t, from, to)
  <2>1. /\ DOMAIN u = Paths
        /\ \A p \in Paths :
             u[p] = IF IsPrefix(to, p)
                      THEN IF Carried(from, to, p) \in Paths THEN t[Carried(from, to, p)] ELSE Absent
                    ELSE IF IsPrefix(from, p) THEN Absent ELSE t[p]
    BY <1>2 DEF Renamed, Carried
  <2> HIDE DEF u
  <2>2. from \in Words /\ to \in Words /\ Len(from) \in Nat /\ 1 =< Len(from)
    BY PathFacts
  <2>3. /\ t[from] # Absent /\ ParentIsDir(t, to)
        /\ IsDir(t, from) => ~IsPrefix(from, to)
    BY <1>2 DEF CanRename
  <2>4. ASSUME NEW p \in Paths, NEW q \in Paths, p # q, IsPrefix(p, q), u[q] # Absent
        PROVE  IsDir(u, p)
    <3>1. p \in Words /\ q \in Words /\ Len(p) \in Nat /\ Len(to) \in Nat
      BY PathFacts
    <3>2. CASE IsPrefix(to, p)
      <4>1. IsPrefix(to, q)
        BY <2>2, <2>4, <3>1, <3>2, PrefixTransitive
      <4>2. Carried(from, to, q) \in Paths /\ t[Carried(from, to, q)] # Absent
        BY <2>1, <2>4, <4>1
      <4>3. /\ Carried(from, to, p) \in Words
            /\ IsPrefix(Carried(from, to, p), Carried(from, to, q))
            /\ Carried(from, to, p) # Carried(from, to, q)
            /\ 1 =< Len(Carried(from, to, p))
        <5>1. Carried(from, to, p) \in Words
          BY <2>2, <3>1, <3>2, CarriedFacts DEF CarriedAs
        <5>2. /\ IsPrefix(Carried(from, to, p), Carried(from, to, q))
              /\ Carried(from, to, p) # Carried(from, to, q)
              /\ Len(from) =< Len(Carried(from, to, p))
          BY <2>2, <2>4, <3>1, <3>2, CarriedPrefix
        <5>3. Len(Carried(from, to, p)) \in Nat
          BY <5>1, WordFacts
        <5>4. QED
          BY <2>2, <5>1, <5>2, <5>3
      <4>4. Carried(from, to, p) \in Paths
        BY <4>2, <4>3, PathFacts
      <4>5. IsDir(t, Carried(from, to, p))
        BY <4>2, <4>3, <4>4 DEF IsTree
      <4>6. QED
        BY <2>1, <3>2, <4>4, <4>5 DEF IsDir
    <3>3. CASE ~IsPrefix(to, p) /\ IsPrefix(to, q)
      <4>1. IsPrefix(p, to)
        BY <2>2, <2>4, <3>1, <3>3, PrefixesOfOne
      <4>2. p # to
        BY <2>2, <3>3, PrefixSelf
      <4>3. IsDir(t, p)
        BY <2>3, <4>1, <4>2, AboveAreDirs
      <4>4. ASSUME IsPrefix(from, p) PROVE FALSE
        <5>1. IsPrefix(from, to)
          BY <2>2, <3>1, <4>1, <4>4, PrefixTransitive
        <5>3. ~IsDir(t, from)
          BY <2>3, <5>1
        <5>4. from # p
          BY <4>3, <5>3
        <5>5. t[p] # Absent
          BY <4>3, KindsDiffer DEF IsDir
        <5>6. QED
          BY <4>4, <5>3, <5>4, <5>5 DEF IsTree
      <4>5. QED
        BY <2>1, <3>3, <4>3, <4>4 DEF IsDir
    <3>4. CASE ~IsPrefix(to, q)
      <4>1. ~IsPrefix(to, p)
        BY <2>2, <2>4, <3>1, <3>4, PrefixTransitive
      <4>2. ~IsPrefix(from, q) /\ t[q] # Absent
        BY <2>1, <2>4, <3>4
      <4>3. ~IsPrefix(from, p)
        BY <2>2, <2>4, <3>1, <4>2, PrefixTransitive
      <4>4. IsDir(t, p)
        BY <2>4, <4>2 DEF IsTree
      <4>5. QED
        BY <2>1, <4>1, <4>3, <4>4 DEF IsDir
    <3>5. QED
      BY <3>2, <3>3, <3>4
  <2>5. IsTree(u)
    BY <2>1, <2>4 DEF IsTree
  <2>6. QED
    BY <2>5 DEF u
<1>3. QED
  BY <1>1, <1>2

(* A file or a link that is renamed: it takes the place of another, or of nothing, and the
   rest of the tree is as it was. *)
LEMMA CarriedRoot ==
    ASSUME NEW from \in Words, NEW to \in Words
    PROVE  Carried(from, to, to) = from
<1>1. PICK f \in Nat, l \in Nat : f = Len(from) /\ l = Len(to)
  BY WordFacts
<1>2. PICK c : c = Carried(from, to, to)
  OBVIOUS
<1>3. c \in Words /\ Len(c) = f + l - l
      /\ \A i \in 1 .. f + l - l : c[i] = IF i =< f THEN from[i] ELSE to[l + i - f]
  <2>1. CarriedAs(from, to, to, Len(from), Len(to), Len(to))
    BY PrefixSelf, CarriedFacts
  <2>2. CarriedAs(from, to, to, f, l, l)
    BY <1>1, <2>1
  <2>3. QED
    BY <1>2, <2>2 DEF CarriedAs
<1>4. Len(c) = f /\ \A i \in 1 .. f : c[i] = from[i]
  BY <1>3
<1>5. c = from
  BY <1>1, <1>3, <1>4, SeqEqual DEF Words
<1>6. QED
  BY <1>2, <1>5

LEMMA RenameOfFile ==
    ASSUME NEW t, IsTree(t), NEW from \in Paths, NEW to \in Paths, from # to,
           ~IsDir(t, from), CanRename(t, from, to)
    PROVE  LET u == Renamed(t, from, to)
           IN  u[to] = t[from] /\ u[from] = Absent
               /\ \A p \in Paths \ {from, to} : u[p] = t[p]
<1> DEFINE u == Renamed(t, from, to)
<1>1. \A p \in Paths :
        u[p] = IF IsPrefix(to, p)
                 THEN IF Carried(from, to, p) \in Paths THEN t[Carried(from, to, p)] ELSE Absent
               ELSE IF IsPrefix(from, p) THEN Absent ELSE t[p]
  BY DEF Renamed, Carried
<1> HIDE DEF u
<1>2. /\ from \in Words /\ to \in Words /\ Carried(from, to, to) = from
      /\ IsPrefix(to, to) /\ IsPrefix(from, from)
  BY PathFacts, CarriedRoot, PrefixSelf
<1>3. ~IsDir(t, from) /\ ~IsDir(t, to) /\ t[from] # Absent
  BY DEF CanRename
<1>4. ~IsPrefix(to, from)
  BY <1>3 DEF IsTree
<1>5. u[to] = t[from] /\ u[from] = Absent
  BY <1>1, <1>2, <1>4
<1>6. ASSUME NEW p \in Paths \ {from, to} PROVE u[p] = t[p]
  <2>1. CASE IsPrefix(to, p)
    <3>1. t[p] = Absent
      BY <1>3, <1>6, <2>1 DEF IsTree
    <3>2. IsPrefix(from, Carried(from, to, p)) /\ from # Carried(from, to, p)
      BY <1>2, <1>6, <2>1, PathFacts, CarriedPrefix
    <3>3. Carried(from, to, p) \in Paths => t[Carried(from, to, p)] = Absent
      BY <1>3, <3>2 DEF IsTree
    <3>4. QED
      BY <1>1, <1>6, <2>1, <3>1, <3>3
  <2>2. CASE ~IsPrefix(to, p) /\ IsPrefix(from, p)
    BY <1>1, <1>3, <1>6, <2>2 DEF IsTree
  <2>3. CASE ~IsPrefix(to, p) /\ ~IsPrefix(from, p)
    BY <1>1, <1>6, <2>3
  <2>4. QED
    BY <2>1, <2>2, <2>3
<1>7. QED
  BY <1>5, <1>6 DEF u

-----------------------------------------------------------------------------
(* Names: what the checks leave of them. *)

LEMMA AboveFacts ==
    ASSUME NEW p \in Words, NEW a
    PROVE  a \in Above(p) <=> a \in Words /\ IsPrefix(a, p)
<1>1. PICK n \in Nat : n = Len(p)
  BY WordFacts
<1>2. ASSUME NEW k \in 0 .. n, a = SubSeq(p, 1, k) PROVE a \in Words /\ IsPrefix(a, p)
  <2>1. /\ a \in Words /\ Len(a) = k /\ \A i \in 1 .. k : a[i] = p[i]
    BY <1>1, <1>2, SubWord
  <2>2. QED
    BY <1>1, <2>1, PrefixFacts
<1>3. ASSUME a \in Words, IsPrefix(a, p) PROVE \E k \in 0 .. n : a = SubSeq(p, 1, k)
  <2>1. Len(a) \in 0 .. n
    BY <1>1, <1>3, PrefixFacts, WordFacts
  <2>2. SubSeq(a, 1, Len(a)) = a
    BY <1>3, SubSeqFull DEF Words
  <2>3. QED
    BY <1>3, <2>1, <2>2 DEF IsPrefix
<1>4. QED
  BY <1>1, <1>2, <1>3 DEF Above

(* There is no link on a name the tree has a directory or a file at. *)
LEMMA NoLinkOn ==
    ASSUME NEW t, IsTree(t), NEW p \in Paths, t[p].kind \in {"dir", "file"}
    PROVE  Walk(t, p) = p
<1>1. p \in Words /\ t[p] # Absent
  BY PathFacts, KindsDiffer
<1>2. ASSUME NEW n \in 1 .. Len(p), SubSeq(p, 1, n) \in Paths PROVE t[SubSeq(p, 1, n)].kind # "link"
  <2>1. PICK a \in Paths : a = SubSeq(p, 1, n)
    BY <1>2
  <2>2. IsPrefix(a, p)
    <3>1. a \in Above(p)
      BY <1>2, <2>1, WordFacts, PathFacts DEF Above
    <3>2. QED
      BY <1>1, <3>1, AboveFacts
  <2>3. CASE a = p
    BY <2>1, <2>3
  <2>4. CASE a # p
    BY <1>1, <2>1, <2>2, <2>4 DEF IsTree, IsDir
  <2>5. QED
    BY <2>3, <2>4
<1>3. LinksOn(t, p) = {}
  BY <1>2 DEF LinksOn
<1>4. QED
  BY <1>3 DEF Walk

(* A set of naturals that is bounded and not empty has a maximum. *)
LEMMA MaxFacts ==
    ASSUME NEW n \in Nat, NEW S, S \subseteq 0 .. n, S # {}
    PROVE  Max(S) \in S /\ \A y \in S : y =< Max(S)
<1> DEFINE T == {n - x : x \in S}
<1>1. T \subseteq Nat /\ T # {}
  <2>1. \A x \in S : n - x \in Nat
    OBVIOUS
  <2>2. QED
    BY <2>1
<1>2. PICK m \in T : \A y \in T : m =< y
  BY <1>1, LeastNatural
<1>3. PICK x \in S : m = n - x
  OBVIOUS
<1>4. \A y \in S : x >= y
  <2> SUFFICES ASSUME NEW y \in S PROVE x >= y
    OBVIOUS
  <2>1. n - y \in T
    OBVIOUS
  <2>2. n - x =< n - y
    BY <1>2, <1>3, <2>1
  <2>3. x \in Nat /\ y \in Nat
    OBVIOUS
  <2> HIDE DEF T
  <2>4. QED
    BY <2>2, <2>3
<1>5. Max(S) \in S /\ \A y \in S : Max(S) >= y
  BY <1>4 DEF Max
<1>6. QED
  BY <1>5

(* absolute_path leaves a name that is there where its links lead. *)
LEMMA AbsoluteOfThere ==
    ASSUME NEW t, IsTree(t), NEW p \in Words, There(t, p), Absolute(t, p) \in Paths
    PROVE  Absolute(t, p) = Walk(t, p) /\ Walk(t, Absolute(t, p)) = Absolute(t, p)
<1> DEFINE S == {k \in 0 .. Len(p) : There(t, SubSeq(p, 1, k))}
<1>1. PICK n \in Nat : n = Len(p) /\ SubSeq(p, 1, n) = p
  BY WordFacts, SubSeqFull DEF Words
<1>2. n \in S /\ S \subseteq 0 .. n
  <2>1. n \in 0 .. Len(p)
    BY <1>1
  <2>2. There(t, SubSeq(p, 1, n))
    BY <1>1, Zenon
  <2>3. QED
    BY <1>1, <2>1, <2>2
<1>3. Max(S) = n
  <2>1. Max(S) \in S /\ \A k \in S : k =< Max(S)
    BY <1>2, MaxFacts
  <2>2. Max(S) \in 0 .. n /\ n =< Max(S)
    BY <1>2, <2>1
  <2>3. QED
    BY <2>2
<1>4. Absolute(t, p) = Walk(t, p) \o SubSeq(p, n + 1, n)
  <2>1. Absolute(t, p) = Walk(t, SubSeq(p, 1, Max(S))) \o SubSeq(p, Max(S) + 1, Len(p))
    BY DEF Absolute
  <2>2. QED
    BY <1>1, <1>3, <2>1
<1>5. SubSeq(p, n + 1, n) = <<>>
  <2>1. SubSeq(p, n + 1, n) \in Words /\ Len(SubSeq(p, n + 1, n)) = 0
    BY <1>1, SubWord
  <2>2. QED
    BY <2>1, EmptySeq DEF Words
<1>6. Walk(t, p) \in Words /\ (Walk(t, p) = <<>> \/ t[Walk(t, p)].kind \in {"dir", "file"})
  <2>1. Walk(t, p) = <<>> \/ (Walk(t, p) \in Paths /\ t[Walk(t, p)].kind \in {"dir", "file"})
    BY DEF There
  <2>2. <<>> \in Words
    BY DEF Words
  <2>3. QED
    BY <2>1, <2>2, PathFacts
<1>7. Walk(t, p) \o <<>> = Walk(t, p)
  BY <1>6, ConcatEmptySeq DEF Words
<1>8. Absolute(t, p) = Walk(t, p)
  BY <1>4, <1>5, <1>7
<1>9. Walk(t, p) # <<>>
  BY <1>8, PathsAreClosed
<1>10. QED
  BY <1>6, <1>8, <1>9, NoLinkOn

-----------------------------------------------------------------------------
(* The invariant. The names of a task that passed the checks are in the tree and
   under its allow-list; a file opened is where a name that was there is, or
   where a link leads at one that was not. An operation half done belongs to the
   worker that is busy, and fills or removes what its protocol says; no directory
   is at the temporary name of a write. *)

PayloadOK(payload) ==
    /\ {payload.path, payload.to} \subseteq Words \cup {None}
    /\ payload.allowlist # None => payload.allowlist \subseteq Words
    /\ payload.content # None => payload.content \in Seq(Chunks)
IssuedInv == \A i \in DOMAIN issued : PayloadOK(issued[i].payload)

Within(roots, p) == roots \cap Above(p) # {}
FoundOK(n, task) ==
    /\ n.path \in Paths /\ Within(n.roots, n.path)
    /\ n.to \in Paths /\ Within(n.roots, n.to)
    /\ task.protocol \in {Effect("write"), Effect("append")} => task.payload.content \in Seq(Chunks)
    /\ task.protocol \in {Effect("append"), Effect("copy")} => n.missing \/ n.file = n.to
    /\ task.protocol = Effect("append") => n.to = n.path
Fresh(i) ==
    /\ i \in 1 .. taken
    /\ \A w \in Workers : Busy(w) => i =< Position(w) /\ (op[w] = Idle => i # Position(w))
NamesInv ==
    /\ DOMAIN names \subseteq DOMAIN issued
    /\ \A i \in DOMAIN names : FoundOK(names[i], issued[i]) /\ Fresh(i)

Underway(w) ==
    LET protocol == Current(w).protocol
        step == op[w].step
        file == op[w].file
    IN  /\ Position(w) \in DOMAIN names
        /\ \/ /\ op[w] = Begun
              /\ protocol = Effect("write") /\ IsDir(tree, TmpOf[Path(w)]) =>
                   Opened(w) = TmpOf[Path(w)]
           \/ /\ step \in {"fill", "rename"} /\ protocol = Effect("write")
              /\ file \in Paths /\ file = Opened(w)
              /\ IsFile(tree, file) /\ ~IsDir(tree, TmpOf[Path(w)])
           \/ /\ step = "fill" /\ protocol \in {Effect("append"), Effect("copy")}
              /\ file \in Paths /\ file = Opened(w)
           \/ step = "remove" /\ protocol = Effect("remove")
           \/ step = "mkdir" /\ protocol = Effect("mkdir")
OpInv ==
    /\ op = [w \in Workers |-> op[w]]
    /\ \A w \in Workers : op[w] # Idle => Busy(w) /\ Underway(w)
FsInv == RuntimeInv /\ OpInv /\ IssuedInv /\ NamesInv /\ IsTree(tree)

LEMMA OpsDiffer ==
    \A a, b : Effect(a) = Effect(b) => a = b
  BY DEF Effect

LEMMA StepsDiffer ==
    /\ Idle.step = "idle" /\ Begun.step = "begun" /\ Idle # Begun
    /\ \A s, f, l : Op(s, f, l).step = s /\ Op(s, f, l).file = f /\ Op(s, f, l).left = l
  BY DEF Idle, Begun, Op

LEMMA FsInvInit == Init => FsInv
<1> SUFFICES ASSUME Init PROVE FsInv
  OBVIOUS
<1>1. RuntimeInv
  BY RuntimeInvInit DEF Init
<1>2. OpInv
  BY DEF Init, OpInv
<1>3. DOMAIN issued = {} /\ DOMAIN names = {}
  BY IsSeqShort, IsSeqFacts DEF Init, RuntimeInit
<1>4. QED
  BY <1>1, <1>2, <1>3, InitTreeIsTree DEF Init, FsInv, IssuedInv, NamesInv

(* What the checks of a task give. *)
LEMMA CheckedFacts ==
    ASSUME NEW t, NEW task, NEW field, CheckedPath(t, task, field) = "ok"
    PROVE  /\ task.payload[field] # None
           /\ Absolute(t, task.payload[field]) \in Paths
           /\ Within({Absolute(t, dir) : dir \in task.payload.allowlist},
                     Absolute(t, task.payload[field]))
<1>1. /\ task.payload[field] # None
      /\ Absolute(t, task.payload[field]) \in Paths
      /\ \E dir \in task.payload.allowlist :
           Absolute(t, dir) \in Above(Absolute(t, task.payload[field]))
  BY DEF CheckedPath
<1>2. QED
  BY <1>1 DEF Within

LEMMA RefusalFacts ==
    ASSUME NEW t, IsTree(t), NEW task, PayloadOK(task.payload), EffectRefusal(t, task) = "ok"
    PROVE  FoundOK(NamesOf(t, task), task)
<1> DEFINE n == NamesOf(t, task)
           roots == {Absolute(t, dir) : dir \in task.payload.allowlist}
           Is(o) == task.protocol = Effect(o)
<1>1. CheckedPath(t, task, "path") = "ok"
  BY DEF EffectRefusal
<1>2. Is("copy") \/ Is("move") => CheckedPath(t, task, "to") = "ok"
  BY DEF EffectRefusal
<1>3. task.payload.path # None /\ (Is("copy") \/ Is("move") => task.payload.to # None)
  BY <1>1, <1>2 DEF CheckedPath
<1>4. /\ n.path = Absolute(t, task.payload.path)
      /\ n.to = IF Is("copy") \/ Is("move") THEN Absolute(t, task.payload.to) ELSE n.path
      /\ n.roots = roots
      /\ n.file = Walk(t, IF Is("write") THEN TmpOf[n.path] ELSE n.to)
      /\ n.missing = ~There(t, IF Is("copy") THEN task.payload.to ELSE task.payload.path)
  BY DEF NamesOf
<1>5. n.path \in Paths /\ Within(n.roots, n.path)
  <2>1. /\ Absolute(t, task.payload["path"]) \in Paths
        /\ Within(roots, Absolute(t, task.payload["path"]))
    BY <1>1, CheckedFacts
  <2> HIDE DEF roots, n
  <2>2. QED
    BY <1>4, <2>1
<1>6. n.to \in Paths /\ Within(n.roots, n.to)
  <2>1. CASE Is("copy") \/ Is("move")
    <3>1. /\ Absolute(t, task.payload["to"]) \in Paths
          /\ Within(roots, Absolute(t, task.payload["to"]))
      BY <1>2, <2>1, CheckedFacts
    <3> HIDE DEF roots, n
    <3>2. QED
      BY <1>4, <2>1, <3>1
  <2>2. CASE ~(Is("copy") \/ Is("move"))
    BY <1>4, <1>5, <2>2
  <2>3. QED
    BY <2>1, <2>2
<1>7. Is("write") \/ Is("append") => task.payload.content \in Seq(Chunks)
  <2>1. \E i \in DOMAIN Ops : task.protocol = Effect(Ops[i])
    BY DEF EffectRefusal
  <2>2. Is("write") \/ Is("append") => ~Is("copy") /\ ~Is("move")
    BY OpsDiffer
  <2>3. QED
    BY <1>1, <2>1, <2>2 DEF EffectRefusal, PayloadOK
<1>8. ASSUME Is("append") PROVE n.to = n.path /\ (n.missing \/ n.file = n.to)
  <2>1. ~Is("copy") /\ ~Is("move") /\ ~Is("write")
    BY <1>8, OpsDiffer
  <2>2. There(t, task.payload.path) => Walk(t, n.path) = n.path
    BY <1>3, <1>4, <1>5, AbsoluteOfThere DEF PayloadOK
  <2>3. QED
    BY <1>4, <2>1, <2>2
<1>9. ASSUME Is("copy") PROVE n.missing \/ n.file = n.to
  <2>1. ~Is("write")
    BY <1>9, OpsDiffer
  <2>2. There(t, task.payload.to) => Walk(t, n.to) = n.to
    BY <1>3, <1>4, <1>6, <1>9, AbsoluteOfThere DEF PayloadOK
  <2>3. QED
    BY <1>4, <1>9, <2>1, <2>2
<1>10. QED
  BY <1>5, <1>6, <1>7, <1>8, <1>9 DEF FoundOK

(* The file a write opens, unless a link is at its temporary name. *)
LEMMA TmpFacts ==
    ASSUME NEW t, IsTree(t), NEW task, task.protocol = Effect("write"),
           NamesOf(t, task).path \in Paths, IsDir(t, TmpOf[NamesOf(t, task).path])
    PROVE  NamesOf(t, task).file = TmpOf[NamesOf(t, task).path]
<1>1. PICK q \in Paths : q = TmpOf[NamesOf(t, task).path]
  BY PathFacts
<1>2. NamesOf(t, task).file = Walk(t, q)
  BY <1>1 DEF NamesOf
<1>3. QED
  BY <1>1, <1>2, NoLinkOn DEF IsDir

LEMMA CurrentFacts ==
    ASSUME FsInv, NEW w \in Workers, Position(w) \in DOMAIN names
    PROVE  /\ FoundOK(names[Position(w)], Current(w))
           /\ Path(w) \in Paths /\ Within(names[Position(w)].roots, Path(w))
           /\ To(w) \in Paths /\ Within(names[Position(w)].roots, To(w))
           /\ TmpOf[Path(w)] \in Paths
           /\ Position(w) \in DOMAIN issued
<1>1. FoundOK(names[Position(w)], Current(w)) /\ Position(w) \in DOMAIN issued
  BY DEF FsInv, NamesInv, Current
<1>2. QED
  BY <1>1, PathFacts DEF FoundOK, Path, To

(* Below what the allow-list covers. *)
LEMMA CoveredBelow ==
    ASSUME NEW i, NEW p \in Paths, NEW q \in Paths, Within(names[i].roots, p), IsPrefix(p, q)
    PROVE  MayChange(i, q)
<1>1. p \in Words /\ q \in Words
  BY PathFacts
<1>2. PICK root \in names[i].roots : root \in Above(p)
  BY DEF Within
<1>3. root \in Words /\ IsPrefix(root, p)
  BY <1>1, <1>2, AboveFacts
<1>4. root \in Above(q)
  BY <1>1, <1>3, PrefixTransitive, AboveFacts
<1>5. QED
  BY <1>2, <1>4 DEF MayChange

LEMMA CoveredItself ==
    ASSUME NEW i, NEW p \in Paths, Within(names[i].roots, p)
    PROVE  MayChange(i, p)
  BY PathFacts, PrefixSelf, CoveredBelow

(* The file an operation opens may be changed by it. *)
LEMMA OpenedMayChange ==
    ASSUME FsInv, NEW w \in Workers, Position(w) \in DOMAIN names, Opened(w) \in Paths,
           Current(w).protocol \in {Effect("write"), Effect("append"), Effect("copy")}
    PROVE  MayChange(Position(w), Opened(w))
<1>1. /\ Opened(w) = FileOf(Position(w)) /\ To(w) = ToOf(Position(w)) /\ Path(w) = PathOf(Position(w))
      /\ Current(w) = issued[Position(w)]
  BY DEF Opened, FileOf, To, ToOf, Path, PathOf, Current
<1>2. CASE Current(w).protocol = Effect("write")
  BY <1>1, <1>2 DEF MayChange, IsOp
<1>3. CASE Current(w).protocol \in {Effect("append"), Effect("copy")}
  <2>1. names[Position(w)].missing \/ Opened(w) = To(w)
    BY <1>3, CurrentFacts DEF FoundOK, Opened, To
  <2>2. CASE names[Position(w)].missing
    BY <1>1, <1>3, <2>2 DEF MayChange, IsOp
  <2>3. CASE Opened(w) = To(w)
    BY <2>3, CurrentFacts, CoveredItself
  <2>4. QED
    BY <2>1, <2>2, <2>3
<1>4. QED
  BY <1>2, <1>3

-----------------------------------------------------------------------------
(* Every step of a task keeps the tree one and changes what the task may. *)

TreeStep(w) ==
    IsTree(tree') /\ \A p \in Paths : tree'[p] # tree[p] =>
                       Position(w) \in DOMAIN names /\ MayChange(Position(w), p)

LEMMA SetOne ==
    ASSUME FsInv, NEW w \in Workers, NEW p \in Paths, NEW e, tree' = [tree EXCEPT ![p] = e],
           Position(w) \in DOMAIN names, MayChange(Position(w), p), IsTree(tree')
    PROVE  TreeStep(w)
<1>1. \A q \in Paths : q # p => tree'[q] = tree[q]
  BY DEF FsInv, IsTree
<1>2. QED
  BY <1>1 DEF TreeStep

LEMMA SameTree ==
    ASSUME FsInv, NEW w \in Workers, tree' = tree
    PROVE  TreeStep(w)
  BY DEF FsInv, TreeStep

LEMMA OpensFile ==
    ASSUME FsInv, NEW w \in Workers, NEW p \in Paths, NEW e, CanOpen(tree, p),
           tree' = [tree EXCEPT ![p] = e], Position(w) \in DOMAIN names, MayChange(Position(w), p)
    PROVE  TreeStep(w)
<1>1. IsTree(tree')
  BY TreeSet DEF FsInv, CanOpen, IsDir
<1>2. QED
  BY <1>1, SetOne

LEMMA BeginsFacts ==
    ASSUME FsInv, NEW w \in Workers, NEW o, Begins(w, o)
    PROVE  /\ Busy(w) /\ op[w] = Begun /\ Underway(w) /\ Current(w).protocol = Effect(o)
           /\ Position(w) \in DOMAIN names
           /\ Path(w) \in Paths /\ Within(names[Position(w)].roots, Path(w))
           /\ MayChange(Position(w), Path(w))
<1>1. Busy(w) /\ op[w] = Begun /\ op[w] # Idle /\ Current(w).protocol = Effect(o)
  BY StepsDiffer DEF Begins
<1>2. Underway(w) /\ Position(w) \in DOMAIN names
  BY <1>1 DEF FsInv, OpInv, Underway
<1>3. QED
  BY <1>1, <1>2, CurrentFacts, CoveredItself

LEMMA AtFacts ==
    ASSUME FsInv, NEW w \in Workers, NEW s, At(w, s), s # "idle"
    PROVE  /\ Busy(w) /\ Underway(w) /\ op[w].step = s /\ op[w] # Idle
           /\ Position(w) \in DOMAIN names
           /\ Path(w) \in Paths /\ Within(names[Position(w)].roots, Path(w))
           /\ MayChange(Position(w), Path(w))
<1>1. Busy(w) /\ op[w].step = s /\ op[w] # Idle
  BY StepsDiffer DEF At
<1>2. Underway(w) /\ Position(w) \in DOMAIN names
  BY <1>1 DEF FsInv, OpInv, Underway
<1>3. QED
  BY <1>1, <1>2, CurrentFacts, CoveredItself

(* The two ends of a step. *)
LEMMA FinishKeeps ==
    ASSUME FsInv, NEW w \in Workers, Busy(w), NEW result, NEW t, Finish(w, result, t), TreeStep(w)
    PROVE  FsInv'
<1>1. FinishEntry(w, result) /\ op' = [op EXCEPT ![w] = Idle] /\ names' = names
  BY DEF Finish
<1>2. /\ RuntimeInv' /\ UNCHANGED <<issued, taken>> /\ Position(w)' = Position(w) + 1
      /\ \A v \in Workers : batch'[v] # NoBatch => v = w
  BY <1>1, FinishEntryInv DEF FsInv
<1>3. \A v \in Workers : v # w => op[v] = Idle
  BY BusyFacts DEF FsInv, OpInv, Busy
<1>4. op' = [v \in Workers |-> Idle]
  BY <1>1, <1>3 DEF FsInv, OpInv
<1>5. OpInv'
  BY <1>4 DEF OpInv
<1>6. ASSUME NEW i \in DOMAIN names PROVE Fresh(i)'
  <2>1. i \in 1 .. taken /\ i =< Position(w) /\ Position(w) \in Nat
    BY <1>6, BusyFacts DEF FsInv, NamesInv, Fresh
  <2>2. \A v \in Workers : Busy(v)' => v = w
    BY <1>2 DEF Busy
  <2>3. QED
    BY <1>2, <2>1, <2>2 DEF Fresh
<1>7. NamesInv'
  BY <1>1, <1>2, <1>6 DEF FsInv, NamesInv
<1>8. QED
  BY <1>2, <1>5, <1>7 DEF FsInv, IssuedInv, TreeStep

LEMMA FailKeeps ==
    ASSUME FsInv, NEW w \in Workers, Busy(w), NEW result, Finish(w, result, tree)
    PROVE  FsInv' /\ TreeStep(w)
<1>1. TreeStep(w)
  BY SameTree DEF Finish
<1>2. QED
  BY <1>1, FinishKeeps

LEMMA ContinueFacts ==
    ASSUME FsInv, NEW w \in Workers, NEW next, NEW t, Continue(w, next, t)
    PROVE  /\ tree' = t /\ op'[w] = next /\ names' = names
           /\ \A v \in Workers : v # w => op'[v] = op[v]
           /\ op' = [v \in Workers |-> op'[v]]
           /\ Current(w)' = Current(w) /\ Path(w)' = Path(w) /\ To(w)' = To(w)
           /\ Opened(w)' = Opened(w)
           /\ \A v \in Workers : (Busy(v)' <=> Busy(v)) /\ Position(v)' = Position(v)
<1>1. /\ op' = [op EXCEPT ![w] = next] /\ tree' = t /\ UNCHANGED runtimeVars /\ names' = names
  BY DEF Continue
<1>2. /\ Current(w)' = Current(w)
      /\ \A v \in Workers : (Busy(v)' <=> Busy(v)) /\ Position(v)' = Position(v)
  BY <1>1 DEF runtimeVars, Current, Position, Busy
<1>3. QED
  BY <1>1, <1>2 DEF Path, To, Opened, FsInv, OpInv

LEMMA ContinueKeeps ==
    ASSUME FsInv, NEW w \in Workers, Busy(w), NEW next, NEW t, Continue(w, next, t),
           op[w] # Idle, next # Idle, TreeStep(w), Underway(w)'
    PROVE  FsInv'
<1>1. RuntimeInv' /\ UNCHANGED <<issued, taken, names>>
  BY RuntimeUnchanged DEF Continue, runtimeVars, FsInv
<1>2. \A v \in Workers : v # w => op'[v] = Idle /\ op[v] = Idle
  BY ContinueFacts, BusyFacts DEF FsInv, OpInv, Busy
<1>3. OpInv'
  BY <1>2, ContinueFacts DEF OpInv
<1>4. \A i \in DOMAIN names : Fresh(i)'
  BY <1>1, <1>2, ContinueFacts DEF FsInv, NamesInv, Fresh
<1>5. NamesInv'
  BY <1>1, <1>4 DEF FsInv, NamesInv
<1>6. QED
  BY <1>1, <1>3, <1>5 DEF FsInv, IssuedInv, TreeStep

(* The checks are passed. *)
LEMMA CheckKeeps ==
    ASSUME FsInv, NEW w \in Workers, Check(w)
    PROVE  /\ FsInv' /\ TreeStep(w) /\ Position(w) \notin DOMAIN names
           /\ DOMAIN names' = DOMAIN names \cup {Position(w)}
           /\ \A i \in DOMAIN names : names'[i] = names[i]
           /\ names'[Position(w)] = NamesOf(tree, Current(w))
           /\ op'[w] = Begun /\ \A v \in Workers : v # w => op'[v] = op[v]
<1> DEFINE c == Position(w)
<1>1. /\ Busy(w) /\ op[w] = Idle /\ EffectRefusal(tree, Current(w)) = "ok"
      /\ op' = [op EXCEPT ![w] = Begun] /\ UNCHANGED <<runtimeVars, tree>>
      /\ names' = [i \in DOMAIN names \cup {c} |->
                     IF i = c THEN NamesOf(tree, Current(w)) ELSE names[i]]
  BY DEF Check
<1>2. /\ UNCHANGED <<issued, taken, batch>> /\ RuntimeInv'
      /\ \A v \in Workers : (Busy(v)' <=> Busy(v)) /\ Position(v)' = Position(v)
      /\ Current(w)' = Current(w)
  BY <1>1, RuntimeUnchanged DEF runtimeVars, FsInv, Busy, Position, Current
<1>3. c \in 1 .. taken /\ c \in DOMAIN issued /\ \A v \in Workers : v # w => ~Busy(v)
  BY <1>1, BusyFacts DEF FsInv, Busy
<1>4. c \notin DOMAIN names
  BY <1>1 DEF FsInv, NamesInv, Fresh
<1>5. op'[w] = Begun /\ op' = [v \in Workers |-> op'[v]] /\ \A v \in Workers : v # w => op'[v] = op[v]
  BY <1>1 DEF FsInv, OpInv
<1>6. FoundOK(names'[c], issued[c])
  <2>1. PayloadOK(Current(w).payload)
    BY <1>3 DEF FsInv, IssuedInv, Current
  <2>2. FoundOK(NamesOf(tree, Current(w)), Current(w))
    BY <1>1, <2>1, RefusalFacts DEF FsInv
  <2>3. QED
    BY <1>1, <2>2 DEF Current
<1>7. \A i \in DOMAIN names' : Fresh(i)'
  BY <1>1, <1>2, <1>3, <1>5, StepsDiffer DEF FsInv, NamesInv, Fresh
<1>8. NamesInv'
  BY <1>1, <1>2, <1>3, <1>6, <1>7 DEF FsInv, NamesInv
<1>9. Underway(w)'
  <2>1. Path(w)' = names'[c].path /\ Opened(w)' = names'[c].file
    BY <1>2 DEF Path, Opened
  <2>2. names'[c] = NamesOf(tree, Current(w))
    BY <1>1
  <2>3. Path(w)' \in Paths
    BY <1>6, <2>1 DEF FoundOK
  <2>4. Current(w).protocol = Effect("write") /\ IsDir(tree, TmpOf[names'[c].path]) =>
          names'[c].file = TmpOf[names'[c].path]
    BY <2>1, <2>2, <2>3, TmpFacts DEF FsInv
  <2>5. tree' = tree
    BY <1>1
  <2>6. QED
    BY <1>1, <1>2, <1>5, <2>1, <2>4, <2>5 DEF Underway
<1>10. OpInv'
  BY <1>1, <1>2, <1>3, <1>5, <1>9 DEF FsInv, OpInv
<1>11. QED
  BY <1>1, <1>2, <1>4, <1>5, <1>8, <1>10, SameTree DEF FsInv, IssuedInv

LEMMA SetFacts ==
    ASSUME FsInv, NEW p \in Paths, NEW e, tree' = [tree EXCEPT ![p] = e]
    PROVE  /\ tree'[p] = e
           /\ \A q \in Paths : q # p => tree'[q] = tree[q]
  BY DEF FsInv, IsTree

LEMMA OpenWriteKeeps ==
    ASSUME FsInv, NEW w \in Workers, OpenWrite(w)
    PROVE  FsInv' /\ TreeStep(w)
<1> DEFINE file == Opened(w)
<1>1. Begins(w, "write")
  BY DEF OpenWrite
<1>2. /\ Busy(w) /\ Underway(w) /\ op[w] = Begun /\ Current(w).protocol = Effect("write")
      /\ Position(w) \in DOMAIN names /\ TmpOf[Path(w)] \in Paths
  BY <1>1, BeginsFacts, PathFacts
<1>3. CASE CanOpen(tree, file)
  <2>1. Continue(w, Op("fill", file, Content(w)), [tree EXCEPT ![file] = File(<<>>)])
    BY <1>3 DEF OpenWrite
  <2>2. file \in Paths /\ MayChange(Position(w), file)
    BY <1>2, <1>3, OpenedMayChange DEF CanOpen
  <2>3. TreeStep(w)
    BY <1>2, <1>3, <2>1, <2>2, OpensFile DEF Continue
  <2>4. tree'[file] = File(<<>>) /\ \A q \in Paths : q # file => tree'[q] = tree[q]
    BY <2>1, <2>2, SetFacts DEF Continue
  <2>5. /\ op'[w].step = "fill" /\ op'[w].file = file /\ op'[w] = Op("fill", file, Content(w))
        /\ Current(w)' = Current(w) /\ Path(w)' = Path(w) /\ Opened(w)' = Opened(w)
        /\ Position(w)' = Position(w) /\ names' = names
    BY <2>1, ContinueFacts, StepsDiffer
  <2>6. ~IsDir(tree, TmpOf[Path(w)])
    BY <1>2, <1>3, StepsDiffer DEF Underway, CanOpen, IsDir
  <2>7. IsFile(tree', file) /\ ~IsDir(tree', TmpOf[Path(w)])
    BY <1>2, <2>4, <2>6, KindsDiffer DEF IsFile, IsDir
  <2>8. Underway(w)'
    BY <1>2, <2>2, <2>5, <2>7 DEF Underway
  <2>9. QED
    BY <1>2, <2>1, <2>3, <2>5, <2>8, StepsDiffer, ContinueKeeps
<1>4. CASE ~CanOpen(tree, file)
  BY <1>2, <1>4, FailKeeps DEF OpenWrite, Fail
<1>5. QED
  BY <1>3, <1>4

(* Opening the file that an append or a copy fills. *)
LEMMA OpenOtherKeeps ==
    ASSUME FsInv, NEW w \in Workers, NEW o \in {"append", "copy"}, Begins(w, o),
           CanOpen(tree, Opened(w)), NEW left, NEW e,
           Continue(w, Op("fill", Opened(w), left), [tree EXCEPT ![Opened(w)] = e])
    PROVE  FsInv' /\ TreeStep(w)
<1>1. /\ Busy(w) /\ op[w] = Begun /\ Position(w) \in DOMAIN names
      /\ Current(w).protocol \in {Effect("append"), Effect("copy")}
  BY BeginsFacts
<1>2. Opened(w) \in Paths /\ MayChange(Position(w), Opened(w))
  BY <1>1, OpenedMayChange DEF CanOpen
<1>3. TreeStep(w)
  BY <1>1, <1>2, OpensFile DEF Continue
<1>4. /\ op'[w].step = "fill" /\ op'[w].file = Opened(w) /\ op'[w] = Op("fill", Opened(w), left)
      /\ Current(w)' = Current(w) /\ Opened(w)' = Opened(w)
      /\ Position(w)' = Position(w) /\ names' = names
  BY ContinueFacts, StepsDiffer
<1>5. Underway(w)'
  BY <1>1, <1>2, <1>4 DEF Underway
<1>6. QED
  BY <1>1, <1>3, <1>4, <1>5, StepsDiffer, ContinueKeeps

LEMMA OpenAppendKeeps ==
    ASSUME FsInv, NEW w \in Workers, OpenAppend(w)
    PROVE  FsInv' /\ TreeStep(w)
<1>1. Begins(w, "append") /\ Busy(w)
  BY DEF OpenAppend, Begins
<1>2. CASE CanOpen(tree, Opened(w))
  BY <1>1, <1>2, OpenOtherKeeps DEF OpenAppend
<1>3. CASE ~CanOpen(tree, Opened(w))
  BY <1>1, <1>3, FailKeeps DEF OpenAppend, Fail
<1>4. QED
  BY <1>2, <1>3

LEMMA OpenCopyKeeps ==
    ASSUME FsInv, NEW w \in Workers, OpenCopy(w)
    PROVE  FsInv' /\ TreeStep(w)
<1>1. Begins(w, "copy") /\ Busy(w)
  BY DEF OpenCopy, Begins
<1>2. CASE IsFile(tree, Path(w)) /\ CanOpen(tree, Opened(w))
  BY <1>1, <1>2, OpenOtherKeeps DEF OpenCopy
<1>3. CASE ~(IsFile(tree, Path(w)) /\ CanOpen(tree, Opened(w)))
  BY <1>1, <1>3, FailKeeps DEF OpenCopy, Fail
<1>4. QED
  BY <1>2, <1>3

(* The file an operation fills may be changed by it. *)
LEMMA FillTarget ==
    ASSUME FsInv, NEW w \in Workers, At(w, "fill")
    PROVE  /\ op[w].file \in Paths /\ op[w].file = Opened(w) /\ MayChange(Position(w), op[w].file)
           /\ Current(w).protocol \in {Effect("write"), Effect("append"), Effect("copy")}
<1>1. Underway(w) /\ op[w].step = "fill" /\ Position(w) \in DOMAIN names
  BY AtFacts
<1>2. /\ op[w].file \in Paths /\ op[w].file = Opened(w)
      /\ Current(w).protocol \in {Effect("write"), Effect("append"), Effect("copy")}
  BY <1>1, StepsDiffer DEF Underway
<1>3. QED
  BY <1>1, <1>2, OpenedMayChange

LEMMA FillKeeps ==
    ASSUME FsInv, NEW w \in Workers, Fill(w)
    PROVE  FsInv' /\ TreeStep(w)
<1> DEFINE file == op[w].file
           left == Tail(op[w].left)
<1>1. At(w, "fill")
  BY DEF Fill
<1>2. file \in Paths /\ MayChange(Position(w), file)
  BY <1>1, FillTarget
<1>3. /\ Busy(w) /\ Underway(w) /\ op[w].step = "fill" /\ op[w] # Idle
      /\ Position(w) \in DOMAIN names /\ TmpOf[Path(w)] \in Paths
  BY <1>1, AtFacts, PathFacts
<1>4. PICK t : Continue(w, Op("fill", file, left), t)
  BY DEF Fill
<1>5. /\ TreeStep(w) /\ (IsFile(tree, file) => IsFile(tree', file))
      /\ \A q \in Paths : ~IsDir(tree, q) => ~IsDir(tree', q)
  <2>1. CASE IsFile(tree, file)
    <3>1. PICK bytes : tree' = [tree EXCEPT ![file] = File(bytes)]
      BY <2>1 DEF Fill, Continue
    <3>2. tree[file] # Absent /\ ~IsDir(tree, file)
      BY <2>1, KindsDiffer DEF IsFile, IsDir
    <3>3. IsTree(tree')
      BY <1>2, <3>1, <3>2, TreeSet DEF FsInv
    <3>4. tree'[file] = File(bytes) /\ \A q \in Paths : q # file => tree'[q] = tree[q]
      BY <1>2, <3>1, SetFacts
    <3>5. IsFile(tree', file) /\ \A q \in Paths : ~IsDir(tree, q) => ~IsDir(tree', q)
      BY <3>4, KindsDiffer DEF IsFile, IsDir
    <3>6. QED
      BY <1>2, <1>3, <3>1, <3>3, <3>5, SetOne
  <2>2. CASE ~IsFile(tree, file)
    BY <2>2, SameTree DEF Fill, Continue
  <2>3. QED
    BY <2>1, <2>2
<1>6. /\ op'[w].step = "fill" /\ op'[w].file = file /\ op'[w] = Op("fill", file, left)
      /\ Current(w)' = Current(w) /\ Path(w)' = Path(w) /\ Opened(w)' = Opened(w)
      /\ Position(w)' = Position(w) /\ names' = names
  BY <1>4, ContinueFacts, StepsDiffer
<1>7. Underway(w)'
  BY <1>3, <1>5, <1>6, StepsDiffer DEF Underway
<1>8. QED
  BY <1>3, <1>4, <1>5, <1>6, <1>7, StepsDiffer, ContinueKeeps

LEMMA FillEndsKeeps ==
    ASSUME FsInv, NEW w \in Workers, FillEnds(w)
    PROVE  FsInv' /\ TreeStep(w)
<1>1. At(w, "fill")
  BY DEF FillEnds
<1>2. Busy(w) /\ Underway(w) /\ op[w].step = "fill" /\ op[w] # Idle
  BY <1>1, AtFacts
<1>3. CASE Current(w).protocol = Effect("write")
  <2>1. Continue(w, Op("rename", op[w].file, <<>>), tree)
    BY <1>3 DEF FillEnds
  <2>2. TreeStep(w)
    BY <2>1, SameTree DEF Continue
  <2>3. /\ op'[w].step = "rename" /\ op'[w].file = op[w].file /\ tree' = tree
        /\ op'[w] = Op("rename", op[w].file, <<>>)
        /\ Current(w)' = Current(w) /\ Path(w)' = Path(w) /\ Opened(w)' = Opened(w)
        /\ Position(w)' = Position(w) /\ names' = names
    BY <2>1, ContinueFacts, StepsDiffer
  <2>4. /\ Position(w) \in DOMAIN names
        /\ op[w].file \in Paths /\ op[w].file = Opened(w)
        /\ IsFile(tree, op[w].file) /\ ~IsDir(tree, TmpOf[Path(w)])
    BY <1>2, <1>3, OpsDiffer, StepsDiffer DEF Underway
  <2>5. Underway(w)'
    BY <1>3, <2>3, <2>4 DEF Underway
  <2>6. QED
    BY <1>2, <2>1, <2>2, <2>3, <2>5, StepsDiffer, ContinueKeeps
<1>4. CASE Current(w).protocol # Effect("write")
  BY <1>2, <1>4, FailKeeps DEF FillEnds
<1>5. QED
  BY <1>3, <1>4

-----------------------------------------------------------------------------
(* Renaming, removing, creating directories. *)

(* What a rename changes is below its target or below its source. *)
LEMMA RenameChanges ==
    ASSUME FsInv, NEW from \in Paths, NEW to \in Paths, tree' = Renamed(tree, from, to),
           NEW p \in Paths, tree'[p] # tree[p]
    PROVE  IsPrefix(to, p) \/ (IsPrefix(from, p) /\ tree[p] # Absent)
  BY DEF Renamed, FsInv, IsTree

LEMMA RenameWrittenKeeps ==
    ASSUME FsInv, NEW w \in Workers, RenameWritten(w)
    PROVE  FsInv' /\ TreeStep(w)
<1> DEFINE tmp == TmpOf[Path(w)]
<1>1. At(w, "rename")
  BY DEF RenameWritten
<1>2. /\ Busy(w) /\ Underway(w) /\ op[w].step = "rename" /\ Position(w) \in DOMAIN names
      /\ Path(w) \in Paths /\ Within(names[Position(w)].roots, Path(w)) /\ tmp \in Paths
  BY <1>1, AtFacts, PathFacts
<1>3. Current(w).protocol = Effect("write") /\ ~IsDir(tree, tmp)
  BY <1>2, StepsDiffer DEF Underway
<1>4. CASE CanRename(tree, tmp, Path(w))
  <2>1. Finish(w, Success({}), Renamed(tree, tmp, Path(w)))
    BY <1>4 DEF RenameWritten
  <2>2. tree' = Renamed(tree, tmp, Path(w))
    BY <2>1 DEF Finish
  <2>3. IsTree(tree')
    BY <1>2, <1>4, <2>2, TreeRename DEF FsInv
  <2>4. ASSUME NEW p \in Paths, tree'[p] # tree[p] PROVE MayChange(Position(w), p)
    <3>1. CASE IsPrefix(Path(w), p)
      BY <1>2, <3>1, CoveredBelow
    <3>2. CASE IsPrefix(tmp, p) /\ tree[p] # Absent
      <4>1. p = tmp
        BY <1>2, <1>3, <3>2 DEF FsInv, IsTree
      <4>2. QED
        BY <1>2, <1>3, <4>1 DEF MayChange, IsOp, PathOf, Path, Current
    <3>3. QED
      BY <1>2, <2>2, <2>4, <3>1, <3>2, RenameChanges
  <2>5. TreeStep(w)
    BY <1>2, <2>3, <2>4 DEF TreeStep
  <2>6. QED
    BY <1>2, <2>1, <2>5, FinishKeeps
<1>5. CASE ~CanRename(tree, tmp, Path(w))
  BY <1>2, <1>5, FailKeeps DEF RenameWritten, Fail
<1>6. QED
  BY <1>4, <1>5

LEMMA MoveKeeps ==
    ASSUME FsInv, NEW w \in Workers, Move(w)
    PROVE  FsInv' /\ TreeStep(w)
<1>1. Begins(w, "move")
  BY DEF Move
<1>2. /\ Busy(w) /\ Position(w) \in DOMAIN names
      /\ Path(w) \in Paths /\ Within(names[Position(w)].roots, Path(w))
      /\ To(w) \in Paths /\ Within(names[Position(w)].roots, To(w))
  BY <1>1, BeginsFacts, CurrentFacts
<1>3. CASE CanRename(tree, Path(w), To(w))
  <2>1. Finish(w, Success({}), Renamed(tree, Path(w), To(w)))
    BY <1>3 DEF Move
  <2>2. tree' = Renamed(tree, Path(w), To(w))
    BY <2>1 DEF Finish
  <2>3. IsTree(tree')
    BY <1>2, <1>3, <2>2, TreeRename DEF FsInv
  <2>4. ASSUME NEW p \in Paths, tree'[p] # tree[p] PROVE MayChange(Position(w), p)
    BY <1>2, <2>2, <2>4, RenameChanges, CoveredBelow
  <2>5. TreeStep(w)
    BY <1>2, <2>3, <2>4 DEF TreeStep
  <2>6. QED
    BY <1>2, <2>1, <2>5, FinishKeeps
<1>4. CASE ~CanRename(tree, Path(w), To(w))
  BY <1>2, <1>4, FailKeeps DEF Move, Fail
<1>5. QED
  BY <1>3, <1>4

(* One leaf of the tree goes. *)
LEMMA RemovesLeaf ==
    ASSUME FsInv, NEW w \in Workers, NEW p \in Paths, Children(tree, p) = {},
           tree' = [tree EXCEPT ![p] = Absent],
           Position(w) \in DOMAIN names, MayChange(Position(w), p)
    PROVE  TreeStep(w)
<1>1. IsTree(tree')
  BY TreeRemove DEF FsInv
<1>2. QED
  BY <1>1, SetOne

LEMMA RemoveFileKeeps ==
    ASSUME FsInv, NEW w \in Workers, RemoveFile(w)
    PROVE  FsInv' /\ TreeStep(w)
<1>1. Begins(w, "remove") /\ ~IsDir(tree, Path(w))
  BY DEF RemoveFile
<1>2. /\ Busy(w) /\ Path(w) \in Paths /\ Position(w) \in DOMAIN names
      /\ MayChange(Position(w), Path(w))
  BY <1>1, BeginsFacts
<1>3. CASE tree[Path(w)] # Absent
  <2>1. Finish(w, Success({}), [tree EXCEPT ![Path(w)] = Absent])
    BY <1>3 DEF RemoveFile
  <2>2. Children(tree, Path(w)) = {}
    BY <1>1, <1>2, ChildlessUnlessDir DEF FsInv
  <2>3. TreeStep(w)
    BY <1>2, <2>1, <2>2, RemovesLeaf DEF Finish
  <2>4. QED
    BY <1>2, <2>1, <2>3, FinishKeeps
<1>4. CASE tree[Path(w)] = Absent
  BY <1>2, <1>4, FailKeeps DEF RemoveFile, Fail
<1>5. QED
  BY <1>3, <1>4

LEMMA RemoveDirKeeps ==
    ASSUME FsInv, NEW w \in Workers, RemoveDir(w)
    PROVE  FsInv' /\ TreeStep(w)
<1>1. /\ Busy(w) /\ op[w] # Idle /\ Current(w).protocol = Effect("remove")
      /\ Position(w) \in DOMAIN names /\ Path(w) \in Paths
      /\ Within(names[Position(w)].roots, Path(w)) /\ MayChange(Position(w), Path(w))
  <2>1. CASE Begins(w, "remove")
    BY <2>1, BeginsFacts, StepsDiffer
  <2>2. CASE At(w, "remove")
    BY <2>2, AtFacts, StepsDiffer DEF Underway
  <2>3. QED
    BY <2>1, <2>2 DEF RemoveDir
<1>2. CASE Children(tree, Path(w)) = {}
  <2>1. Finish(w, Success({}), [tree EXCEPT ![Path(w)] = Absent])
    BY <1>2 DEF RemoveDir
  <2>2. TreeStep(w)
    BY <1>1, <1>2, <2>1, RemovesLeaf DEF Finish
  <2>3. QED
    BY <1>1, <2>1, <2>2, FinishKeeps
<1>3. CASE Children(tree, Path(w)) # {}
  <2>1. PICK q \in Children(tree, Path(w)) :
          /\ Children(tree, q) = {}
          /\ Continue(w, Op("remove", <<>>, <<>>), [tree EXCEPT ![q] = Absent])
    BY <1>3 DEF RemoveDir
  <2>2. q \in Paths /\ IsPrefix(Path(w), q)
    BY DEF Children
  <2>3. MayChange(Position(w), q)
    BY <1>1, <2>2, CoveredBelow
  <2>4. TreeStep(w)
    BY <1>1, <2>1, <2>2, <2>3, RemovesLeaf DEF Continue
  <2>5. /\ op'[w].step = "remove" /\ Current(w)' = Current(w)
        /\ Position(w)' = Position(w) /\ names' = names
    BY <2>1, ContinueFacts, StepsDiffer
  <2>6. Underway(w)'
    BY <1>1, <2>5 DEF Underway
  <2>7. QED
    BY <1>1, <2>1, <2>4, <2>6, StepsDiffer, ContinueKeeps
<1>4. QED
  BY <1>2, <1>3

LEMMA MakeDirKeeps ==
    ASSUME FsInv, NEW w \in Workers, MakeDir(w)
    PROVE  FsInv' /\ TreeStep(w)
<1> DEFINE missing == {q \in Paths : IsPrefix(q, Path(w)) /\ tree[q] = Absent}
           blocked == \E q \in Paths : IsPrefix(q, Path(w)) /\ Blocks(tree, q)
<1>1. /\ Busy(w) /\ op[w] # Idle /\ Position(w) \in DOMAIN names
      /\ Current(w).protocol = Effect("mkdir")
  <2>1. CASE Begins(w, "mkdir")
    BY <2>1, BeginsFacts, StepsDiffer
  <2>2. CASE At(w, "mkdir")
    BY <2>2, AtFacts, StepsDiffer DEF Underway
  <2>3. QED
    BY <2>1, <2>2 DEF MakeDir
<1>2. CASE blocked \/ missing = {}
  <2>1. PICK result : Finish(w, result, tree)
    BY <1>2 DEF MakeDir, Fail
  <2>2. QED
    BY <1>1, <2>1, FailKeeps
<1>3. CASE ~blocked /\ missing # {}
  <2>1. PICK q \in missing :
          /\ ParentIsDir(tree, q)
          /\ Continue(w, Op("mkdir", <<>>, <<>>), [tree EXCEPT ![q] = Dir])
    BY <1>3 DEF MakeDir
  <2>2. q \in Paths /\ IsPrefix(q, Path(w)) /\ tree[q] = Absent
    BY <2>1
  <2>3. MayChange(Position(w), q)
    BY <1>1, <2>2 DEF MayChange, IsOp, PathOf, Path, Current
  <2>4. CanOpen(tree, q)
    BY <2>1, <2>2, KindsDiffer DEF CanOpen
  <2>5. TreeStep(w)
    BY <1>1, <2>1, <2>2, <2>3, <2>4, OpensFile DEF Continue
  <2>6. /\ op'[w].step = "mkdir" /\ Current(w)' = Current(w)
        /\ Position(w)' = Position(w) /\ names' = names
    BY <2>1, ContinueFacts, StepsDiffer
  <2>7. Underway(w)'
    BY <1>1, <2>6 DEF Underway
  <2>8. QED
    BY <1>1, <2>1, <2>5, <2>7, StepsDiffer, ContinueKeeps
<1>4. QED
  BY <1>2, <1>3

(* Refusals, the operations that only look, and the host's own failures. *)
LEMMA LooksKeep ==
    ASSUME FsInv, NEW w \in Workers,
           Refuse(w) \/ Read(w) \/ List(w) \/ Stat(w) \/ Exists(w) \/ HostFails(w)
    PROVE  FsInv' /\ TreeStep(w)
<1>1. Busy(w) /\ \E result : Finish(w, result, tree)
  BY DEF Refuse, Read, List, Stat, Exists, HostFails, Begins, Fail
<1>2. QED
  BY <1>1, FailKeeps

LEMMA EffectStepKeeps ==
    ASSUME FsInv, NEW w \in Workers, EffectStep(w) \/ HostFails(w)
    PROVE  FsInv' /\ TreeStep(w) /\ Busy(w)
<1>1. Busy(w)
  BY DEF EffectStep, Refuse, Check, Read, List, Stat, Exists, OpenWrite, OpenAppend, OpenCopy, Fill,
     FillEnds, RenameWritten, Move, RemoveFile, RemoveDir, MakeDir, HostFails, Begins, At
<1>2. QED
  BY <1>1, LooksKeep, CheckKeeps, OpenWriteKeeps, OpenAppendKeeps, OpenCopyKeeps, FillKeeps, FillEndsKeeps,
     RenameWrittenKeeps, MoveKeeps, RemoveFileKeeps, RemoveDirKeeps, MakeDirKeeps DEF EffectStep

-----------------------------------------------------------------------------
(* The steps of the runtime. *)

LEMMA SubmittedPayload ==
    ASSUME NEW r \in Requests, NEW protocol
    PROVE  PayloadOK(NextTask(protocol, r.payload).payload)
  BY RequestsNamePaths DEF PayloadOK, NextTask, Task, Words

(* A task queued carries the payload that was submitted. *)
LEMMA EnqueuedPayloads ==
    ASSUME FsInv, NEW tasks, IsSeq(tasks), Enqueue(tasks),
           \A k \in DOMAIN tasks : PayloadOK(tasks[k].payload)
    PROVE  IssuedInv'
<1>1. PICK n \in Nat, m \in Nat : n = Len(issued) /\ m = Len(tasks)
  BY IsSeqFacts DEF FsInv, RuntimeInv, QueueInv
<1>2. IsSeq(issued) /\ DOMAIN issued = 1 .. n /\ DOMAIN tasks = 1 .. m
  BY <1>1, IsSeqFacts DEF FsInv, RuntimeInv, QueueInv
<1>3. /\ DOMAIN issued' = 1 .. n + m
      /\ \A i \in 1 .. n : issued'[i] = issued[i]
      /\ \A i \in 1 .. m : issued'[n + i] = tasks[i]
  BY <1>1, <1>2, IsSeqConcat DEF Enqueue
<1>4. ASSUME NEW i \in 1 .. n + m PROVE PayloadOK(issued'[i].payload)
  <2>1. CASE i \in 1 .. n
    BY <1>2, <1>3, <2>1 DEF FsInv, IssuedInv
  <2>2. CASE i \notin 1 .. n
    <3>1. PICK k \in 1 .. m : i = n + k
      <4>1. i - n \in 1 .. m /\ i = n + (i - n)
        BY <1>1, <2>2
      <4>2. QED
        BY <4>1
    <3>2. QED
      BY <1>2, <1>3, <3>1
  <2>3. QED
    BY <2>1, <2>2
<1>5. QED
  BY <1>3, <1>4 DEF IssuedInv, PayloadOK

LEMMA QueuedKeeps ==
    ASSUME FsInv, RuntimeInv', IssuedInv', UNCHANGED <<batch, taken, tree, op, names>>,
           \A i \in DOMAIN issued : i \in DOMAIN issued' /\ issued'[i] = issued[i]
    PROVE  FsInv'
<1>1. \A w \in Workers : (Busy(w)' <=> Busy(w)) /\ Position(w)' = Position(w)
  BY DEF Busy, Position
<1>2. ASSUME NEW w \in Workers, op[w] # Idle PROVE Busy(w)' /\ Underway(w)'
  <2>1. Busy(w) /\ Underway(w)
    BY <1>2 DEF FsInv, OpInv
  <2>2. Current(w)' = Current(w)
    BY <1>1, <2>1, BusyFacts DEF FsInv, Current
  <2>3. Path(w)' = Path(w) /\ Opened(w)' = Opened(w)
    BY <1>1 DEF Path, Opened
  <2>4. Underway(w)'
    BY <1>1, <2>1, <2>2, <2>3 DEF Underway
  <2>5. QED
    BY <1>1, <2>1, <2>4
<1>3. OpInv'
  BY <1>2 DEF FsInv, OpInv
<1>4. \A i \in DOMAIN names : Fresh(i)'
  BY <1>1 DEF FsInv, NamesInv, Fresh
<1>5. NamesInv'
  BY <1>4 DEF FsInv, NamesInv
<1>6. QED
  BY <1>3, <1>5 DEF FsInv

LEMMA SubmitKeeps ==
    ASSUME FsInv, Submit, UNCHANGED <<tree, op, names>>
    PROVE  FsInv'
<1>1. PICK r \in Requests :
        \/ LET source == NextTask(Public(r.op), r.payload)
           IN  RunFacade(source, FacadeRefuses(tree, source), ProtocolPairs)
        \/ SubmitEffect(NextTask(Effect(r.op), r.payload))
  BY DEF Submit
<1>2. ASSUME NEW task, PayloadOK(task.payload), SubmitEffect(task) PROVE FsInv'
  <2>1. /\ RuntimeInv' /\ UNCHANGED <<batch, taken>>
        /\ \A i \in DOMAIN issued : i \in DOMAIN issued' /\ issued'[i] = issued[i]
    BY <1>2, SubmitEffectInv DEF FsInv
  <2>2. IsSeq(<<task>>) /\ \A k \in DOMAIN <<task>> : PayloadOK(<<task>>[k].payload)
    BY <1>2, IsSeqShort
  <2>3. Enqueue(<<task>>)
    BY <1>2 DEF SubmitEffect
  <2>4. IssuedInv'
    BY <2>2, <2>3, EnqueuedPayloads
  <2>5. QED
    BY <2>1, <2>4, QueuedKeeps
<1>3. ASSUME NEW source, PayloadOK(source.payload), NEW refused,
             RunFacade(source, refused, ProtocolPairs)
      PROVE  FsInv'
  <2>1. /\ RuntimeInv' /\ UNCHANGED <<batch, taken>>
        /\ \A i \in DOMAIN issued : i \in DOMAIN issued' /\ issued'[i] = issued[i]
    BY <1>3, RunFacadeInv DEF FsInv
  <2>2. PICK tasks : /\ Enqueue(tasks)
                     /\ tasks = IF refused THEN <<>> ELSE DeriveEffectFromPair(source, ProtocolPairs)
    BY <1>3 DEF RunFacade
  <2>3. tasks = <<>> \/ \E effect : tasks = <<DeriveEffectTask(source, effect)>>
    BY <2>2 DEF DeriveEffectFromPair
  <2>4. ASSUME NEW effect PROVE PayloadOK(DeriveEffectTask(source, effect).payload)
    BY <1>3 DEF DeriveEffectTask, Task
  <2>5. IsSeq(tasks) /\ \A k \in DOMAIN tasks : PayloadOK(tasks[k].payload)
    <3>1. CASE tasks = <<>>
      BY <3>1, IsSeqShort, IsSeqFacts
    <3>2. ASSUME NEW task, PayloadOK(task.payload), tasks = <<task>>
          PROVE  IsSeq(tasks) /\ \A k \in DOMAIN tasks : PayloadOK(tasks[k].payload)
      BY <3>2, IsSeqShort
    <3>3. QED
      BY <2>3, <2>4, <3>1, <3>2
  <2>6. IssuedInv'
    BY <2>2, <2>5, EnqueuedPayloads
  <2>7. QED
    BY <2>1, <2>6, QueuedKeeps
<1>4. QED
  BY <1>1, <1>2, <1>3, SubmittedPayload

(* No operation is half done before, and none after. *)
LEMMA AllIdleKeeps ==
    ASSUME FsInv, RuntimeInv', UNCHANGED <<issued, tree, names>>, op' = [w \in Workers |-> Idle],
           taken' \in Nat, taken =< taken',
           \A w \in Workers : Busy(w)' => Position(w)' \in Nat /\ taken < Position(w)'
    PROVE  FsInv'
<1>1. OpInv'
  BY DEF OpInv
<1>2. ASSUME NEW i \in DOMAIN names PROVE Fresh(i)'
  <2>1. i \in 1 .. taken /\ taken \in Nat
    BY DEF FsInv, NamesInv, Fresh, RuntimeInv, CountersInv
  <2>2. QED
    BY <2>1 DEF Fresh
<1>3. NamesInv'
  BY <1>2 DEF FsInv, NamesInv
<1>4. QED
  BY <1>1, <1>3 DEF FsInv, IssuedInv

LEMMA DispatchKeeps ==
    ASSUME FsInv, NEW w \in Workers, NEW n, Dispatch(w, n, MaxInflightBatches),
           UNCHANGED <<tree, op, names>>
    PROVE  FsInv'
<1>1. /\ RuntimeInv' /\ issued' = issued /\ \A v \in Workers : batch[v] = NoBatch
      /\ \A v \in Workers : batch'[v] # NoBatch => v = w
      /\ batch'[w] = Batch(taken + 1, taken + n, <<>>) /\ taken' = taken + n /\ n \in Nat
  BY DispatchInv DEF FsInv, MaxInflightBatches, Dispatch
<1>2. op = [v \in Workers |-> Idle]
  BY <1>1 DEF FsInv, OpInv, Busy
<1>3. taken \in Nat
  BY DEF FsInv, RuntimeInv, CountersInv
<1>4. \A v \in Workers : Busy(v)' => Position(v)' = taken + 1
  <2>1. batch'[w].first = taken + 1 /\ Len(batch'[w].results) = 0
    BY <1>1 DEF Batch
  <2>2. \A v \in Workers : Busy(v)' => v = w
    BY <1>1 DEF Busy
  <2>3. Position(w)' = taken + 1
    BY <1>3, <2>1 DEF Position
  <2>4. QED
    BY <2>2, <2>3
<1>5. QED
  BY <1>1, <1>2, <1>3, <1>4, AllIdleKeeps

LEMMA AnswerKeeps ==
    ASSUME FsInv, NEW w \in Workers, Answer(w), UNCHANGED <<tree, op, names>>
    PROVE  FsInv'
<1>1. /\ RuntimeInv' /\ UNCHANGED <<issued, taken>> /\ \A v \in Workers : batch'[v] = NoBatch
      /\ taken \in Nat
  BY AnswerInv DEF FsInv, RuntimeInv, CountersInv
<1>2. ~Busy(w) /\ batch[w] # NoBatch
  BY DEF Answer
<1>3. \A v \in Workers : ~Busy(v)
  BY <1>2, BusyFacts DEF FsInv
<1>4. op = [v \in Workers |-> Idle]
  BY <1>3 DEF FsInv, OpInv
<1>5. QED
  BY <1>1, <1>4, AllIdleKeeps DEF Busy

LEMMA CrashKeeps ==
    ASSUME FsInv, Crash, op' = [w \in Workers |-> Idle], UNCHANGED <<tree, names>>
    PROVE  FsInv'
<1>1. RuntimeInv' /\ issued' = issued /\ \A v \in Workers : batch'[v] = NoBatch
  BY CrashInv DEF FsInv
<1>2. taken' \in Nat /\ taken =< taken'
  <2>1. taken \in Nat /\ taken =< Len(issued) /\ taken' = Len(issued) /\ Len(issued) \in Nat
    BY IsSeqFacts DEF FsInv, RuntimeInv, CountersInv, QueueInv, Crash
  <2>2. QED
    BY <2>1
<1>3. QED
  BY <1>1, <1>2, AllIdleKeeps DEF Busy

LEMMA FsInvNext ==
    ASSUME FsInv, [Next]_vars
    PROVE  FsInv' /\ OnlyAllowedChanges
<1>1. CASE Submit /\ UNCHANGED <<tree, op, names>>
  BY <1>1, SubmitKeeps DEF OnlyAllowedChanges
<1>2. CASE \E w \in Workers, n \in 1 .. MaxBatch :
             Dispatch(w, n, MaxInflightBatches) /\ UNCHANGED <<tree, op, names>>
  BY <1>2, DispatchKeeps DEF OnlyAllowedChanges
<1>3. ASSUME NEW w \in Workers, EffectStep(w) \/ HostFails(w) PROVE FsInv' /\ OnlyAllowedChanges
  <2>1. FsInv' /\ TreeStep(w) /\ Busy(w)
    BY <1>3, EffectStepKeeps
  <2>2. QED
    BY <2>1 DEF TreeStep, OnlyAllowedChanges
<1>4. CASE \E w \in Workers : Answer(w) /\ UNCHANGED <<tree, op, names>>
  BY <1>4, AnswerKeeps DEF OnlyAllowedChanges
<1>5. CASE Crash /\ op' = [w \in Workers |-> Idle] /\ UNCHANGED <<tree, names>>
  BY <1>5, CrashKeeps DEF OnlyAllowedChanges
<1>6. CASE UNCHANGED vars
  <2>1. UNCHANGED <<runtimeVars, tree, op, names, issued, taken, batch>>
    BY <1>6 DEF vars, runtimeVars
  <2>2. RuntimeInv' /\ IssuedInv'
    BY <2>1, RuntimeUnchanged DEF FsInv, IssuedInv
  <2>3. FsInv'
    BY <2>1, <2>2, QueuedKeeps
  <2>4. QED
    BY <2>1, <2>3 DEF OnlyAllowedChanges
<1>7. QED
  BY <1>1, <1>2, <1>3, <1>4, <1>5, <1>6 DEF Next

LEMMA FsInvHolds == Spec => []FsInv
<1>1. FsInv /\ [Next]_vars => FsInv'
  BY FsInvNext
<1>2. QED
  BY <1>1, FsInvInit, PTL DEF Spec

-----------------------------------------------------------------------------
(* What is at a path is nothing, a directory, or a file with chunks. *)

NodesInv == tree \in [Paths -> Nodes] /\ \A w \in Workers : op[w].left \in Seq(Chunks)

LEMMA ChunkFacts ==
    ASSUME NEW bytes \in Seq(Chunks), NEW left \in Seq(Chunks)
    PROVE  /\ bytes \o <<>> = bytes
           /\ <<>> \o left = left
           /\ left # <<>> => /\ Append(bytes, Head(left)) \in Seq(Chunks)
                            /\ Tail(left) \in Seq(Chunks)
                            /\ Append(bytes, Head(left)) \o Tail(left) = bytes \o left
<1>1. bytes \o <<>> = bytes /\ <<>> \o left = left
  BY ConcatEmptySeq
<1>2. ASSUME left # <<>>
      PROVE  /\ Append(bytes, Head(left)) \in Seq(Chunks)
             /\ Tail(left) \in Seq(Chunks)
             /\ Append(bytes, Head(left)) \o Tail(left) = bytes \o left
  <2>1. Head(left) \in Chunks /\ Tail(left) \in Seq(Chunks)
    BY <1>2, HeadTailProperties
  <2>2. <<Head(left)>> \in Seq(Chunks) /\ <<Head(left)>> \o Tail(left) = left
    BY <1>2, <2>1, ConcatSimplifications
  <2>3. Append(bytes, Head(left)) \in Seq(Chunks) /\ Append(bytes, Head(left)) = bytes \o <<Head(left)>>
    BY <2>1, AppendProperties, AppendIsConcat
  <2>4. (bytes \o <<Head(left)>>) \o Tail(left) = bytes \o (<<Head(left)>> \o Tail(left))
    BY <2>1, <2>2, ConcatAssociative
  <2>5. QED
    BY <2>1, <2>2, <2>3, <2>4
<1>3. QED
  BY <1>1, <1>2

LEMMA ContentFacts ==
    ASSUME FsInv, NEW w \in Workers, Position(w) \in DOMAIN names,
           Current(w).protocol \in {Effect("write"), Effect("append")}
    PROVE  Content(w) \in Seq(Chunks)
  BY CurrentFacts DEF FoundOK, Content

LEMMA NodeFacts ==
    /\ Absent \in Nodes /\ Dir \in Nodes /\ <<>> \in Seq(Chunks) /\ File(<<>>) \in Nodes
    /\ \A bytes \in Seq(Chunks) : File(bytes) \in Nodes /\ File(bytes).bytes = bytes
    /\ \A n \in Nodes : /\ n.bytes \in Seq(Chunks)
                        /\ n.kind = "file" => n = File(n.bytes)
                        /\ n.kind = "dir" => n = Dir
                        /\ n.kind = "absent" => n = Absent
<1>1. <<>> \in Seq(Chunks) /\ <<>> \in Seq(STRING)
  OBVIOUS
<1>2. \A n \in Nodes : n = [kind |-> n.kind, bytes |-> n.bytes, target |-> n.target]
  BY DEF Nodes
<1>3. \A n \in Nodes : n = Node(n.kind, n.bytes, n.target)
  BY <1>2 DEF Node
<1>4. QED
  BY <1>1, <1>3 DEF Nodes, Absent, Dir, File, Node

LEMMA RenamedNodes ==
    ASSUME NEW t \in [Paths -> Nodes], NEW from \in Paths, NEW to \in Paths
    PROVE  Renamed(t, from, to) \in [Paths -> Nodes]
  BY NodeFacts DEF Renamed

LEMMA FinishNodes ==
    ASSUME FsInv, NodesInv, NEW w \in Workers, NEW result, NEW t \in [Paths -> Nodes],
           Finish(w, result, t)
    PROVE  NodesInv'
<1>1. op' = [op EXCEPT ![w] = Idle] /\ tree' = t
  BY DEF Finish
<1>2. Idle.left \in Seq(Chunks)
  BY DEF Idle, Op
<1>3. \A v \in Workers : op'[v] = Idle \/ op'[v] = op[v]
  BY <1>1 DEF FsInv, OpInv
<1>4. QED
  BY <1>1, <1>2, <1>3 DEF NodesInv

LEMMA ContinueNodes ==
    ASSUME FsInv, NodesInv, NEW w \in Workers, NEW s, NEW f, NEW left \in Seq(Chunks),
           NEW t \in [Paths -> Nodes], Continue(w, Op(s, f, left), t)
    PROVE  NodesInv'
<1>1. /\ tree' = t /\ op'[w] = Op(s, f, left)
      /\ \A v \in Workers : v # w => op'[v] = op[v]
  BY ContinueFacts
<1>2. op'[w].left = left
  BY <1>1, StepsDiffer
<1>3. QED
  BY <1>1, <1>2 DEF NodesInv

LEMMA SetNodes ==
    ASSUME NodesInv, NEW p \in Paths, NEW n \in Nodes
    PROVE  [tree EXCEPT ![p] = n] \in [Paths -> Nodes]
  BY DEF NodesInv

LEMMA OpenNodes ==
    ASSUME FsInv, NodesInv, NEW w \in Workers, OpenWrite(w) \/ OpenAppend(w) \/ OpenCopy(w)
    PROVE  NodesInv'
<1>1. CASE Fail(w)
  BY <1>1, FinishNodes DEF Fail, NodesInv
<1>2. <<>> \in Seq(Chunks) /\ File(<<>>) \in Nodes
  BY NodeFacts
<1>3. Position(w) \in DOMAIN names /\ Path(w) \in Paths
  BY BeginsFacts DEF OpenWrite, OpenAppend, OpenCopy
<1>4. CASE OpenWrite(w) /\ ~Fail(w)
  <2>1. CanOpen(tree, Opened(w)) /\ Begins(w, "write")
    BY <1>4 DEF OpenWrite
  <2>2. Opened(w) \in Paths
    BY <2>1 DEF CanOpen
  <2>3. PICK left \in Seq(Chunks) : left = Content(w)
    BY <1>3, <2>1, ContentFacts DEF Begins
  <2>4. Continue(w, Op("fill", Opened(w), left), [tree EXCEPT ![Opened(w)] = File(<<>>)])
    BY <1>4, <2>1, <2>3 DEF OpenWrite
  <2>5. QED
    BY <1>2, <2>2, <2>4, SetNodes, ContinueNodes
<1>5. CASE OpenAppend(w) /\ ~Fail(w)
  <2>1. CanOpen(tree, Opened(w)) /\ Begins(w, "append")
    BY <1>5 DEF OpenAppend
  <2>2. Opened(w) \in Paths
    BY <2>1 DEF CanOpen
  <2>3. PICK left \in Seq(Chunks) : left = Content(w)
    BY <1>3, <2>1, ContentFacts DEF Begins
  <2>4. Continue(w, Op("fill", Opened(w), left), [tree EXCEPT ![Opened(w)] = File(tree[Opened(w)].bytes)])
    BY <1>5, <2>1, <2>3 DEF OpenAppend
  <2>5. File(tree[Opened(w)].bytes) \in Nodes
    BY <2>2, NodeFacts DEF NodesInv
  <2>6. QED
    BY <2>2, <2>4, <2>5, SetNodes, ContinueNodes
<1>6. CASE OpenCopy(w) /\ ~Fail(w)
  <2>1. CanOpen(tree, Opened(w))
    BY <1>6 DEF OpenCopy
  <2>2. Opened(w) \in Paths
    BY <2>1 DEF CanOpen
  <2>3. PICK opened \in [Paths -> Nodes] : opened = [tree EXCEPT ![Opened(w)] = File(<<>>)]
    BY <1>2, <2>2, SetNodes
  <2>4. PICK left \in Seq(Chunks) : left = opened[Path(w)].bytes
    BY <1>3, NodeFacts
  <2>5. Continue(w, Op("fill", Opened(w), left), opened)
    BY <1>6, <2>1, <2>3, <2>4 DEF OpenCopy
  <2>6. QED
    BY <2>5, ContinueNodes
<1>7. QED
  BY <1>1, <1>4, <1>5, <1>6

LEMMA FillNodes ==
    ASSUME FsInv, NodesInv, NEW w \in Workers, Fill(w)
    PROVE  NodesInv'
<1>1. At(w, "fill") /\ op[w].left # <<>> /\ op[w].file \in Paths /\ op[w].left \in Seq(Chunks)
  BY FillTarget DEF Fill, NodesInv
<1>2. PICK file \in Paths, left \in Seq(Chunks) : file = op[w].file /\ left = op[w].left
  BY <1>1
<1>3. PICK bytes \in Seq(Chunks) : bytes = tree[file].bytes
  BY NodeFacts DEF NodesInv
<1>4. Tail(left) \in Seq(Chunks) /\ Append(bytes, Head(left)) \in Seq(Chunks)
  BY <1>1, <1>2, ChunkFacts
<1>5. PICK t \in [Paths -> Nodes] : Continue(w, Op("fill", file, Tail(left)), t)
  <2>1. CASE IsFile(tree, file)
    <3>1. Continue(w, Op("fill", file, Tail(left)),
                   [tree EXCEPT ![file] = File(Append(bytes, Head(left)))])
      BY <1>2, <1>3, <2>1 DEF Fill, NodesInv
    <3>2. QED
      BY <1>4, <3>1, NodeFacts, SetNodes
  <2>2. CASE ~IsFile(tree, file)
    BY <1>2, <2>2 DEF Fill, NodesInv
  <2>3. QED
    BY <2>1, <2>2
<1>6. QED
  BY <1>4, <1>5, ContinueNodes

LEMMA RemoveMakeNodes ==
    ASSUME FsInv, NodesInv, NEW w \in Workers, RemoveDir(w) \/ MakeDir(w)
    PROVE  NodesInv'
<1>1. <<>> \in Seq(Chunks) /\ Absent \in Nodes /\ Dir \in Nodes
  BY NodeFacts
<1>2. \/ \E q \in Paths, n \in {Absent, Dir} : \E s :
           Continue(w, Op(s, <<>>, <<>>), [tree EXCEPT ![q] = n])
      \/ \E result, t : Finish(w, result, t) /\ t \in {tree, [tree EXCEPT ![Path(w)] = Absent]}
  BY DEF RemoveDir, MakeDir, Fail, Children
<1>3. ASSUME NEW q \in Paths, NEW n \in {Absent, Dir}, NEW s,
             Continue(w, Op(s, <<>>, <<>>), [tree EXCEPT ![q] = n])
      PROVE  NodesInv'
  BY <1>1, <1>3, SetNodes, ContinueNodes
<1>4. ASSUME NEW result, NEW t, Finish(w, result, t), t \in {tree, [tree EXCEPT ![Path(w)] = Absent]}
      PROVE  NodesInv'
  BY <1>1, <1>4, FinishNodes DEF NodesInv
<1>5. QED
  BY <1>2, <1>3, <1>4

LEMMA EndsNodes ==
    ASSUME FsInv, NodesInv, NEW w \in Workers,
           \/ Refuse(w) \/ Read(w) \/ List(w) \/ Stat(w) \/ Exists(w) \/ HostFails(w)
           \/ FillEnds(w) \/ RenameWritten(w) \/ Move(w) \/ RemoveFile(w)
    PROVE  NodesInv'
<1>1. \/ \E result : Finish(w, result, tree)
      \/ \E result : Finish(w, result, [tree EXCEPT ![Path(w)] = Absent])
      \/ \E result : Finish(w, result, Renamed(tree, TmpOf[Path(w)], Path(w))) /\ At(w, "rename")
      \/ \E result : Finish(w, result, Renamed(tree, Path(w), To(w))) /\ Begins(w, "move")
      \/ Continue(w, Op("rename", op[w].file, <<>>), tree)
  BY DEF Refuse, Read, List, Stat, Exists, HostFails, FillEnds, RenameWritten, Move, RemoveFile, Fail
<1>2. tree \in [Paths -> Nodes] /\ [tree EXCEPT ![Path(w)] = Absent] \in [Paths -> Nodes]
      /\ <<>> \in Seq(Chunks)
  BY NodeFacts DEF NodesInv
<1>3. At(w, "rename") => TmpOf[Path(w)] \in Paths /\ Path(w) \in Paths
  BY AtFacts, CurrentFacts DEF Underway
<1>4. Begins(w, "move") => Path(w) \in Paths /\ To(w) \in Paths
  BY BeginsFacts, CurrentFacts
<1>5. QED
  BY <1>1, <1>2, <1>3, <1>4, RenamedNodes, FinishNodes, ContinueNodes

LEMMA CheckNodes ==
    ASSUME FsInv, NodesInv, NEW w \in Workers, Check(w)
    PROVE  NodesInv'
<1>1. op' = [op EXCEPT ![w] = Begun] /\ tree' = tree
  BY DEF Check
<1>2. Begun.left \in Seq(Chunks)
  BY NodeFacts DEF Begun, Op
<1>3. \A v \in Workers : op'[v] = Begun \/ op'[v] = op[v]
  BY <1>1 DEF FsInv, OpInv
<1>4. QED
  BY <1>1, <1>2, <1>3 DEF NodesInv

LEMMA NodesInvInit == Init => NodesInv
<1>1. Idle.left \in Seq(Chunks)
  BY NodeFacts DEF Idle, Op
<1>2. QED
  BY <1>1, InitTreeHoldsNodes DEF Init, NodesInv

LEMMA NodesInvNext ==
    ASSUME FsInv, NodesInv, [Next]_vars
    PROVE  NodesInv'
<1>1. ASSUME NEW w \in Workers, EffectStep(w) \/ HostFails(w) PROVE NodesInv'
  BY <1>1, CheckNodes, OpenNodes, FillNodes, RemoveMakeNodes, EndsNodes DEF EffectStep
<1>2. CASE Crash /\ op' = [w \in Workers |-> Idle] /\ UNCHANGED <<tree, names>>
  BY <1>2, NodeFacts DEF NodesInv, Idle, Op
<1>3. CASE UNCHANGED <<tree, op, names>>
  BY <1>3 DEF NodesInv
<1>4. QED
  BY <1>1, <1>2, <1>3 DEF Next, vars

-----------------------------------------------------------------------------
(* The directory tree is one after every host call of every operation: nothing
   is left in a directory that is gone or under a file, whether a rename, a
   removal or a crash came in between (fs_result, lib.rs:273). *)
THEOREM TypeCorrect == Spec => []TypeOK
<1>1. FsInv /\ NodesInv => TypeOK
  <2> SUFFICES ASSUME FsInv, NodesInv PROVE TypeOK
    OBVIOUS
  <2>1. RuntimeTypeOK
    BY RuntimeTypes DEF FsInv
  <2>2. \A w \in Workers :
          /\ op[w].step \in {"idle", "begun", "fill", "rename", "remove", "mkdir"}
          /\ op[w] # Idle => Busy(w) /\ Position(w) \in DOMAIN names
    BY StepsDiffer DEF FsInv, OpInv, Underway
  <2>3. DOMAIN names \subseteq DOMAIN issued /\ \A i \in DOMAIN names : {PathOf(i), ToOf(i)} \subseteq Paths
    BY DEF FsInv, NamesInv, FoundOK, PathOf, ToOf
  <2>4. QED
    BY <2>1, <2>2, <2>3 DEF FsInv, NodesInv, TypeOK
<1>2. FsInv /\ NodesInv /\ [Next]_vars => FsInv' /\ NodesInv'
  BY FsInvNext, NodesInvNext
<1>3. Init => FsInv /\ NodesInv
  BY FsInvInit, NodesInvInit
<1>4. QED
  BY <1>1, <1>2, <1>3, PTL DEF Spec

(* Whatever tasks, allow-lists and trees there are, whatever links are in them,
   and whether a task came through the facade or not, nothing outside what its
   allow-list leads to is changed but what MayChange names: the temporary file of
   a write or where a link at its name leads, the directories above a new one,
   and where a link leads at the name of an append or a copy that was not there
   (checked_path, lib.rs:364). *)
THEOREM AllowListsConfine == Spec => OnlyAllowedTouched
<1>1. FsInv /\ [Next]_vars => [OnlyAllowedChanges]_vars
  BY FsInvNext
<1>2. QED
  BY <1>1, FsInvHolds, PTL DEF Spec, OnlyAllowedTouched

-----------------------------------------------------------------------------
(* The temporary file of a write holds what was stored of its content so far,
   and `left` is the rest. *)

FillsWhole(w) ==
    \E bytes \in Seq(Chunks), left \in Seq(Chunks) :
      /\ tree[op[w].file] = File(bytes) /\ op[w].left = left
      /\ bytes \o left = Content(w)
      /\ op[w].step = "rename" => left = <<>>
FillInv ==
    \A w \in Workers :
      op[w].step \in {"fill", "rename"} /\ Current(w).protocol = Effect("write") => FillsWhole(w)

LEMMA IdleFills ==
    ASSUME op = [v \in Workers |-> Idle]
    PROVE  FillInv
  BY StepsDiffer DEF FillInv

LEMMA FinishFills ==
    ASSUME FsInv, NEW w \in Workers, Busy(w), NEW result, NEW t, Finish(w, result, t)
    PROVE  FillInv'
<1>1. \A v \in Workers : v # w => op[v] = Idle
  BY BusyFacts DEF FsInv, OpInv, Busy
<1>2. op' = [v \in Workers |-> Idle]
  BY <1>1 DEF Finish, FsInv, OpInv
<1>3. QED
  BY <1>2, StepsDiffer DEF FillInv

LEMMA ContinueFills ==
    ASSUME FsInv, NEW w \in Workers, Busy(w), NEW next, NEW t, Continue(w, next, t),
           Current(w).protocol = Effect("write") => FillsWhole(w)'
    PROVE  FillInv'
<1>1. \A v \in Workers : v # w => op'[v] = Idle
  BY ContinueFacts, BusyFacts DEF FsInv, OpInv, Busy
<1>2. Current(w)' = Current(w)
  BY ContinueFacts
<1>3. QED
  BY <1>1, <1>2, StepsDiffer DEF FillInv

LEMMA ContinueContent ==
    ASSUME FsInv, NEW w \in Workers, NEW s, NEW f, NEW l, NEW t, Continue(w, Op(s, f, l), t)
    PROVE  /\ op'[w].step = s /\ op'[w].file = f /\ op'[w].left = l
           /\ tree' = t /\ Content(w)' = Content(w)
<1>1. op'[w] = Op(s, f, l) /\ tree' = t /\ Current(w)' = Current(w)
  BY ContinueFacts
<1>2. QED
  BY <1>1, StepsDiffer DEF Content

LEMMA OpenWriteFills ==
    ASSUME FsInv, NEW w \in Workers, OpenWrite(w)
    PROVE  FillInv'
<1> DEFINE target == Opened(w)
<1>1. Begins(w, "write")
  BY DEF OpenWrite
<1>2. /\ Busy(w) /\ Position(w) \in DOMAIN names /\ Current(w).protocol = Effect("write")
  BY <1>1, BeginsFacts DEF Begins
<1>3. CASE CanOpen(tree, target)
  <2> target \in Paths
    BY <1>3 DEF CanOpen
  <2>1. Continue(w, Op("fill", target, Content(w)), [tree EXCEPT ![target] = File(<<>>)])
    BY <1>3 DEF OpenWrite
  <2>2. PICK left \in Seq(Chunks) : left = Content(w)
    BY <1>2, ContentFacts
  <2>3. /\ op'[w].step = "fill" /\ op'[w].file = target /\ op'[w].left = left
        /\ tree'[target] = File(<<>>) /\ Content(w)' = left
    <3>1. PICK file, rest, t :
            /\ Continue(w, Op("fill", file, rest), t) /\ file = target /\ rest = left
            /\ t = [tree EXCEPT ![target] = File(<<>>)]
      BY <2>1, <2>2
    <3>2. Continue(w, Op("fill", file, rest), t)
      BY <3>1
    <3>3. /\ op'[w].step = "fill" /\ op'[w].file = file /\ op'[w].left = rest
          /\ tree' = t /\ Content(w)' = Content(w)
      BY <3>2, ContinueContent
    <3>4. tree'[target] = File(<<>>)
      BY <1>2, <3>1, <3>3, SetFacts
    <3>5. QED
      BY <2>2, <3>1, <3>3, <3>4
  <2>4. <<>> \in Seq(Chunks) /\ <<>> \o left = left
    BY ChunkFacts
  <2>5. FillsWhole(w)'
    BY <2>3, <2>4 DEF FillsWhole
  <2>6. QED
    BY <1>2, <2>1, <2>5, ContinueFills
<1>4. CASE ~CanOpen(tree, target)
  BY <1>2, <1>4, FinishFills DEF OpenWrite, Fail
<1>5. QED
  BY <1>3, <1>4

LEMMA FillFills ==
    ASSUME FsInv, FillInv, NEW w \in Workers, Fill(w)
    PROVE  FillInv'
<1> DEFINE file == op[w].file
<1>1. At(w, "fill") /\ op[w].left # <<>>
  BY DEF Fill
<1>2. file \in Paths
  BY <1>1, FillTarget
<1>3. Busy(w) /\ Underway(w) /\ op[w].step = "fill" /\ op[w] # Idle
  BY <1>1, AtFacts, StepsDiffer
<1>4. PICK t, name, rest :
        Continue(w, Op("fill", name, rest), t) /\ name = file /\ rest = Tail(op[w].left)
  BY DEF Fill
<1>5. ASSUME Current(w).protocol = Effect("write") PROVE FillsWhole(w)'
  <2>1. PICK bytes \in Seq(Chunks), left \in Seq(Chunks) :
          tree[file] = File(bytes) /\ op[w].left = left /\ bytes \o left = Content(w)
    BY <1>3, <1>5 DEF FillInv, FillsWhole
  <2>2. IsFile(tree, file) /\ tree[file].bytes = bytes
    BY <2>1 DEF IsFile, File, Node
  <2>3. tree' = [tree EXCEPT ![file] = File(Append(bytes, Head(left)))]
    BY <2>1, <2>2 DEF Fill, Continue
  <2>4. tree'[file] = File(Append(bytes, Head(left)))
    BY <1>2, <2>3, SetFacts
  <2>5. /\ op'[w].step = "fill" /\ op'[w].file = file /\ op'[w].left = Tail(left)
        /\ Content(w)' = Content(w)
    <3>1. /\ op'[w].step = "fill" /\ op'[w].file = name /\ op'[w].left = rest
          /\ Content(w)' = Content(w)
      BY <1>4, ContinueContent
    <3>2. QED
      BY <1>4, <2>1, <3>1
  <2>6. /\ Append(bytes, Head(left)) \in Seq(Chunks) /\ Tail(left) \in Seq(Chunks)
        /\ Append(bytes, Head(left)) \o Tail(left) = Content(w)
    BY <1>1, <2>1, ChunkFacts
  <2>7. QED
    BY <2>4, <2>5, <2>6 DEF FillsWhole
<1>6. QED
  BY <1>3, <1>4, <1>5, ContinueFills

LEMMA FillEndsFills ==
    ASSUME FsInv, FillInv, NEW w \in Workers, FillEnds(w)
    PROVE  FillInv'
<1>1. At(w, "fill") /\ op[w].left = <<>>
  BY DEF FillEnds
<1>2. Busy(w) /\ op[w].step = "fill" /\ op[w] # Idle
  BY <1>1, AtFacts, StepsDiffer
<1>3. CASE Current(w).protocol = Effect("write")
  <2>1. Continue(w, Op("rename", op[w].file, <<>>), tree)
    BY <1>3 DEF FillEnds
  <2>2. PICK bytes \in Seq(Chunks) :
          tree[op[w].file] = File(bytes) /\ bytes \o <<>> = Content(w) /\ <<>> \in Seq(Chunks)
    BY <1>1, <1>2, <1>3 DEF FillInv, FillsWhole
  <2>3. /\ op'[w].step = "rename" /\ op'[w].file = op[w].file /\ op'[w].left = <<>>
        /\ tree' = tree /\ Content(w)' = Content(w)
    BY <2>1, ContinueContent
  <2>4. FillsWhole(w)'
    BY <2>2, <2>3 DEF FillsWhole
  <2>5. QED
    BY <1>2, <2>1, <2>4, ContinueFills
<1>4. CASE Current(w).protocol # Effect("write")
  BY <1>2, <1>4, FinishFills DEF FillEnds
<1>5. QED
  BY <1>3, <1>4

(* The operations that are not writes. *)
LEMMA OthersFill ==
    ASSUME FsInv, NEW w \in Workers, OpenAppend(w) \/ OpenCopy(w) \/ RemoveDir(w) \/ MakeDir(w)
    PROVE  FillInv'
<1>1. Busy(w) /\ Current(w).protocol # Effect("write")
  <2>1. ASSUME NEW o, Begins(w, o), o # "write" PROVE Busy(w) /\ Current(w).protocol # Effect("write")
    BY <2>1, OpsDiffer DEF Begins
  <2>2. ASSUME NEW s, At(w, s), s \in {"remove", "mkdir"}
        PROVE  Busy(w) /\ Current(w).protocol # Effect("write")
    BY <2>2, AtFacts, OpsDiffer, StepsDiffer DEF Underway
  <2>3. QED
    BY <2>1, <2>2 DEF OpenAppend, OpenCopy, RemoveDir, MakeDir
<1>2. \/ \E next, t : Continue(w, next, t)
      \/ \E result, t : Finish(w, result, t)
  BY DEF OpenAppend, OpenCopy, RemoveDir, MakeDir, Fail
<1>3. QED
  BY <1>1, <1>2, ContinueFills, FinishFills

LEMMA EndsFill ==
    ASSUME FsInv, NEW w \in Workers, Busy(w),
           \/ Refuse(w) \/ Read(w) \/ List(w) \/ Stat(w) \/ Exists(w) \/ HostFails(w)
           \/ RenameWritten(w) \/ Move(w) \/ RemoveFile(w)
    PROVE  FillInv'
<1>1. \E result, t : Finish(w, result, t)
  BY DEF Refuse, Read, List, Stat, Exists, HostFails, RenameWritten, Move, RemoveFile, Fail
<1>2. QED
  BY <1>1, FinishFills

LEMMA CheckFills ==
    ASSUME FsInv, NEW w \in Workers, Check(w)
    PROVE  FillInv'
<1>1. \A v \in Workers : v # w => op[v] = Idle
  BY BusyFacts DEF Check, FsInv, OpInv, Busy
<1>2. \A v \in Workers : op'[v] \in {Idle, Begun}
  BY <1>1 DEF Check, FsInv, OpInv
<1>3. QED
  BY <1>2, StepsDiffer DEF FillInv

LEMMA EffectStepFills ==
    ASSUME FsInv, FillInv, NEW w \in Workers, EffectStep(w) \/ HostFails(w)
    PROVE  FillInv'
  BY EffectStepKeeps, OpenWriteFills, FillFills, FillEndsFills, OthersFill, EndsFill, CheckFills DEF EffectStep

LEMMA QueuedFills ==
    ASSUME FsInv, FillInv, UNCHANGED <<batch, tree, op>>,
           \A i \in DOMAIN issued : issued'[i] = issued[i]
    PROVE  FillInv'
<1> SUFFICES ASSUME NEW w \in Workers, op[w].step \in {"fill", "rename"},
                    Current(w)'.protocol = Effect("write")
             PROVE  FillsWhole(w)'
  BY DEF FillInv
<1>1. Busy(w) /\ Position(w)' = Position(w)
  BY StepsDiffer DEF FsInv, OpInv, Position
<1>2. Current(w)' = Current(w)
  BY <1>1, BusyFacts DEF FsInv, Current
<1>3. Content(w)' = Content(w) /\ FillsWhole(w)
  BY <1>2 DEF Content, FillInv
<1>4. QED
  BY <1>3 DEF FillsWhole

-----------------------------------------------------------------------------
(* A write that is answered with success has put its content in place, and
   nothing else changes a file that no task disturbs. *)

Written(w) == RenameWritten(w) /\ CanRename(tree, TmpOf[Path(w)], Path(w))
WriteTask(w) == IsOp(Position(w), "write")
Answers(w, result) == FinishEntry(w, result) /\ (WriteTask(w) /\ result.code = "ok" => Written(w))

LEMMA FailureCodes ==
    NoResult.code = "none" /\ Success({}).code = "ok" /\ \A c : Failure(c).code = c
  BY DEF Failure, Success, NoResult

LEMMA NotAWrite ==
    ASSUME FsInv, NEW w \in Workers,
           \/ \E o : Begins(w, o) /\ o # "write"
           \/ \E s : At(w, s) /\ s \in {"remove", "mkdir"}
    PROVE  ~WriteTask(w)
<1>1. ASSUME NEW o, Begins(w, o), o # "write" PROVE ~WriteTask(w)
  BY <1>1, OpsDiffer DEF Begins, WriteTask, IsOp, Current
<1>2. ASSUME NEW s, At(w, s), s \in {"remove", "mkdir"} PROVE ~WriteTask(w)
  BY <1>2, AtFacts, OpsDiffer, StepsDiffer DEF Underway, WriteTask, IsOp, Current
<1>3. QED
  BY <1>1, <1>2

LEMMA StepAnswers ==
    ASSUME FsInv, NEW w \in Workers, EffectStep(w) \/ HostFails(w)
    PROVE  UNCHANGED runtimeVars \/ \E result : Answers(w, result)
<1>1. ASSUME NEW result, NEW t, Finish(w, result, t), ~WriteTask(w) \/ result.code # "ok"
      PROVE  \E r : Answers(w, r)
  BY <1>1 DEF Finish, Answers
<1>2. ASSUME NEW next, NEW t, Continue(w, next, t) PROVE UNCHANGED runtimeVars
  BY <1>2 DEF Continue
<1>3. CASE Fail(w) \/ HostFails(w) \/ Refuse(w)
  <2>1. Fail(w) \/ HostFails(w) => \E c : Finish(w, Failure(c), tree) /\ c # "ok"
    BY DEF Fail, HostFails
  <2>2. Refuse(w) => \E c : Finish(w, Failure(c), tree) /\ c # "ok"
    BY DEF Refuse
  <2>3. QED
    BY <1>1, <1>3, <2>1, <2>2, FailureCodes
<1>4. CASE \/ Read(w) \/ List(w) \/ Stat(w) \/ Exists(w) \/ OpenAppend(w) \/ OpenCopy(w)
           \/ Move(w) \/ RemoveFile(w) \/ RemoveDir(w) \/ MakeDir(w)
  <2>1. ~WriteTask(w)
    BY <1>4, NotAWrite DEF Read, List, Stat, Exists, OpenAppend, OpenCopy, Move, RemoveFile,
       RemoveDir, MakeDir
  <2>2. \/ \E result, t : Finish(w, result, t)
        \/ \E next, t : Continue(w, next, t)
    BY <1>4 DEF Read, List, Stat, Exists, OpenAppend, OpenCopy, Move, RemoveFile, RemoveDir,
       MakeDir, Fail
  <2>3. QED
    BY <1>1, <1>2, <2>1, <2>2
<1>5. CASE OpenWrite(w) \/ Fill(w)
  <2>1. Fail(w) \/ \E next, t : Continue(w, next, t)
    BY <1>5 DEF OpenWrite, Fill
  <2>2. QED
    BY <1>2, <1>3, <2>1
<1>6. CASE FillEnds(w)
  <2>1. CASE Current(w).protocol = Effect("write")
    BY <1>2, <1>6, <2>1 DEF FillEnds
  <2>2. CASE Current(w).protocol # Effect("write")
    BY <1>1, <1>6, <2>2 DEF FillEnds, WriteTask, IsOp, Current
  <2>3. QED
    BY <2>1, <2>2
<1>7. CASE RenameWritten(w)
  <2>1. CASE CanRename(tree, TmpOf[Path(w)], Path(w))
    BY <1>7, <2>1 DEF RenameWritten, Written, Answers, Finish
  <2>2. CASE ~CanRename(tree, TmpOf[Path(w)], Path(w))
    BY <1>3, <1>7, <2>2 DEF RenameWritten
  <2>3. QED
    BY <2>1, <2>2
<1>8. CASE Check(w)
  BY <1>8 DEF Check
<1>9. QED
  BY <1>3, <1>4, <1>5, <1>6, <1>7, <1>8 DEF EffectStep

LEMMA WrittenFacts ==
    ASSUME FsInv, FillInv, NEW w \in Workers, Written(w)
    PROVE  /\ Busy(w) /\ WriteTask(w) /\ Path(w) \in Paths /\ TmpOf[Path(w)] \in Paths
           /\ FinishEntry(w, Success({}))
           /\ tree' = Renamed(tree, TmpOf[Path(w)], Path(w))
           /\ tree[Opened(w)] = File(Content(w))
           /\ ~IsDir(tree, TmpOf[Path(w)]) /\ CanRename(tree, TmpOf[Path(w)], Path(w))
<1>1. /\ At(w, "rename") /\ CanRename(tree, TmpOf[Path(w)], Path(w))
      /\ Finish(w, Success({}), Renamed(tree, TmpOf[Path(w)], Path(w)))
  BY DEF Written, RenameWritten
<1>2. /\ Busy(w) /\ Underway(w) /\ op[w].step = "rename" /\ Path(w) \in Paths
      /\ Position(w) \in DOMAIN names
  BY <1>1, AtFacts
<1>3. /\ Current(w).protocol = Effect("write") /\ op[w].file = Opened(w)
      /\ ~IsDir(tree, TmpOf[Path(w)])
  BY <1>2, StepsDiffer DEF Underway
<1>4. PICK bytes \in Seq(Chunks) : tree[op[w].file] = File(bytes) /\ bytes \o <<>> = Content(w)
  BY <1>2, <1>3 DEF FillInv, FillsWhole
<1>5. bytes = Content(w)
  BY <1>4, ConcatEmptySeq
<1>6. WriteTask(w)
  BY <1>2, <1>3 DEF WriteTask, IsOp, Current
<1>7. QED
  BY <1>1, <1>2, <1>3, <1>4, <1>5, <1>6, PathFacts DEF Finish

LEMMA CurrentDisturbs ==
    ASSUME NEW w \in Workers, Position(w) \in DOMAIN names, NEW p \in Paths, NEW o,
           Current(w).protocol = Effect(o)
    PROVE  /\ o = "write" /\ Opened(w) = p => Disturbs(Position(w), p)
           /\ o = "write" /\ TmpOf[Path(w)] = p /\ Path(w) # p => Disturbs(Position(w), p)
           /\ o \in {"append", "copy"} /\ Opened(w) = p => Disturbs(Position(w), p)
           /\ o = "move" /\ (IsPrefix(Path(w), p) \/ IsPrefix(To(w), p)) => Disturbs(Position(w), p)
           /\ o = "remove" /\ IsPrefix(Path(w), p) => Disturbs(Position(w), p)
           /\ o = "mkdir" /\ IsPrefix(p, Path(w)) => Disturbs(Position(w), p)
<1>1. /\ IsOp(Position(w), o) /\ PathOf(Position(w)) = Path(w) /\ ToOf(Position(w)) = To(w)
      /\ FileOf(Position(w)) = Opened(w)
  BY DEF IsOp, PathOf, ToOf, FileOf, Current, Path, To, Opened
<1>2. QED
  BY <1>1 DEF Disturbs

LEMMA ChangesDisturb ==
    ASSUME FsInv, FillInv, NEW w \in Workers, EffectStep(w) \/ HostFails(w),
           NEW p \in Paths, tree'[p] # tree[p]
    PROVE  Disturbs(Position(w), p) \/ (Written(w) /\ p = Path(w))
<1>1. ASSUME NEW q \in Paths, NEW e, tree' = [tree EXCEPT ![q] = e] PROVE q = p
  BY <1>1 DEF FsInv, IsTree
<1>2. CASE \E result : Finish(w, result, tree)
  BY <1>2 DEF Finish
<1>3. CASE OpenWrite(w)
  <2>1. Begins(w, "write")
    BY <1>3 DEF OpenWrite
  <2>2. Position(w) \in DOMAIN names /\ Current(w).protocol = Effect("write")
    BY <2>1, BeginsFacts
  <2>3. Opened(w) = p
    BY <1>1, <1>2, <1>3, <2>2 DEF OpenWrite, CanOpen, Continue, Fail, Finish
  <2>4. QED
    BY <2>2, <2>3, CurrentDisturbs
<1>4. CASE OpenAppend(w)
  <2>1. Begins(w, "append")
    BY <1>4 DEF OpenAppend
  <2>2. Position(w) \in DOMAIN names /\ Current(w).protocol = Effect("append")
    BY <2>1, BeginsFacts
  <2>3. Opened(w) = p
    BY <1>1, <1>4, <2>2 DEF OpenAppend, CanOpen, Continue, Fail, Finish
  <2>4. QED
    BY <2>2, <2>3, CurrentDisturbs
<1>5. CASE OpenCopy(w)
  <2>1. Begins(w, "copy")
    BY <1>5 DEF OpenCopy
  <2>2. Position(w) \in DOMAIN names /\ Current(w).protocol = Effect("copy")
    BY <2>1, BeginsFacts
  <2>3. Opened(w) = p
    BY <1>1, <1>5, <2>2 DEF OpenCopy, CanOpen, Continue, Fail, Finish
  <2>4. QED
    BY <2>2, <2>3, CurrentDisturbs
<1>6. CASE Fill(w)
  <2>1. At(w, "fill")
    BY <1>6 DEF Fill
  <2>2. /\ op[w].file \in Paths /\ op[w].file = Opened(w)
        /\ Current(w).protocol \in {Effect("write"), Effect("append"), Effect("copy")}
    BY <2>1, FillTarget
  <2>3. op[w].file = p
    BY <1>1, <1>6, <2>2 DEF Fill, Continue
  <2>4. Position(w) \in DOMAIN names
    BY <2>1, AtFacts
  <2>5. QED
    BY <2>2, <2>3, <2>4, CurrentDisturbs
<1>7. CASE FillEnds(w)
  BY <1>7 DEF FillEnds, Continue, Finish
<1>8. CASE RenameWritten(w)
  <2>1. Written(w)
    BY <1>8 DEF RenameWritten, Written, Fail, Finish
  <2> DEFINE from == TmpOf[Path(w)]
  <2>2. /\ from \in Paths /\ Path(w) \in Paths /\ CanRename(tree, from, Path(w))
        /\ tree' = Renamed(tree, from, Path(w)) /\ ~IsDir(tree, from) /\ WriteTask(w)
    BY <2>1, WrittenFacts
  <2>3. from # Path(w)
    BY <2>2 DEF Renamed
  <2>4. p \in {from, Path(w)}
    BY <2>2, <2>3, RenameOfFile DEF FsInv
  <2>5. QED
    BY <2>1, <2>2, <2>3, <2>4, CurrentDisturbs DEF WriteTask, IsOp, Current
<1>9. CASE Move(w)
  <2>1. Begins(w, "move")
    BY <1>9 DEF Move
  <2>2. /\ Path(w) \in Paths /\ To(w) \in Paths
        /\ Position(w) \in DOMAIN names /\ Current(w).protocol = Effect("move")
    BY <2>1, BeginsFacts, CurrentFacts
  <2>3. tree' = Renamed(tree, Path(w), To(w))
    BY <1>9 DEF Move, Fail, Finish
  <2>4. IsPrefix(To(w), p) \/ IsPrefix(Path(w), p)
    BY <2>2, <2>3, RenameChanges
  <2>5. QED
    BY <2>2, <2>4, CurrentDisturbs
<1>10. CASE RemoveFile(w) \/ RemoveDir(w)
  <2>1. /\ Path(w) \in Paths /\ Position(w) \in DOMAIN names
        /\ Current(w).protocol = Effect("remove")
    BY <1>10, BeginsFacts, AtFacts, OpsDiffer, StepsDiffer DEF RemoveFile, RemoveDir, Underway
  <2>2. \E q \in Paths : IsPrefix(Path(w), q) /\ tree' = [tree EXCEPT ![q] = Absent]
    <3>1. IsPrefix(Path(w), Path(w))
      BY <2>1, PathFacts, PrefixSelf
    <3>2. QED
      BY <1>10, <2>1, <3>1 DEF RemoveFile, RemoveDir, Children, Continue, Fail, Finish
  <2>3. IsPrefix(Path(w), p)
    BY <1>1, <2>2
  <2>4. QED
    BY <2>1, <2>3, CurrentDisturbs
<1>11. CASE MakeDir(w)
  <2>1. Position(w) \in DOMAIN names /\ Current(w).protocol = Effect("mkdir")
    BY <1>11, BeginsFacts, AtFacts, OpsDiffer, StepsDiffer DEF MakeDir, Underway
  <2>2. \E q \in Paths : IsPrefix(q, Path(w)) /\ tree' = [tree EXCEPT ![q] = Dir]
    BY <1>11 DEF MakeDir, Continue, Fail, Finish
  <2>3. IsPrefix(p, Path(w))
    BY <1>1, <2>2
  <2>4. QED
    BY <2>1, <2>3, CurrentDisturbs
<1>12. CASE Refuse(w) \/ Read(w) \/ List(w) \/ Stat(w) \/ Exists(w) \/ HostFails(w)
  BY <1>2, <1>12 DEF Refuse, Read, List, Stat, Exists, HostFails, Fail
<1>13. CASE Check(w)
  BY <1>13 DEF Check
<1>14. QED
  BY <1>3, <1>4, <1>5, <1>6, <1>7, <1>8, <1>9, <1>10, <1>11, <1>12, <1>13 DEF EffectStep

-----------------------------------------------------------------------------
(* The inductive invariant: a file that only writes touch holds what one write
   stored (or what it held at first), every write given success is that one or
   an earlier one, and that one was given success or was lost in a crash. *)

Undisturbed(p) == \A i \in DOMAIN issued : ~Disturbs(i, p)
Stored(c) ==
    \/ \E r : Gave(c, r) /\ r.code = "ok"
    \/ outcome[c] = NoResult /\ ~Unanswered(c)
HoldsWrite(p, c) ==
    \/ c = 0 /\ tree[p] = InitTree[p]
    \/ /\ c \in DOMAIN issued /\ WritesTo(c, p)
       /\ tree[p] = File(issued[c].payload.content)
       /\ Stored(c)
NoneAfter(p, c) ==
    \A i \in DOMAIN issued : \A r : WritesTo(i, p) /\ Gave(i, r) /\ r.code = "ok" => i =< c
AtomicInv ==
    \A p \in Paths : Undisturbed(p) =>
      \E c \in Nat : HoldsWrite(p, c) /\ NoneAfter(p, c)

LEMMA AtomicInvInit == Init => AtomicInv
<1> SUFFICES ASSUME Init, NEW p \in Paths
             PROVE  \E c \in Nat : HoldsWrite(p, c) /\ NoneAfter(p, c)
  BY DEF AtomicInv
<1>1. DOMAIN issued = {}
  BY IsSeqShort, IsSeqFacts DEF Init, RuntimeInit
<1>2. HoldsWrite(p, 0) /\ NoneAfter(p, 0)
  BY <1>1 DEF Init, HoldsWrite, NoneAfter
<1>3. QED
  BY <1>2

(* What a task is and what its checks found does not change, so neither does
   what it disturbs; a task that was not checked disturbs nothing. *)
NamesStay == \A i \in DOMAIN names : i \in DOMAIN names' /\ names'[i] = names[i]

LEMMA DisturbsStays ==
    ASSUME NEW i \in DOMAIN names, NamesStay, issued'[i] = issued[i]
    PROVE  /\ \A p : Disturbs(i, p)' <=> Disturbs(i, p)
           /\ \A p : WritesTo(i, p)' <=> WritesTo(i, p)
<1>1. \A o : IsOp(i, o)' <=> IsOp(i, o)
  BY DEF IsOp, NamesStay
<1>2. PathOf(i)' = PathOf(i) /\ ToOf(i)' = ToOf(i) /\ FileOf(i)' = FileOf(i)
  BY DEF PathOf, ToOf, FileOf, NamesStay
<1>3. QED
  BY <1>1, <1>2 DEF Disturbs, WritesTo

LEMMA UncheckedFacts ==
    ASSUME NEW i, i \notin DOMAIN names
    PROVE  \A p : ~Disturbs(i, p) /\ ~WritesTo(i, p)
  BY DEF Disturbs, WritesTo, IsOp

LEMMA UndisturbedBefore ==
    ASSUME FsInv, NEW p, Undisturbed(p)', NamesStay,
           \A i \in DOMAIN issued : i \in DOMAIN issued' /\ issued'[i] = issued[i]
    PROVE  Undisturbed(p)
<1> SUFFICES ASSUME NEW i \in DOMAIN issued PROVE ~Disturbs(i, p)
  BY DEF Undisturbed
<1>1. ~Disturbs(i, p)'
  BY DEF Undisturbed
<1>2. CASE i \in DOMAIN names
  BY <1>1, <1>2, DisturbsStays
<1>3. CASE i \notin DOMAIN names
  BY <1>3, UncheckedFacts
<1>4. QED
  BY <1>2, <1>3

(* A step that changes no such file and gives no answer to a write of it. *)
LEMMA AtomicKeeps ==
    ASSUME FsInv, AtomicInv, NEW p \in Paths, Undisturbed(p)', tree'[p] = tree[p], NamesStay,
           \A i \in DOMAIN issued : i \in DOMAIN issued' /\ issued'[i] = issued[i],
           \A c \in DOMAIN issued : Stored(c) => Stored(c)',
           \A i \in DOMAIN issued' : \A r :
              WritesTo(i, p)' /\ Gave(i, r)' /\ r.code = "ok" =>
                i \in DOMAIN issued /\ WritesTo(i, p) /\ Gave(i, r)
    PROVE  \E c \in Nat : HoldsWrite(p, c)' /\ NoneAfter(p, c)'
<1>1. Undisturbed(p)
  BY UndisturbedBefore
<1>2. PICK c \in Nat : HoldsWrite(p, c) /\ NoneAfter(p, c)
  BY <1>1 DEF AtomicInv
<1>3. WritesTo(c, p) => c \in DOMAIN names
  BY DEF WritesTo, IsOp
<1>4. c \in DOMAIN issued /\ WritesTo(c, p) => WritesTo(c, p)'
  BY <1>3, DisturbsStays
<1>5. HoldsWrite(p, c)'
  BY <1>2, <1>4 DEF HoldsWrite
<1>6. NoneAfter(p, c)'
  BY <1>2 DEF NoneAfter
<1>7. QED
  BY <1>5, <1>6

LEMMA QueueKeepsAtomic ==
    ASSUME FsInv, AtomicInv, UNCHANGED <<tree, names>>,
           \A i, r : Gave(i, r)' => Gave(i, r),
           \A i \in DOMAIN issued : i \in DOMAIN issued' /\ issued'[i] = issued[i],
           \A c \in DOMAIN issued : Stored(c) => Stored(c)'
    PROVE  AtomicInv'
<1>1. NamesStay
  BY DEF NamesStay
<1>2. ASSUME NEW i, NEW p, WritesTo(i, p)' PROVE i \in DOMAIN issued /\ WritesTo(i, p)
  <2>1. i \in DOMAIN names
    BY <1>2 DEF WritesTo, IsOp
  <2>2. i \in DOMAIN issued
    BY <2>1 DEF FsInv, NamesInv
  <2>3. QED
    BY <1>1, <1>2, <2>1, <2>2, DisturbsStays
<1> SUFFICES ASSUME NEW p \in Paths, Undisturbed(p)'
             PROVE  \E c \in Nat : HoldsWrite(p, c)' /\ NoneAfter(p, c)'
  BY DEF AtomicInv
<1>3. \A i \in DOMAIN issued' : \A r :
        WritesTo(i, p)' /\ Gave(i, r)' /\ r.code = "ok" =>
          i \in DOMAIN issued /\ WritesTo(i, p) /\ Gave(i, r)
  BY <1>2
<1>4. QED
  BY <1>1, <1>3, AtomicKeeps

(* Answers given stay given. *)
LEMMA StoredStays ==
    ASSUME NEW c, Stored(c),
           \A r : Gave(c, r) /\ r.code = "ok" => Gave(c, r)',
           outcome[c] = NoResult /\ ~Unanswered(c) => outcome'[c] = NoResult /\ ~Unanswered(c)'
    PROVE  Stored(c)'
  BY DEF Stored

LEMMA SubmitAtomic ==
    ASSUME FsInv, AtomicInv, Submit, UNCHANGED <<tree, op, names>>
    PROVE  AtomicInv'
<1>1. /\ \A i, r : Gave(i, r)' => Gave(i, r)
      /\ \A i \in DOMAIN issued : i \in DOMAIN issued' /\ issued'[i] = issued[i]
      /\ \A i \in DOMAIN outcome : outcome'[i] = outcome[i]
      /\ UNCHANGED <<taken, batch, crashes>>
      /\ RuntimeInv'
  BY RunFacadeInv, SubmitEffectInv DEF Submit, FsInv
<1>2. DOMAIN outcome = DOMAIN issued /\ DOMAIN outcome' = DOMAIN issued'
  BY <1>1, IsSeqFacts DEF FsInv, RuntimeInv, QueueInv
<1>3. ASSUME NEW c \in DOMAIN issued, Stored(c) PROVE Stored(c)'
  <2>1. \A r : Gave(c, r) => Gave(c, r)'
    BY <1>1, <1>2 DEF Gave
  <2>2. Unanswered(c)' <=> Unanswered(c)
    BY <1>1 DEF Unanswered
  <2>3. QED
    BY <1>1, <1>2, <1>3, <2>1, <2>2, StoredStays
<1>4. QED
  BY <1>1, <1>3, QueueKeepsAtomic

LEMMA DispatchAtomic ==
    ASSUME FsInv, AtomicInv, NEW w \in Workers, NEW n, Dispatch(w, n, MaxInflightBatches),
           UNCHANGED <<tree, op, names>>
    PROVE  AtomicInv'
<1>1. Dispatch(w, n, 1) /\ RuntimeInv
  BY DEF MaxInflightBatches, FsInv
<1>2. /\ \A i, r : Gave(i, r)' => Gave(i, r)
      /\ \A v \in Workers : batch'[v] # NoBatch => v = w
      /\ batch'[w] = Batch(taken + 1, taken + n, <<>>)
      /\ taken' = taken + n /\ n \in Nat
      /\ UNCHANGED <<issued, outcome>>
  BY <1>1, DispatchInv
<1>3. ASSUME NEW c \in DOMAIN issued, Stored(c) PROVE Stored(c)'
  <2>1. \A r : Gave(c, r) => Gave(c, r)'
    BY <1>1, DispatchGivenStays
  <2>2. c \in Nat /\ taken \in Nat
    BY <1>1, IsSeqFacts DEF RuntimeInv, CountersInv, QueueInv
  <2>3. batch'[w].first = taken + 1
    BY <1>2 DEF Batch
  <2>4. ~Unanswered(c) => ~Unanswered(c)'
    BY <1>2, <2>2, <2>3 DEF Unanswered
  <2>5. QED
    BY <1>2, <1>3, <2>1, <2>4, StoredStays
<1>4. QED
  BY <1>2, <1>3, QueueKeepsAtomic

LEMMA AnswerAtomic ==
    ASSUME FsInv, AtomicInv, NEW w \in Workers, Answer(w), UNCHANGED <<tree, op, names>>
    PROVE  AtomicInv'
<1>1. /\ \A i, r : Gave(i, r)' => Gave(i, r)
      /\ \A v \in Workers : batch'[v] = NoBatch
      /\ UNCHANGED <<issued, taken>>
      /\ RuntimeInv
  BY AnswerInv DEF FsInv
<1>2. DOMAIN outcome = DOMAIN issued
  BY <1>1, IsSeqFacts DEF RuntimeInv, QueueInv
<1>3. ASSUME NEW c \in DOMAIN issued, Stored(c) PROVE Stored(c)'
  <2>1. \A r : Gave(c, r) /\ r.code = "ok" => Gave(c, r)'
    BY <1>1, AnswerGivenStays, FailureCodes
  <2>2. ASSUME ~Unanswered(c) PROVE outcome'[c] = outcome[c] /\ ~Unanswered(c)'
    BY <1>1, <1>2, <2>2 DEF Answer, Unanswered
  <2>3. QED
    BY <1>3, <2>1, <2>2, StoredStays
<1>4. QED
  BY <1>1, <1>3, QueueKeepsAtomic

(* What a crash takes out of a batch was stored all the same. *)
LEMMA CrashAtomic ==
    ASSUME FsInv, AtomicInv, Crash, UNCHANGED <<tree, names>>
    PROVE  AtomicInv'
<1>1. /\ \A i, r : Gave(i, r)' => Gave(i, r)
      /\ \A v \in Workers : batch'[v] = NoBatch
      /\ UNCHANGED <<issued, outcome>>
      /\ RuntimeInv /\ RuntimeInv'
  BY CrashInv DEF FsInv
<1>2. ASSUME NEW c \in DOMAIN issued, Stored(c) PROVE Stored(c)'
  <2>1. ~Unanswered(c)'
    <3>1. c \in 1 .. Len(issued) /\ Len(issued) \in Nat /\ taken' = Len(issued)
      BY <1>1, IsSeqFacts DEF RuntimeInv, QueueInv, Crash
    <3>2. QED
      BY <1>1, <3>1 DEF Unanswered
  <2>2. CASE outcome[c] = NoResult
    BY <1>1, <2>1, <2>2 DEF Stored
  <2>3. CASE outcome[c] # NoResult
    <3>1. PICK r : Gave(c, r) /\ r.code = "ok"
      BY <1>2, <2>3 DEF Stored
    <3>2. r = outcome[c]
      BY <1>1, <2>3, <3>1, GaveIsResult, FailureCodes DEF Result
    <3>3. c \in DOMAIN outcome
      BY <1>1, IsSeqFacts DEF RuntimeInv, QueueInv
    <3>4. Gave(c, r)'
      BY <1>1, <2>3, <3>2, <3>3 DEF Gave
    <3>5. QED
      BY <3>1, <3>4 DEF Stored
  <2>4. QED
    BY <2>2, <2>3
<1>3. QED
  BY <1>1, <1>2, QueueKeepsAtomic

(* A step of a task: what a write stores is there when it is given success, and
   every write given success before is an earlier one. *)
LEMMA EntryStored ==
    ASSUME FsInv, NEW w \in Workers, Busy(w), NEW result, FinishEntry(w, result),
           NEW c \in DOMAIN issued, Stored(c)
    PROVE  Stored(c)'
<1>1. \A r : Gave(c, r) => Gave(c, r)'
  BY FinishEntryGives DEF FsInv
<1>2. batch' = [batch EXCEPT ![w] = Batch(batch[w].first, batch[w].last, Append(batch[w].results, result))]
      /\ UNCHANGED <<taken, outcome>>
  BY DEF FinishEntry
<1>3. batch[w] # NoBatch /\ batch = [v \in Workers |-> batch[v]]
  BY BusyFacts DEF FsInv, RuntimeInv, BatchInv
<1>4. /\ batch'[w].first = batch[w].first /\ batch'[w].last = batch[w].last
      /\ \A v \in Workers : v # w => batch'[v] = batch[v]
  BY <1>2, <1>3 DEF Batch
<1>5. Unanswered(c)' => Unanswered(c)
  BY <1>2, <1>3, <1>4 DEF Unanswered
<1>6. QED
  BY <1>1, <1>2, <1>5, StoredStays

LEMMA WrittenAtomic ==
    ASSUME FsInv, FillInv, NEW w \in Workers, Written(w), NEW p \in Paths, p = Path(w),
           Undisturbed(p)'
    PROVE  \E c \in Nat : HoldsWrite(p, c)' /\ NoneAfter(p, c)'
<1> DEFINE from == TmpOf[p]
<1>1. /\ Busy(w) /\ WriteTask(w) /\ from \in Paths /\ FinishEntry(w, Success({}))
      /\ tree' = Renamed(tree, from, p) /\ tree[Opened(w)] = File(Content(w))
      /\ ~IsDir(tree, from) /\ CanRename(tree, from, p)
  BY WrittenFacts
<1>2. PICK c \in Nat : c = Position(w) /\ c \in DOMAIN issued /\ c \in DOMAIN names
  BY <1>1, BusyFacts DEF FsInv, WriteTask, IsOp
<1>3. issued' = issued /\ names' = names /\ NamesStay
  BY <1>1 DEF FinishEntry, Written, RenameWritten, Fail, Finish, NamesStay
<1>4. ~Disturbs(c, p)
  BY <1>2, <1>3, DisturbsStays DEF Undisturbed
<1>5. from # p /\ Opened(w) = from
  <2>1. IsOp(c, "write") /\ PathOf(c) = p /\ FileOf(c) = Opened(w)
    BY <1>1, <1>2 DEF WriteTask, PathOf, FileOf, Path, Opened
  <2>2. QED
    BY <1>4, <2>1 DEF Disturbs
<1>6. tree'[p] = File(issued'[c].payload.content)
  <2>1. tree'[p] = tree[from]
    BY <1>1, <1>5, RenameOfFile DEF FsInv
  <2>2. Content(w) = issued'[c].payload.content
    BY <1>2, <1>3 DEF Content, Current
  <2>3. QED
    BY <1>1, <1>5, <2>1, <2>2
<1>7. WritesTo(c, p)'
  <2>1. WritesTo(c, p)
    BY <1>1, <1>2 DEF WritesTo, PathOf, WriteTask, Path
  <2>2. QED
    BY <1>2, <1>3, <2>1, DisturbsStays
<1>8. Stored(c)'
  <2>1. \E r : Gave(c, r)' /\ r.code = "ok"
    BY <1>1, <1>2, FinishEntryGives, FailureCodes DEF FsInv
  <2>2. QED
    BY <2>1 DEF Stored
<1>9. HoldsWrite(p, c)'
  BY <1>2, <1>3, <1>6, <1>7, <1>8 DEF HoldsWrite
<1>10. NoneAfter(p, c)'
  <2>1. ASSUME NEW i, NEW r, Gave(i, r)' PROVE i =< c
    <3>1. Gave(i, r) \/ i = Position(w)
      BY <1>1, <2>1, FinishEntryInv DEF FsInv
    <3>2. CASE Gave(i, r)
      BY <1>1, <1>2, <3>2, GaveBefore DEF FsInv
    <3>3. QED
      BY <1>2, <3>1, <3>2
  <2>2. QED
    BY <2>1 DEF NoneAfter
<1>11. QED
  BY <1>9, <1>10

(* Only a check adds names, those of the task it checks. *)
LEMMA NamesGrow ==
    ASSUME FsInv, NEW w \in Workers, EffectStep(w) \/ HostFails(w)
    PROVE  /\ NamesStay
           /\ \A i \in DOMAIN names' : i \in DOMAIN names \/ (i = Position(w) /\ UNCHANGED runtimeVars)
<1>1. CASE Check(w)
  <2>1. NamesStay /\ DOMAIN names' = DOMAIN names \cup {Position(w)}
    BY <1>1, CheckKeeps DEF NamesStay
  <2>2. UNCHANGED runtimeVars
    BY <1>1 DEF Check
  <2>3. QED
    BY <2>1, <2>2
<1>2. CASE ~Check(w)
  <2>1. names' = names
    BY <1>2 DEF EffectStep, HostFails, Refuse, Read, List, Stat, Exists, OpenWrite, OpenAppend, OpenCopy,
       Fill, FillEnds, RenameWritten, Move, RemoveFile, RemoveDir, MakeDir, Fail, Finish, Continue
  <2>2. QED
    BY <2>1 DEF NamesStay
<1>3. QED
  BY <1>1, <1>2

LEMMA EffectStepAtomic ==
    ASSUME FsInv, FillInv, AtomicInv, NEW w \in Workers, EffectStep(w) \/ HostFails(w)
    PROVE  AtomicInv'
<1> SUFFICES ASSUME NEW p \in Paths, Undisturbed(p)'
             PROVE  \E c \in Nat : HoldsWrite(p, c)' /\ NoneAfter(p, c)'
  BY DEF AtomicInv
<1>1. Busy(w) /\ RuntimeInv
  BY EffectStepKeeps DEF FsInv
<1>2. CASE Written(w) /\ p = Path(w)
  BY <1>2, WrittenAtomic
<1>3. CASE ~(Written(w) /\ p = Path(w))
  <2>1. UNCHANGED runtimeVars \/ \E result : Answers(w, result)
    BY StepAnswers
  <2>2. issued' = issued
    BY <2>1 DEF runtimeVars, Answers, FinishEntry
  <2>3. Position(w) \in DOMAIN issued
    BY <1>1, BusyFacts
  <2>4. /\ NamesStay
        /\ \A i \in DOMAIN names' : i \in DOMAIN names \/ (i = Position(w) /\ UNCHANGED runtimeVars)
    BY NamesGrow
  <2>5. ~Disturbs(Position(w), p)
    BY <2>2, <2>3, <2>4, UndisturbedBefore DEF Undisturbed
  <2>6. tree'[p] = tree[p]
    BY <1>3, <2>5, ChangesDisturb
  <2>7. ASSUME NEW c \in DOMAIN issued, Stored(c) PROVE Stored(c)'
    <3>1. CASE UNCHANGED runtimeVars
      BY <2>7, <3>1 DEF runtimeVars, Stored, Gave, Unanswered
    <3>2. CASE \E result : Answers(w, result)
      BY <1>1, <2>7, <3>2, EntryStored DEF Answers
    <3>3. QED
      BY <2>1, <3>1, <3>2
  <2>8. ASSUME NEW i \in DOMAIN issued', NEW r, WritesTo(i, p)', Gave(i, r)', r.code = "ok"
        PROVE  i \in DOMAIN issued /\ WritesTo(i, p) /\ Gave(i, r)
    <3>1. UNCHANGED runtimeVars => Gave(i, r) /\ i # Position(w)
      BY <1>1, <2>8, GaveFacts DEF runtimeVars, Gave
    <3>2. i \in DOMAIN names
      BY <2>4, <2>8, <3>1 DEF WritesTo, IsOp
    <3>3. WritesTo(i, p)
      BY <2>2, <2>4, <2>8, <3>2, DisturbsStays
    <3>4. ASSUME NEW result, Answers(w, result), i = Position(w), r = result PROVE FALSE
      <4>1. WriteTask(w) /\ Path(w) = p
        BY <3>3, <3>4 DEF WritesTo, PathOf, WriteTask, Path
      <4>2. QED
        BY <1>3, <2>8, <3>4, <4>1 DEF Answers
    <3>5. CASE \E result : Answers(w, result)
      BY <1>1, <2>2, <2>8, <3>3, <3>4, <3>5, FinishEntryInv DEF Answers
    <3>6. QED
      BY <2>1, <2>2, <3>1, <3>3, <3>5
  <2>9. QED
    BY <2>2, <2>4, <2>6, <2>7, <2>8, AtomicKeeps
<1>4. QED
  BY <1>2, <1>3

-----------------------------------------------------------------------------

WritesInv == FsInv /\ FillInv /\ AtomicInv

LEMMA WritesInvInit == Init => WritesInv
<1> SUFFICES ASSUME Init PROVE WritesInv
  OBVIOUS
<1>1. op = [v \in Workers |-> Idle]
  BY DEF Init
<1>2. QED
  BY <1>1, FsInvInit, AtomicInvInit, IdleFills DEF WritesInv

LEMMA WritesInvNext ==
    ASSUME WritesInv, [Next]_vars
    PROVE  WritesInv'
<1> USE DEF WritesInv
<1>1. FsInv'
  BY FsInvNext
<1>2. CASE Submit /\ UNCHANGED <<tree, op, names>>
  <2>1. UNCHANGED batch /\ \A i \in DOMAIN issued : issued'[i] = issued[i]
    BY <1>2, RunFacadeInv, SubmitEffectInv DEF Submit, FsInv
  <2>2. QED
    BY <1>1, <1>2, <2>1, QueuedFills, SubmitAtomic
<1>3. ASSUME NEW w \in Workers, NEW n, Dispatch(w, n, MaxInflightBatches), UNCHANGED <<tree, op, names>>
      PROVE  WritesInv'
  <2>1. \A v \in Workers : batch[v] = NoBatch
    BY <1>3, DispatchInv DEF MaxInflightBatches, FsInv
  <2>2. op' = [v \in Workers |-> Idle]
    BY <1>3, <2>1 DEF FsInv, OpInv, Busy
  <2>3. FillInv'
    BY <2>2, StepsDiffer DEF FillInv
  <2>4. QED
    BY <1>1, <1>3, <2>3, DispatchAtomic
<1>4. ASSUME NEW w \in Workers, EffectStep(w) \/ HostFails(w) PROVE WritesInv'
  BY <1>1, <1>4, EffectStepFills, EffectStepAtomic
<1>5. ASSUME NEW w \in Workers, Answer(w), UNCHANGED <<tree, op, names>> PROVE WritesInv'
  <2>1. \A v \in Workers : ~Busy(v)
    BY <1>5, BusyFacts DEF Answer, FsInv
  <2>2. op' = [v \in Workers |-> Idle]
    BY <1>5, <2>1 DEF FsInv, OpInv
  <2>3. FillInv'
    BY <2>2, StepsDiffer DEF FillInv
  <2>4. QED
    BY <1>1, <1>5, <2>3, AnswerAtomic
<1>6. CASE Crash /\ op' = [w \in Workers |-> Idle] /\ UNCHANGED <<tree, names>>
  <2>1. FillInv'
    BY <1>6, StepsDiffer DEF FillInv
  <2>2. QED
    BY <1>1, <1>6, <2>1, CrashAtomic
<1>7. CASE UNCHANGED vars
  <2>1. UNCHANGED <<runtimeVars, tree, op, names, issued, batch>>
    BY <1>7 DEF vars, runtimeVars
  <2>2. FillInv'
    BY <2>1, QueuedFills
  <2>3. \A c : Stored(c) => Stored(c)'
    BY <2>1 DEF runtimeVars, Stored, Gave, Unanswered
  <2>4. \A i, r : Gave(i, r)' => Gave(i, r)
    BY <2>1 DEF runtimeVars, Gave
  <2>5. AtomicInv'
    BY <2>1, <2>3, <2>4, QueueKeepsAtomic
  <2>6. QED
    BY <1>1, <2>2, <2>5
<1>8. QED
  BY <1>2, <1>3, <1>4, <1>5, <1>6, <1>7 DEF Next

(* The last write answered with success is the one the file holds, unless a
   later one is under way or was lost. *)
AnsweredWrites(p) ==
    {i \in DOMAIN issued : WritesTo(i, p) /\ outcome[i] # NoResult /\ outcome[i].code = "ok"}
HoldsLast(p, last) ==
    \/ tree[p] = IF last = 0 THEN InitTree[p] ELSE File(issued[last].payload.content)
    \/ \E i \in DOMAIN issued :
          /\ i > last /\ WritesTo(i, p) /\ outcome[i] = NoResult
          /\ tree[p] = File(issued[i].payload.content)

LEMMA AtomicAnswered ==
    ASSUME WritesInv, NEW p \in Paths, Undisturbed(p)
    PROVE  HoldsLast(p, Max(AnsweredWrites(p) \cup {0}))
<1> DEFINE answered == AnsweredWrites(p)
           last == Max(answered \cup {0})
<1>1. PICK c \in Nat : HoldsWrite(p, c) /\ NoneAfter(p, c)
  BY DEF WritesInv, AtomicInv
<1>2. /\ RuntimeInv /\ DOMAIN outcome = DOMAIN issued
      /\ \A i \in DOMAIN issued : i \in Nat /\ i > 0
  BY IsSeqFacts DEF WritesInv, FsInv, RuntimeInv, QueueInv
<1>3. \A i \in answered : i =< c
  BY <1>1, <1>2 DEF NoneAfter, Gave, AnsweredWrites
<1>4. answered \cup {0} \subseteq 0 .. c
  BY <1>2, <1>3 DEF AnsweredWrites
<1>5. last \in answered \cup {0} /\ \A y \in answered \cup {0} : y =< last
  BY <1>4, MaxFacts
<1>6. last \in Nat /\ last =< c
  BY <1>4, <1>5
<1> SUFFICES HoldsLast(p, last)
  OBVIOUS
<1> HIDE DEF last
<1>7. CASE c = 0
  <2>1. last = 0 /\ c \notin DOMAIN issued
    BY <1>2, <1>6, <1>7
  <2>2. QED
    BY <1>1, <1>7, <2>1 DEF HoldsWrite, HoldsLast
<1>8. CASE c \in answered
  <2>1. last = c
    BY <1>5, <1>6, <1>8
  <2>2. QED
    BY <1>1, <1>2, <1>8, <2>1 DEF HoldsWrite, HoldsLast, AnsweredWrites
<1>9. CASE c # 0 /\ c \notin answered
  <2>1. /\ c \in DOMAIN issued /\ WritesTo(c, p) /\ tree[p] = File(issued[c].payload.content)
        /\ Stored(c)
    BY <1>1, <1>9 DEF HoldsWrite
  <2>2. outcome[c] = NoResult
    <3>1. ASSUME NEW r, Gave(c, r), r.code = "ok", outcome[c] # NoResult PROVE FALSE
      <4>1. outcome[c] = r
        BY <1>2, <3>1, GaveIsResult, FailureCodes DEF Result
      <4>2. QED
        BY <1>9, <2>1, <3>1, <4>1 DEF AnsweredWrites
    <3>2. QED
      BY <2>1, <3>1 DEF Stored
  <2>3. last # c
    BY <1>5, <1>9
  <2>4. c > last
    BY <1>6, <2>3
  <2>5. QED
    BY <2>1, <2>2, <2>4 DEF HoldsLast
<1>10. QED
  BY <1>7, <1>8, <1>9

(* Whatever tasks, threads, failures of the host and crashes there are: a file
   that only writes touch is never torn. It holds what the last write answered
   with success stored, or, whole, what a later one stored that was not answered
   (atomic_write, lib.rs:417). *)
THEOREM WritesAtomic == Spec => []WritesAreAtomic
<1>1. WritesInv => WritesAreAtomic
  BY AtomicAnswered DEF WritesAreAtomic, Undisturbed, AnsweredWrites, HoldsLast
<1>2. QED
  BY <1>1, WritesInvInit, WritesInvNext, PTL DEF Spec
=============================================================================
