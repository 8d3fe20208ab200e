-------------------------- MODULE RecordDiff_proofs --------------------------
(***************************************************************************)
(* Proofs about RecordDiff, for every set of values, certificates and      *)
(* committed states.                                                       *)
(*                                                                         *)
(*   DearestDifference   the class is the dearest one among those the      *)
(*                       reported keys and the certificate call for        *)
(*   DiffExact           the keys reported are the keys that differ: the   *)
(*                       file of a state is laid out in blocks, one for    *)
(*                       each key, and after any number of lines awk holds *)
(*                       a prefix of every key's values                    *)
(*   ClassSuffices       the class is not cheaper than that of the         *)
(*                       settings read from the two states                 *)
(*                                                                         *)
(* FlattenSeq and the orders of keys are folded over sequences of any      *)
(* length: what holds of the first m blocks is shown for every m by the    *)
(* least one it would fail for (AllUpTo).                                  *)
(***************************************************************************)
EXTENDS RecordDiff, TLAPS, FiniteSetTheorems, FunctionTheorems, SequenceTheorems

\* The greater of two classes is one of them and as dear as either.
LEMMA MaxClassIsMax ==
  ASSUME NEW a \in Classes, NEW b \in Classes
  PROVE  /\ MaxClass(a, b) \in {a, b}
         /\ RankOfClass(MaxClass(a, b)) >= RankOfClass(a)
         /\ RankOfClass(MaxClass(a, b)) >= RankOfClass(b)
BY DEF Classes, MaxClass, RankOfClass

LEMMA RankIsNat == \A c \in Classes : RankOfClass(c) \in Nat
BY DEF Classes, RankOfClass

LEMMA KeyClass == \A k : ClassForKey(k) \in Classes
BY DEF ClassForKey, Classes

\* What the keys looked at so far call for.
Called == {ClassForKey(k) : k \in reported \ todo}

Pending ==
  /\ at \in {"awk", "keys", "cert", "done"}
  /\ class \in Classes
  /\ todo \subseteq reported
  /\ at = "awk" => reported = {} /\ todo = {} /\ class = "noop"
  /\ at \in {"cert", "done"} => todo = {}

\* The class follows the keys looked at, and at the end the certificate.
Follows ==
  at \in {"awk", "keys", "cert"} =>
    /\ \A c \in Called : RankOfClass(class) >= RankOfClass(c)
    /\ class \in Called \cup {"noop"}

DearestInv == Pending /\ Follows /\ DearestDecides

LEMMA DearestInit == Init => DearestInv
BY DEF Init, DearestInv, Pending, Follows, Called, DearestDecides, Classes

LEMMA DearestStep == DearestInv /\ [Next]_vars => DearestInv'
<1> SUFFICES ASSUME DearestInv, [Next]_vars PROVE DearestInv'
    OBVIOUS
<1>1. ASSUME ReadLine \/ NextFile PROVE DearestInv'
  BY <1>1 DEF ReadLine, NextFile, DearestInv, Pending, Follows, Called,
              DearestDecides
<1>2. CASE EndOfInput
  BY <1>2 DEF EndOfInput, DearestInv, Pending, Follows, Called,
              DearestDecides, Classes
<1>3. CASE ClassifyKey
  <2>1. CASE todo = {}
    BY <1>3, <2>1 DEF ClassifyKey, DearestInv, Pending, Follows, Called,
                      DearestDecides
  <2>2. CASE todo # {}
    <3> DEFINE k == CHOOSE x \in todo : TRUE
    <3>1. k \in todo
      BY <2>2
    <3>2. /\ class' = MaxClass(class, ClassForKey(k))
          /\ todo' = todo \ {k}
          /\ at = "keys" /\ at' = at /\ reported' = reported
      BY <1>3, <2>2 DEF ClassifyKey
    <3> HIDE DEF k
    <3>3. k \in reported
      BY <3>1 DEF DearestInv, Pending
    <3>4. Called' = Called \cup {ClassForKey(k)}
      BY <3>1, <3>2, <3>3 DEF Called
    <3>5. class \in Classes /\ ClassForKey(k) \in Classes
      BY KeyClass DEF DearestInv, Pending
    <3>6. /\ class' \in {class, ClassForKey(k)}
          /\ RankOfClass(class') >= RankOfClass(class)
          /\ RankOfClass(class') >= RankOfClass(ClassForKey(k))
      BY <3>2, <3>5, MaxClassIsMax
    <3>7. class' \in Called' \cup {"noop"}
      BY <3>2, <3>4, <3>6 DEF DearestInv, Follows
    <3>8. ASSUME NEW c \in Called'
          PROVE  RankOfClass(class') >= RankOfClass(c)
      <4>1. CASE c = ClassForKey(k)
        BY <3>6, <4>1
      <4>2. CASE c \in Called
        <5>1. RankOfClass(class) >= RankOfClass(c)
          BY <3>2, <4>2 DEF DearestInv, Follows
        <5>2. c \in Classes /\ class' \in Classes
          BY <3>5, <3>6, <4>2, KeyClass DEF Called
        <5> QED BY <3>5, <3>6, <5>1, <5>2, RankIsNat
      <4> QED BY <3>4, <3>8, <4>1, <4>2
    <3>9. class' \in Classes
      BY <3>5, <3>6
    <3> QED BY <3>2, <3>7, <3>8, <3>9
            DEF DearestInv, Pending, Follows, DearestDecides
  <2> QED BY <2>1, <2>2
<1>4. CASE CompareCert
  <2>1. /\ at = "cert" /\ at' = "done" /\ todo = {} /\ todo' = {}
        /\ class \in Classes
        /\ UNCHANGED <<old, new, reported>>
        /\ Called = {ClassForKey(k) : k \in reported}
        /\ \A c \in Called : RankOfClass(class) >= RankOfClass(c)
        /\ class \in Called \cup {"noop"}
    BY <1>4 DEF CompareCert, DearestInv, Pending, Follows, Called
  <2>2. CASE old.cert = new.cert
    <3>1. class' = class
      BY <1>4, <2>2 DEF CompareCert
    <3> QED BY <2>1, <2>2, <3>1
            DEF DearestInv, Pending, Follows, DearestDecides, Dearest
  <2>3. CASE old.cert # new.cert
    <3>1. class' = MaxClass(class, "restart") /\ "restart" \in Classes
      BY <1>4, <2>3 DEF CompareCert, Classes
    <3>2. /\ class' \in {class, "restart"} /\ class' \in Classes
          /\ RankOfClass(class') >= RankOfClass(class)
          /\ RankOfClass(class') >= RankOfClass("restart")
      BY <2>1, <3>1, MaxClassIsMax
    <3>3. ASSUME NEW c \in Called
          PROVE  RankOfClass(class') >= RankOfClass(c)
      <4>1. c \in Classes /\ RankOfClass(class) >= RankOfClass(c)
        BY <2>1, KeyClass DEF Called
      <4> QED BY <2>1, <3>2, <4>1, RankIsNat
    <3>4. Dearest'
      BY <2>1, <2>3, <3>2, <3>3 DEF Dearest
    <3> QED BY <2>1, <3>2, <3>4 DEF DearestInv, Pending, Follows, DearestDecides
  <2> QED BY <2>2, <2>3
<1>5. CASE UNCHANGED vars
  BY <1>5 DEF vars, DearestInv, Pending, Follows, Called, DearestDecides,
              Dearest
<1> QED BY <1>1, <1>2, <1>3, <1>4, <1>5 DEF Next

\* The dearest difference decides the apply and nothing dearer is done, for
\* any two files and certificates (class_of_diff and apply_config).
THEOREM DearestDifference == Spec => []DearestDecides
<1>1. DearestInv => DearestDecides
  BY DEF DearestInv
<1> QED BY <1>1, DearestInit, DearestStep, PTL DEF Spec
-----------------------------------------------------------------------------
(* Lists laid end to end.                                                   *)

\* Induction, for a set of numbers: the least one missing cannot be 1, nor come
\* after one that is there.
LEMMA AllUpTo ==
  ASSUME NEW n \in Nat, NEW T, 1 \in T, \A i \in T : i < n => i + 1 \in T
  PROVE  1 .. n \subseteq T
<1> SUFFICES ASSUME ~(1 .. n \subseteq T)
             PROVE  FALSE
  OBVIOUS
<1> DEFINE missing == {i \in 1 .. n : i \notin T}
           upTo == {1 .. i : i \in missing}
<1>1. IsFiniteSet(1 .. n)
  BY FS_Interval
<1>2. IsWellFoundedOn(StrictSubsetOrdering(1 .. n), SUBSET (1 .. n))
  BY <1>1, FS_StrictSubsetOrderingWellFounded, FS_FiniteSubsetsOfFinite
<1>3. upTo \subseteq SUBSET (1 .. n) /\ upTo # {}
  <2>1. \A i \in missing : 1 .. i \subseteq 1 .. n
    OBVIOUS
  <2> QED
    BY <2>1
<1>4. PICK x \in upTo :
        \A y \in upTo : ~(<<y, x>> \in StrictSubsetOrdering(1 .. n))
  <2> HIDE DEF upTo
  <2> QED
    BY <1>2, <1>3, WFMin
<1>5. PICK i \in missing : x = 1 .. i
  BY <1>4
<1>6. i - 1 \in missing
  <2>1. i \in 1 .. n /\ i \notin T /\ i # 1
    BY <1>5
  <2>2. i - 1 \in 1 .. n /\ i - 1 < n /\ (i - 1) + 1 = i
    BY <2>1
  <2> QED
    BY <2>1, <2>2
<1>7. 1 .. (i - 1) \in upTo /\ 1 .. i \in upTo
  BY <1>5, <1>6
<1>8. 1 .. (i - 1) \subseteq 1 .. i /\ i \in 1 .. i /\ i \notin 1 .. (i - 1)
  OBVIOUS
<1>9. <<1 .. (i - 1), 1 .. i>> \in StrictSubsetOrdering(1 .. n)
  BY <1>3, <1>7, <1>8 DEF StrictSubsetOrdering
<1> QED
  BY <1>4, <1>5, <1>7, <1>9

\* What the recursion of FlattenSeq computes.
Flattens(g, n, seqs) ==
  g = [i \in 1 .. n |-> IF i = 1 THEN seqs[i] ELSE g[i-1] \o seqs[i]]

LEMMA FlattenExists ==
  ASSUME NEW n \in Nat, n > 0, NEW seqs
  PROVE  \E g : Flattens(g, n, seqs)
<1> DEFINE T == {m \in 1 .. n : \E g : Flattens(g, m, seqs)}
<1>1. 1 \in T
  <2>1. Flattens([i \in 1 .. 1 |-> seqs[i]], 1, seqs)
    BY DEF Flattens
  <2> QED
    BY <2>1
<1>2. ASSUME NEW m \in T, m < n
      PROVE  m + 1 \in T
  <2>1. PICK g : Flattens(g, m, seqs)
    BY <1>2
  <2> DEFINE h == [i \in 1 .. (m + 1) |-> IF i = m + 1 THEN g[m] \o seqs[i] ELSE g[i]]
  <2>2. m \in 1 .. n /\ m + 1 # 1 /\ (m + 1) - 1 = m /\ m + 1 \in 1 .. n
    BY <1>2
  <2>3. \A i \in 1 .. m : h[i] = g[i]
    BY <2>2
  <2>4. \A i \in 1 .. m : g[i] = IF i = 1 THEN seqs[i] ELSE g[i-1] \o seqs[i]
    BY <2>1, <2>2 DEF Flattens
  <2>5. ASSUME NEW i \in 1 .. (m + 1)
        PROVE  h[i] = IF i = 1 THEN seqs[i] ELSE h[i-1] \o seqs[i]
    <3>1. CASE i = m + 1
      <4>0. m \in 1 .. m
        BY <2>2
      <4>1. h[i] = g[m] \o seqs[i] /\ h[m] = g[m]
        <5>1. h[i] = g[m] \o seqs[i]
          BY <3>1
        <5>2. h[m] = g[m]
          BY <2>3, <4>0
        <5> QED
          BY <5>1, <5>2
      <4>2. i # 1 /\ i - 1 = m
        BY <2>2, <3>1
      <4> HIDE DEF h
      <4> QED
        BY <4>1, <4>2
    <3>2. CASE i # m + 1
      <4>1. i \in 1 .. m /\ (i # 1 => i - 1 \in 1 .. m)
        BY <2>2, <3>2
      <4> QED
        BY <2>3, <2>4, <4>1
    <3> QED
      BY <3>1, <3>2
  <2>6. Flattens(h, m + 1, seqs)
    BY <2>5 DEF Flattens
  <2> QED
    BY <2>2, <2>6
<1>3. 1 .. n \subseteq T
  <2> HIDE DEF T
  <2> QED
    BY <1>1, <1>2, AllUpTo
<1> QED
  BY <1>3

LEMMA FlattenGives ==
  ASSUME NEW seqs, Len(seqs) \in Nat, Len(seqs) > 0
  PROVE  \E g : /\ FlattenSeq(seqs) = g[Len(seqs)]
                /\ g[1] = seqs[1]
                /\ \A i \in 1 .. Len(seqs) : i # 1 => g[i] = g[i-1] \o seqs[i]
<1> DEFINE n == Len(seqs)
           f == CHOOSE g : Flattens(g, n, seqs)
<1>1. FlattenSeq(seqs) = f[n]
  BY DEF FlattenSeq, Flattens
<1>2. Flattens(f, n, seqs)
  BY FlattenExists
<1> HIDE DEF f
<1>3. /\ f[1] = seqs[1]
      /\ \A i \in 1 .. n : i # 1 => f[i] = f[i-1] \o seqs[i]
  <2>1. ASSUME NEW i \in 1 .. n
        PROVE  f[i] = IF i = 1 THEN seqs[i] ELSE f[i-1] \o seqs[i]
    BY <1>2 DEF Flattens
  <2>2. 1 \in 1 .. n
    OBVIOUS
  <2> QED
    BY <2>1, <2>2
<1> QED
  BY <1>1, <1>3
\* The first m blocks in a file, each where start says, and nothing else in it.
Placed(file, blocks, m, start) ==
  /\ start \in [1 .. m -> Nat]
  /\ \A i \in 1 .. m :
       /\ start[i] + Len(blocks[i]) <= Len(file)
       /\ \A j \in 1 .. Len(blocks[i]) : file[start[i] + j] = blocks[i][j]
  /\ \A p \in 1 .. Len(file) :
       \E i \in 1 .. m : \E j \in 1 .. Len(blocks[i]) : p = start[i] + j

\* One block more.
LEMMA PlaceNext ==
  ASSUME NEW S, NEW m \in Nat, NEW blocks, NEW file \in Seq(S),
         \A i \in 1 .. (m + 1) : blocks[i] \in Seq(S),
         NEW start, Placed(file, blocks, m, start)
  PROVE  \E next : Placed(file \o blocks[m + 1], blocks, m + 1, next)
<1> DEFINE b == blocks[m + 1]
           next == [i \in 1 .. (m + 1) |-> IF i = m + 1 THEN Len(file) ELSE start[i]]
<1>1. m + 1 \in 1 .. (m + 1) /\ 1 .. m \subseteq 1 .. (m + 1) /\ m + 1 \notin 1 .. m
      /\ \A i \in 1 .. (m + 1) : i = m + 1 \/ i \in 1 .. m
  OBVIOUS
<1>2. b \in Seq(S) /\ Len(b) \in Nat /\ Len(file) \in Nat
  BY <1>1
<1>3. /\ Len(file \o b) = Len(file) + Len(b)
      /\ \A p \in 1 .. Len(file) + Len(b) :
           (file \o b)[p] = IF p <= Len(file) THEN file[p] ELSE b[p - Len(file)]
  BY <1>2, ConcatProperties
<1>4. /\ next \in [1 .. (m + 1) -> Nat] /\ next[m + 1] = Len(file)
      /\ \A i \in 1 .. m : next[i] = start[i]
  BY <1>1, <1>2 DEF Placed
<1>5. \A i \in 1 .. m : start[i] \in Nat /\ blocks[i] \in Seq(S) /\ Len(blocks[i]) \in Nat
  BY <1>1 DEF Placed
<1> HIDE DEF b, next
<1> DEFINE both == file \o b
<1>6. \A p \in 1 .. Len(file) : both[p] = file[p]
  BY <1>2, <1>3
<1>7. \A j \in 1 .. Len(b) : both[Len(file) + j] = b[j]
  <2> TAKE j \in 1 .. Len(b)
  <2>1. /\ Len(file) + j \in 1 .. Len(file) + Len(b) /\ ~(Len(file) + j <= Len(file))
        /\ (Len(file) + j) - Len(file) = j
    BY <1>2
  <2> QED
    BY <1>3, <2>1
<1> HIDE DEF both
<1>8. ASSUME NEW i \in 1 .. (m + 1)
      PROVE  /\ next[i] + Len(blocks[i]) <= Len(both)
             /\ \A j \in 1 .. Len(blocks[i]) : both[next[i] + j] = blocks[i][j]
  <2>1. CASE i = m + 1
    <3>1. blocks[i] = b /\ next[i] = Len(file)
      BY <1>4, <2>1 DEF b
    <3>2. Len(both) = Len(file) + Len(b)
      BY <1>3 DEF both
    <3> QED
      BY <1>2, <1>7, <3>1, <3>2
  <2>2. CASE i \in 1 .. m
    <3>1. start[i] + Len(blocks[i]) <= Len(file)
      BY <2>2 DEF Placed
    <3>2. ASSUME NEW j \in 1 .. Len(blocks[i])
          PROVE  both[start[i] + j] = blocks[i][j]
      <4>1. start[i] + j \in 1 .. Len(file)
        BY <1>2, <1>5, <2>2, <3>1
      <4> QED
        BY <1>6, <2>2, <4>1 DEF Placed
    <3>3. next[i] = start[i] /\ Len(both) = Len(file) + Len(b)
      BY <1>3, <1>4, <2>2 DEF both
    <3>4. Len(file) <= Len(both)
      BY <1>2, <3>3
    <3>5. start[i] + Len(blocks[i]) <= Len(both)
      <4>1. \A x, y, z \in Nat : x <= y /\ y <= z => x <= z
        OBVIOUS
      <4>2. start[i] + Len(blocks[i]) \in Nat /\ Len(both) \in Nat
        BY <1>2, <1>5, <2>2, <3>3
      <4> QED
        BY <1>2, <3>1, <3>4, <4>1, <4>2
    <3> QED
      BY <3>2, <3>3, <3>5
  <2> QED
    BY <1>1, <2>1, <2>2
<1>9. ASSUME NEW p \in 1 .. Len(both)
      PROVE  \E i \in 1 .. (m + 1) : \E j \in 1 .. Len(blocks[i]) : p = next[i] + j
  <2>1. CASE p <= Len(file)
    <3>1. PICK i \in 1 .. m : \E j \in 1 .. Len(blocks[i]) : p = start[i] + j
      BY <2>1 DEF Placed
    <3> QED
      BY <1>1, <1>4, <3>1
  <2>2. CASE ~(p <= Len(file))
    <3>1. p - Len(file) \in 1 .. Len(b) /\ p = Len(file) + (p - Len(file))
      BY <1>2, <1>3, <2>2 DEF both
    <3> QED
      BY <1>1, <1>4, <3>1 DEF b
  <2> QED
    BY <2>1, <2>2
<1>10. Placed(both, blocks, m + 1, next)
  BY <1>4, <1>8, <1>9 DEF Placed
<1> QED
  BY <1>10 DEF both, b

LEMMA FlattenPlaces ==
  ASSUME NEW S, NEW blocks \in Seq(Seq(S)), Len(blocks) > 0
  PROVE  /\ FlattenSeq(blocks) \in Seq(S)
         /\ \E start : Placed(FlattenSeq(blocks), blocks, Len(blocks), start)
<1> DEFINE n == Len(blocks)
<1>1. n \in Nat /\ \A i \in 1 .. n : blocks[i] \in Seq(S)
  OBVIOUS
<1>2. PICK g : /\ FlattenSeq(blocks) = g[n]
               /\ g[1] = blocks[1]
               /\ \A i \in 1 .. n : i # 1 => g[i] = g[i-1] \o blocks[i]
  BY <1>1, FlattenGives
<1> HIDE DEF n
<1> DEFINE T == {m \in 1 .. n : g[m] \in Seq(S) /\ \E start : Placed(g[m], blocks, m, start)}
<1>3. 1 \in T
  <2>1. 1 \in 1 .. n /\ blocks[1] \in Seq(S) /\ Len(blocks[1]) \in Nat
    BY <1>1 DEF n
  <2> DEFINE start == [i \in 1 .. 1 |-> 0]
  <2>2. start \in [1 .. 1 -> Nat] /\ start[1] = 0 /\ \A i \in 1 .. 1 : i = 1
    OBVIOUS
  <2> HIDE DEF start
  <2>3. \A j \in 1 .. Len(blocks[1]) : start[1] + j = j
    BY <2>1, <2>2
  <2>4. Placed(blocks[1], blocks, 1, start)
    BY <2>1, <2>2, <2>3 DEF Placed
  <2> QED
    BY <1>2, <2>1, <2>4
<1>4. ASSUME NEW m \in T, m < n
      PROVE  m + 1 \in T
  <2>1. /\ m \in Nat /\ m + 1 \in 1 .. n /\ m + 1 # 1 /\ (m + 1) - 1 = m
        /\ 1 .. (m + 1) \subseteq 1 .. n
    BY <1>1, <1>4
  <2>2. g[m + 1] = g[m] \o blocks[m + 1]
    BY <1>2, <2>1
  <2>3. g[m] \in Seq(S) /\ \A i \in 1 .. (m + 1) : blocks[i] \in Seq(S)
    BY <1>1, <1>4, <2>1
  <2>4. PICK start : Placed(g[m], blocks, m, start)
    BY <1>4
  <2>5. \E next : Placed(g[m + 1], blocks, m + 1, next)
    BY <2>1, <2>2, <2>3, <2>4, PlaceNext
  <2>6. g[m + 1] \in Seq(S)
    BY <2>1, <2>2, <2>3, ConcatProperties
  <2> QED
    BY <2>1, <2>5, <2>6
<1>5. 1 .. n \subseteq T
  <2> HIDE DEF T
  <2> QED
    BY <1>1, <1>3, <1>4, AllUpTo
<1> QED
  BY <1>1, <1>2, <1>5 DEF n
-----------------------------------------------------------------------------
(* The order of the keys names each of them once.                           *)

Options ==
  {"enabled", "log_level", "mode", "name", "hostname", "username", "password",
   "protocol", "anti_dpi", "post_quantum", "skip_verification", "has_ipv6",
   "custom_sni", "client_random", "routing_profile", "address", "dns_upstream",
   "vpn_rules", "bypass_rules", "mtu", "table", "fwmark", "blackhole_on_down",
   "include_router_traffic", "lan_devices", "direct"}

SectionNames ==
  {"main", "endpoint", "routing_profile", "network", "proxy", "domains"}

NoRepeats(s) == \A i, j \in DOMAIN s : s[i] = s[j] => i = j

\* Keys of some sections, each once.
KeysOf(s, names) ==
  /\ s \in Seq(SectionNames \X Options) /\ Len(s) > 0
  /\ NoRepeats(s)
  /\ \A i \in DOMAIN s : s[i][1] \in names

LEMMA OneSection ==
  ASSUME NEW name \in SectionNames, NEW options \in Seq(Options), Len(options) > 0,
         NoRepeats(options)
  PROVE  KeysOf(Section(name, options), {name})
<1>1. /\ DOMAIN options = 1 .. Len(options) /\ Len(options) \in Nat
      /\ \A i \in 1 .. Len(options) : options[i] \in Options
  OBVIOUS
<1>2. Section(name, options) = [i \in 1 .. Len(options) |-> <<name, options[i]>>]
  BY <1>1 DEF Section
<1>3. Section(name, options) \in Seq(SectionNames \X Options)
  BY <1>1, <1>2
<1>4. Len(Section(name, options)) = Len(options)
  BY <1>1, <1>2
<1> QED
  BY <1>1, <1>2, <1>3, <1>4 DEF KeysOf, NoRepeats

LEMMA MoreSections ==
  ASSUME NEW A, NEW B, NEW s, NEW t, KeysOf(s, A), KeysOf(t, B), A \cap B = {}
  PROVE  KeysOf(s \o t, A \cup B)
<1> DEFINE S == SectionNames \X Options
           u == s \o t
<1>1. /\ s \in Seq(S) /\ t \in Seq(S) /\ Len(s) \in Nat /\ Len(t) \in Nat /\ Len(s) > 0
      /\ DOMAIN s = 1 .. Len(s) /\ DOMAIN t = 1 .. Len(t)
  BY DEF KeysOf
<1>2. /\ u \in Seq(S) /\ Len(u) = Len(s) + Len(t) /\ DOMAIN u = 1 .. Len(u)
      /\ \A i \in 1 .. Len(s) + Len(t) :
           u[i] = IF i <= Len(s) THEN s[i] ELSE t[i - Len(s)]
  BY <1>1, ConcatProperties
<1> HIDE DEF u, S
<1>3. ASSUME NEW i \in DOMAIN u
      PROVE  \/ i \in DOMAIN s /\ u[i] = s[i] /\ u[i][1] \in A
             \/ i - Len(s) \in DOMAIN t /\ u[i] = t[i - Len(s)] /\ u[i][1] \in B
  <2>1. CASE i <= Len(s)
    <3>1. i \in DOMAIN s /\ u[i] = s[i]
      BY <1>1, <1>2, <2>1
    <3> QED
      BY <3>1 DEF KeysOf
  <2>2. CASE ~(i <= Len(s))
    <3>1. i - Len(s) \in DOMAIN t /\ u[i] = t[i - Len(s)]
      BY <1>1, <1>2, <2>2
    <3> QED
      BY <3>1 DEF KeysOf
  <2> QED
    BY <2>1, <2>2
<1>4. ASSUME NEW i \in DOMAIN u, NEW j \in DOMAIN u, u[i] = u[j]
      PROVE  i = j
  <2>1. CASE i \in DOMAIN s /\ u[i] = s[i] /\ j \in DOMAIN s /\ u[j] = s[j]
    BY <1>4, <2>1 DEF KeysOf, NoRepeats
  <2>2. CASE /\ i - Len(s) \in DOMAIN t /\ u[i] = t[i - Len(s)]
             /\ j - Len(s) \in DOMAIN t /\ u[j] = t[j - Len(s)]
    <3>1. i - Len(s) = j - Len(s)
      BY <1>4, <2>2 DEF KeysOf, NoRepeats
    <3> QED
      BY <1>1, <1>2, <3>1
  <2> QED
    BY <1>3, <1>4, <2>1, <2>2
<1>5. \A i \in DOMAIN u : u[i][1] \in A \cup B
  BY <1>3
<1> QED
  BY <1>1, <1>2, <1>4, <1>5 DEF KeysOf, NoRepeats, u, S

\* The keys by which the settings are read one by one.
SingleKeys ==
  {<<"main", "enabled">>, <<"main", "log_level">>, <<"main", "mode">>,
   <<"network", "mtu">>, <<"network", "table">>, <<"network", "fwmark">>,
   <<"network", "blackhole_on_down">>}

LEMMA BothParts ==
  ASSUME NEW A, NEW B, NEW s, NEW t, KeysOf(s, A), KeysOf(t, B)
  PROVE  ToSet(s) \subseteq ToSet(s \o t) /\ ToSet(t) \subseteq ToSet(s \o t)
<1> DEFINE S == SectionNames \X Options
           u == s \o t
<1>1. /\ s \in Seq(S) /\ t \in Seq(S) /\ Len(s) \in Nat /\ Len(t) \in Nat
      /\ DOMAIN s = 1 .. Len(s) /\ DOMAIN t = 1 .. Len(t)
  BY DEF KeysOf
<1>2. /\ u \in Seq(S) /\ Len(u) = Len(s) + Len(t) /\ DOMAIN u = 1 .. Len(u)
      /\ \A i \in 1 .. Len(s) + Len(t) :
           u[i] = IF i <= Len(s) THEN s[i] ELSE t[i - Len(s)]
  BY <1>1, ConcatProperties
<1> HIDE DEF u, S
<1>3. ASSUME NEW i \in DOMAIN s
      PROVE  i \in DOMAIN u /\ u[i] = s[i]
  BY <1>1, <1>2
<1>4. ASSUME NEW i \in DOMAIN t
      PROVE  Len(s) + i \in DOMAIN u /\ u[Len(s) + i] = t[i]
  <2>1. /\ i \in Nat /\ i > 0 /\ i <= Len(t) /\ Len(s) + i \in 1 .. Len(u)
        /\ ~(Len(s) + i <= Len(s)) /\ (Len(s) + i) - Len(s) = i
    BY <1>1, <1>2
  <2> QED
    BY <1>2, <2>1
<1> QED
  BY <1>3, <1>4 DEF ToSet, u

LEMMA KeyOrderOnce ==
  /\ KeyOrder \in Seq(Keys) /\ Len(KeyOrder) > 0
  /\ NoRepeats(KeyOrder)
  /\ SingleKeys \subseteq Keys
<1> DEFINE main == <<"enabled", "log_level", "mode">>
           endpoint == <<"name", "hostname", "username", "password", "protocol",
             "anti_dpi", "post_quantum", "skip_verification", "has_ipv6", "custom_sni",
             "client_random", "routing_profile", "address", "dns_upstream">>
           profile == <<"name", "mode", "vpn_rules", "bypass_rules">>
           network == <<"mtu", "table", "fwmark", "blackhole_on_down",
             "include_router_traffic", "lan_devices">>
           proxy == <<"address", "username", "password">>
           domains == <<"direct">>
<1>1. KeysOf(Section("main", main), {"main"})
  <2>1. main \in Seq(Options) /\ Len(main) > 0 /\ NoRepeats(main)
    BY DEF Options, NoRepeats
  <2> QED
    BY <2>1, OneSection DEF SectionNames
<1>2. KeysOf(Section("endpoint", endpoint), {"endpoint"})
  <2>1. endpoint \in Seq(Options) /\ Len(endpoint) > 0
    BY DEF Options
  <2>2. NoRepeats(endpoint)
    BY DEF NoRepeats
  <2> QED
    BY <2>1, <2>2, OneSection DEF SectionNames
<1>3. KeysOf(Section("routing_profile", profile), {"routing_profile"})
  <2>1. profile \in Seq(Options) /\ Len(profile) > 0 /\ NoRepeats(profile)
    BY DEF Options, NoRepeats
  <2> QED
    BY <2>1, OneSection DEF SectionNames
<1>4. KeysOf(Section("network", network), {"network"})
  <2>1. network \in Seq(Options) /\ Len(network) > 0 /\ NoRepeats(network)
    BY DEF Options, NoRepeats
  <2> QED
    BY <2>1, OneSection DEF SectionNames
<1>5. KeysOf(Section("proxy", proxy), {"proxy"})
  <2>1. proxy \in Seq(Options) /\ Len(proxy) > 0 /\ NoRepeats(proxy)
    BY DEF Options, NoRepeats
  <2> QED
    BY <2>1, OneSection DEF SectionNames
<1>6. KeysOf(Section("domains", domains), {"domains"})
  <2>1. domains \in Seq(Options) /\ Len(domains) > 0 /\ NoRepeats(domains)
    BY DEF Options, NoRepeats
  <2> QED
    BY <2>1, OneSection DEF SectionNames
<1> DEFINE a == Section("main", main)
           b == Section("endpoint", endpoint)
           c == Section("routing_profile", profile)
           d == Section("network", network)
           e == Section("proxy", proxy)
           f == Section("domains", domains)
<1>7. KeyOrder = a \o b \o c \o d \o e \o f
  BY DEF KeyOrder
<1> HIDE DEF a, b, c, d, e, f, main, endpoint, profile, network, proxy, domains
<1>8. KeysOf(a \o b, {"main", "endpoint"})
  <2>1. KeysOf(a \o b, {"main"} \cup {"endpoint"})
    BY <1>1, <1>2, MoreSections DEF a, b
  <2>2. {"main"} \cup {"endpoint"} = {"main", "endpoint"}
    OBVIOUS
  <2> QED
    BY <2>1, <2>2
<1>9. KeysOf(a \o b \o c, {"main", "endpoint", "routing_profile"})
  <2>1. KeysOf(a \o b \o c, {"main", "endpoint"} \cup {"routing_profile"})
    BY <1>3, <1>8, MoreSections DEF c
  <2>2. {"main", "endpoint"} \cup {"routing_profile"} = {"main", "endpoint", "routing_profile"}
    OBVIOUS
  <2> QED
    BY <2>1, <2>2
<1>10. KeysOf(a \o b \o c \o d, {"main", "endpoint", "routing_profile", "network"})
  <2>1. KeysOf(a \o b \o c \o d, {"main", "endpoint", "routing_profile"} \cup {"network"})
    BY <1>4, <1>9, MoreSections DEF d
  <2>2. {"main", "endpoint", "routing_profile"} \cup {"network"} =
          {"main", "endpoint", "routing_profile", "network"}
    OBVIOUS
  <2> QED
    BY <2>1, <2>2
<1>11. KeysOf(a \o b \o c \o d \o e,
         {"main", "endpoint", "routing_profile", "network"} \cup {"proxy"})
  BY <1>5, <1>10, MoreSections DEF e
<1>12. KeysOf(KeyOrder,
         ({"main", "endpoint", "routing_profile", "network"} \cup {"proxy"}) \cup {"domains"})
  BY <1>6, <1>7, <1>11, MoreSections DEF f
<1>13. DOMAIN KeyOrder = 1 .. Len(KeyOrder) /\ Len(KeyOrder) \in Nat
  BY <1>12 DEF KeysOf
<1>14. KeyOrder \in Seq(Keys)
  <2>1. \A i \in 1 .. Len(KeyOrder) : KeyOrder[i] \in Keys
    BY <1>13 DEF Keys, ToSet
  <2>2. KeyOrder = [i \in 1 .. Len(KeyOrder) |-> KeyOrder[i]]
    BY <1>12 DEF KeysOf
  <2> QED
    BY <1>13, <2>1, <2>2
<1>15. ToSet(a) \cup ToSet(d) \subseteq Keys
  <2>1. ToSet(a) \subseteq ToSet(a \o b)
    BY <1>1, <1>2, BothParts DEF a, b
  <2>2. ToSet(a \o b) \subseteq ToSet(a \o b \o c)
    BY <1>3, <1>8, BothParts DEF c
  <2>3. /\ ToSet(a \o b \o c) \subseteq ToSet(a \o b \o c \o d)
        /\ ToSet(d) \subseteq ToSet(a \o b \o c \o d)
    BY <1>4, <1>9, BothParts DEF d
  <2>4. ToSet(a \o b \o c \o d) \subseteq ToSet(a \o b \o c \o d \o e)
    BY <1>5, <1>10, BothParts DEF e
  <2>5. ToSet(a \o b \o c \o d \o e) \subseteq ToSet(KeyOrder)
    BY <1>6, <1>7, <1>11, BothParts DEF f
  <2> QED
    BY <2>1, <2>2, <2>3, <2>4, <2>5 DEF Keys
<1>16. SingleKeys \subseteq ToSet(a) \cup ToSet(d)
  <2>1. /\ a = [i \in 1 .. 3 |-> <<"main", main[i]>>]
        /\ main[1] = "enabled" /\ main[2] = "log_level" /\ main[3] = "mode"
    BY DEF a, main, Section
  <2>2. {<<"main", "enabled">>, <<"main", "log_level">>, <<"main", "mode">>}
          \subseteq ToSet(a)
    BY <2>1 DEF ToSet
  <2>3. /\ d = [i \in 1 .. 6 |-> <<"network", network[i]>>]
        /\ network[1] = "mtu" /\ network[2] = "table" /\ network[3] = "fwmark"
        /\ network[4] = "blackhole_on_down"
    BY DEF d, network, Section
  <2>4. {<<"network", "mtu">>, <<"network", "table">>, <<"network", "fwmark">>,
         <<"network", "blackhole_on_down">>} \subseteq ToSet(d)
    BY <2>3 DEF ToSet
  <2> QED
    BY <2>2, <2>4 DEF SingleKeys
<1> QED
  BY <1>12, <1>14, <1>15, <1>16 DEF KeysOf
-----------------------------------------------------------------------------
(* A records file: the lines of a key stand together, in the order of its   *)
(* values.                                                                  *)

Laid(file, opt, start) ==
  /\ file \in Seq(Line)
  /\ start \in [Keys -> Nat]
  /\ \A k \in Keys :
       /\ start[k] + Len(opt[k]) <= Len(file)
       /\ \A j \in 1 .. Len(opt[k]) :
            file[start[k] + j] = [key |-> k, value |-> opt[k][j]]
  /\ \A p \in 1 .. Len(file) :
       \E k \in Keys : \E j \in 1 .. Len(opt[k]) : p = start[k] + j

LEMMA CommitTyped ==
  ASSUME NEW c \in Commits, NEW k \in Keys
  PROVE  c.opt[k] \in Seq(Values) /\ DOMAIN c.opt[k] = 1 .. Len(c.opt[k])
         /\ Len(c.opt[k]) \in Nat
<1>1. c.opt[k] \in Seq(Values)
  BY RecordDiffAssumption
<1> QED
  BY <1>1

LEMMA ExportLaid ==
  ASSUME NEW c \in Commits
  PROVE  \E start : Laid(Export(c), c.opt, start)
<1> DEFINE n == Len(KeyOrder)
           blocks == [i \in DOMAIN KeyOrder |->
                        LET k == KeyOrder[i] IN
                        [j \in DOMAIN c.opt[k] |-> [key |-> k, value |-> c.opt[k][j]]]]
           file == Export(c)
<1>1. /\ n \in Nat /\ n > 0 /\ DOMAIN KeyOrder = 1 .. n
      /\ \A i \in 1 .. n : KeyOrder[i] \in Keys
      /\ \A k \in Keys : \E i \in 1 .. n : KeyOrder[i] = k
  <2>1. n \in Nat /\ n > 0 /\ DOMAIN KeyOrder = 1 .. n
    BY KeyOrderOnce
  <2> QED
    BY <2>1, KeyOrderOnce DEF Keys, ToSet
<1> HIDE DEF n
<1>2. ASSUME NEW i \in 1 .. n
      PROVE  /\ blocks[i] \in Seq(Line) /\ Len(blocks[i]) = Len(c.opt[KeyOrder[i]])
             /\ \A j \in 1 .. Len(blocks[i]) :
                  blocks[i][j] = [key |-> KeyOrder[i], value |-> c.opt[KeyOrder[i]][j]]
  <2> DEFINE k == KeyOrder[i]
             m == Len(c.opt[k])
  <2>1. k \in Keys
    BY <1>1
  <2>2. c.opt[k] \in Seq(Values) /\ DOMAIN c.opt[k] = 1 .. m /\ m \in Nat
    BY <2>1, CommitTyped
  <2>3. blocks[i] = [j \in 1 .. m |-> [key |-> k, value |-> c.opt[k][j]]]
    BY <1>1, <2>2
  <2> HIDE DEF blocks, m, k
  <2>4. \A j \in 1 .. m : c.opt[k][j] \in Values
    BY <2>2
  <2>5. \A j \in 1 .. m : [key |-> k, value |-> c.opt[k][j]] \in Line
    BY <2>1, <2>4 DEF Line
  <2>6. blocks[i] \in Seq(Line)
    BY <2>2, <2>3, <2>5
  <2>7. Len(blocks[i]) = m
    BY <2>2, <2>3
  <2> QED
    BY <2>3, <2>6, <2>7 DEF k, m
<1>3. blocks = [i \in 1 .. n |-> blocks[i]]
  BY <1>1
<1>4. file = FlattenSeq(blocks)
  BY DEF Export
<1> HIDE DEF blocks, file
<1>5. blocks \in Seq(Seq(Line)) /\ Len(blocks) = n
  BY <1>1, <1>2, <1>3
<1>6. file \in Seq(Line) /\ \E at1 : Placed(file, blocks, n, at1)
  BY <1>1, <1>4, <1>5, FlattenPlaces
<1>7. PICK where : Placed(file, blocks, n, where)
  BY <1>6
<1> DEFINE index(k) == CHOOSE i \in 1 .. n : KeyOrder[i] = k
           start == [k \in Keys |-> where[index(k)]]
<1>8. \A k \in Keys : index(k) \in 1 .. n /\ KeyOrder[index(k)] = k
  BY <1>1
<1>9. \A i \in 1 .. n : index(KeyOrder[i]) = i
  BY <1>1, <1>8, KeyOrderOnce DEF NoRepeats
<1> HIDE DEF index
<1>10. /\ start \in [Keys -> Nat]
       /\ \A k \in Keys : start[k] = where[index(k)]
       /\ \A i \in 1 .. n : start[KeyOrder[i]] = where[i]
  BY <1>1, <1>7, <1>8, <1>9 DEF Placed
<1> HIDE DEF start
<1>11. ASSUME NEW k \in Keys
       PROVE  /\ start[k] + Len(c.opt[k]) <= Len(file)
              /\ \A j \in 1 .. Len(c.opt[k]) :
                   file[start[k] + j] = [key |-> k, value |-> c.opt[k][j]]
  <2> DEFINE i == index(k)
  <2>1. i \in 1 .. n /\ KeyOrder[i] = k /\ start[k] = where[i]
    BY <1>8, <1>10
  <2> HIDE DEF i
  <2>2. /\ where[i] + Len(blocks[i]) <= Len(file)
        /\ \A j \in 1 .. Len(blocks[i]) : file[where[i] + j] = blocks[i][j]
    BY <1>7, <2>1 DEF Placed
  <2> QED
    BY <1>2, <2>1, <2>2
<1>12. ASSUME NEW p \in 1 .. Len(file)
       PROVE  \E k \in Keys : \E j \in 1 .. Len(c.opt[k]) : p = start[k] + j
  <2>1. PICK i \in 1 .. n : \E j \in 1 .. Len(blocks[i]) : p = where[i] + j
    BY <1>7 DEF Placed
  <2>2. KeyOrder[i] \in Keys
    BY <1>1
  <2> QED
    BY <1>2, <1>10, <2>1, <2>2
<1>13. Laid(file, c.opt, start)
  BY <1>6, <1>10, <1>11, <1>12 DEF Laid
<1> QED
  BY <1>13 DEF file

\* The values of every key among the first m lines of a file.
Length(start, len, m) ==
  IF m <= start THEN 0 ELSE IF m <= start + len THEN m - start ELSE len

LEMMA LengthGives ==
  ASSUME NEW s \in Nat, NEW l \in Nat, NEW m \in Nat
  PROVE  /\ ~(s < m + 1 /\ m + 1 <= s + l) => Length(s, l, m + 1) = Length(s, l, m)
         /\ s + l <= m => Length(s, l, m) = l
BY DEF Length

Gathered(seq, opt, start, m) ==
  /\ seq \in [Keys -> Seq(Values)]
  /\ \A k \in Keys :
       /\ Len(seq[k]) = Length(start[k], Len(opt[k]), m)
       /\ \A j \in 1 .. Len(seq[k]) : seq[k][j] = opt[k][j]

Seen(seq, c, m) ==
  \E start : Laid(Export(c), c.opt, start) /\ Gathered(seq, c.opt, start, m)

Nothing == [k \in Keys |-> <<>>]

LEMMA SeenNothing ==
  ASSUME NEW c \in Commits
  PROVE  Seen(Nothing, c, 0)
<1>1. PICK start : Laid(Export(c), c.opt, start)
  BY ExportLaid
<1>2. Nothing \in [Keys -> Seq(Values)] /\ \A k \in Keys : Len(Nothing[k]) = 0
  BY DEF Nothing
<1>3. \A k \in Keys : Length(start[k], Len(c.opt[k]), 0) = 0
  <2>1. \A k \in Keys : start[k] \in Nat
    BY <1>1 DEF Laid
  <2> QED
    BY <2>1 DEF Length
<1>4. Gathered(Nothing, c.opt, start, 0)
  BY <1>2, <1>3 DEF Gathered
<1> QED
  BY <1>1, <1>4 DEF Seen

\* The next line gives its key its next value, and no other key one.
LEMMA SeenNext ==
  ASSUME NEW c \in Commits, NEW seq, NEW m \in Nat, Seen(seq, c, m),
         m < Len(Export(c)), NEW line, line = Export(c)[m + 1]
  PROVE  Seen([seq EXCEPT ![line.key] = Append(@, line.value)], c, m + 1)
<1> DEFINE file == Export(c)
           opt == c.opt
<1>1. PICK start : Laid(file, opt, start) /\ Gathered(seq, opt, start, m)
  BY DEF Seen
<1>2. \A k \in Keys : /\ start[k] \in Nat /\ Len(opt[k]) \in Nat
                      /\ start[k] + Len(opt[k]) <= Len(file)
                      /\ opt[k] \in Seq(Values)
  BY <1>1, CommitTyped DEF Laid
<1>3. Len(file) \in Nat /\ m + 1 \in 1 .. Len(file)
  <2>1. Len(file) \in Nat
    BY <1>1 DEF Laid
  <2> QED
    BY <2>1
<1> HIDE DEF file, opt
<1>4. PICK k \in Keys : \E j \in 1 .. Len(opt[k]) : m + 1 = start[k] + j
  BY <1>1, <1>3 DEF Laid
<1>5. PICK j \in 1 .. Len(opt[k]) : m + 1 = start[k] + j
  BY <1>4
<1>6. line = [key |-> k, value |-> opt[k][j]]
  BY <1>1, <1>5 DEF Laid, file
<1>7. opt[k][j] \in Values
  BY <1>2, <1>5
<1> DEFINE new1 == [seq EXCEPT ![k] = Append(@, opt[k][j])]
<1>8. /\ seq \in [Keys -> Seq(Values)] /\ \A x \in Keys : Len(seq[x]) \in Nat
      /\ \A x \in Keys : Len(seq[x]) = Length(start[x], Len(opt[x]), m)
      /\ \A x \in Keys : \A i \in 1 .. Len(seq[x]) : seq[x][i] = opt[x][i]
  BY <1>1 DEF Gathered
<1>9. /\ Append(seq[k], opt[k][j]) \in Seq(Values)
      /\ Len(Append(seq[k], opt[k][j])) = Len(seq[k]) + 1
      /\ \A i \in 1 .. Len(seq[k]) : Append(seq[k], opt[k][j])[i] = seq[k][i]
      /\ Append(seq[k], opt[k][j])[Len(seq[k]) + 1] = opt[k][j]
  BY <1>7, <1>8
<1>10. Len(seq[k]) = j - 1 /\ Length(start[k], Len(opt[k]), m + 1) = j
  <2>1. m = start[k] + j - 1 /\ j \in Nat /\ j >= 1 /\ j <= Len(opt[k])
    BY <1>2, <1>5
  <2>2. Length(start[k], Len(opt[k]), m) = j - 1
    BY <1>2, <2>1 DEF Length
  <2>3. Length(start[k], Len(opt[k]), m + 1) = j
    BY <1>2, <2>1 DEF Length
  <2> QED
    BY <1>8, <2>2, <2>3
<1>11. ASSUME NEW x \in Keys, x # k
       PROVE  Length(start[x], Len(opt[x]), m + 1) = Length(start[x], Len(opt[x]), m)
  <2>1. ~\E i \in 1 .. Len(opt[x]) : m + 1 = start[x] + i
    <3> SUFFICES ASSUME NEW i \in 1 .. Len(opt[x]), m + 1 = start[x] + i
                 PROVE  FALSE
      OBVIOUS
    <3>1. file[m + 1] = [key |-> x, value |-> opt[x][i]]
      BY <1>1 DEF Laid
    <3>2. line.key = x
      <4>1. line = [key |-> x, value |-> opt[x][i]]
        BY <3>1 DEF file
      <4> QED
        BY <4>1
    <3>3. line.key = k
      BY <1>6
    <3> QED
      BY <1>11, <3>2, <3>3
  <2>2. ~(start[x] < m + 1 /\ m + 1 <= start[x] + Len(opt[x]))
    <3>1. start[x] < m + 1 /\ m + 1 <= start[x] + Len(opt[x]) =>
            m + 1 - start[x] \in 1 .. Len(opt[x]) /\ m + 1 = start[x] + (m + 1 - start[x])
      BY <1>2
    <3> QED
      BY <2>1, <3>1
  <2> QED
    BY <1>2, <2>2, LengthGives
<1>12. /\ new1 \in [Keys -> Seq(Values)]
       /\ new1[k] = Append(seq[k], opt[k][j])
       /\ \A x \in Keys : x # k => new1[x] = seq[x]
  BY <1>8, <1>9
<1> HIDE DEF new1
<1>13. ASSUME NEW x \in Keys
       PROVE  /\ Len(new1[x]) = Length(start[x], Len(opt[x]), m + 1)
              /\ \A i \in 1 .. Len(new1[x]) : new1[x][i] = opt[x][i]
  <2>1. CASE x = k
    <3>1. j \in Nat /\ Len(seq[k]) = j - 1 /\ Len(new1[k]) = j
      BY <1>5, <1>9, <1>10, <1>12
    <3>2. \A i \in 1 .. j : i = j \/ i \in 1 .. Len(seq[k])
      BY <3>1
    <3>3. (j - 1) + 1 = j
      BY <3>1
    <3> QED
      BY <1>8, <1>9, <1>10, <1>12, <2>1, <3>1, <3>2, <3>3
  <2>2. CASE x # k
    BY <1>8, <1>11, <1>12, <2>2
  <2> QED
    BY <2>1, <2>2
<1>14. Gathered(new1, opt, start, m + 1)
  BY <1>12, <1>13 DEF Gathered
<1>15. [seq EXCEPT ![line.key] = Append(@, line.value)] = new1
  BY <1>6 DEF new1
<1> QED
  BY <1>1, <1>14, <1>15 DEF Seen, file, opt

\* After the last line every key has all its values.
LEMMA SeenAll ==
  ASSUME NEW c \in Commits, NEW seq, Seen(seq, c, Len(Export(c)))
  PROVE  seq = c.opt
<1> DEFINE file == Export(c)
<1>1. PICK start : Laid(file, c.opt, start) /\ Gathered(seq, c.opt, start, Len(file))
  BY DEF Seen
<1>2. Len(file) \in Nat
  BY <1>1 DEF Laid
<1> HIDE DEF file
<1>3. ASSUME NEW k \in Keys
      PROVE  seq[k] = c.opt[k]
  <2>1. /\ start[k] \in Nat /\ Len(c.opt[k]) \in Nat /\ c.opt[k] \in Seq(Values)
        /\ start[k] + Len(c.opt[k]) <= Len(file) /\ seq[k] \in Seq(Values)
    BY <1>1, CommitTyped DEF Laid, Gathered
  <2>2. Length(start[k], Len(c.opt[k]), Len(file)) = Len(c.opt[k])
    BY <1>2, <2>1, LengthGives
  <2> QED
    BY <1>1, <2>1, <2>2, SeqEqual DEF Gathered
<1>4. c.opt \in [Keys -> Seq(Values)] /\ seq \in [Keys -> Seq(Values)]
  BY <1>1, RecordDiffAssumption DEF Gathered
<1> QED
  BY <1>3, <1>4
-----------------------------------------------------------------------------
(* The END block of diff_keys.                                              *)

PlacesOf(s, v) == {i \in DOMAIN s : s[i] = v}

\* Two lists with as many of every value are equally long: one of the matchings
\* of the places of every value makes a matching of all places.
LEMMA SameCounts ==
  ASSUME NEW V, NEW a \in Seq(V), NEW b \in Seq(V),
         \A v \in ToSet(a) : Occurrences(a, v) = Occurrences(b, v),
         ToSet(b) \subseteq ToSet(a)
  PROVE  Len(a) = Len(b)
<1>1. /\ DOMAIN a = 1 .. Len(a) /\ DOMAIN b = 1 .. Len(b)
      /\ Len(a) \in Nat /\ Len(b) \in Nat
  OBVIOUS
<1>2. /\ IsFiniteSet(DOMAIN a) /\ Cardinality(DOMAIN a) = Len(a)
      /\ IsFiniteSet(DOMAIN b) /\ Cardinality(DOMAIN b) = Len(b)
  <2>1. ASSUME NEW n \in Nat
        PROVE  IsFiniteSet(1 .. n) /\ Cardinality(1 .. n) = n
    <3>1. IsFiniteSet(1 .. n) /\ Cardinality(1 .. n) = IF 1 > n THEN 0 ELSE n - 1 + 1
      BY FS_Interval
    <3> QED
      BY <3>1
  <2> QED
    BY <1>1, <2>1
<1>3. \A v : /\ IsFiniteSet(PlacesOf(a, v)) /\ Cardinality(PlacesOf(a, v)) = Occurrences(a, v)
             /\ IsFiniteSet(PlacesOf(b, v)) /\ Cardinality(PlacesOf(b, v)) = Occurrences(b, v)
  <2> TAKE v
  <2>1. PlacesOf(a, v) \in SUBSET (DOMAIN a) /\ PlacesOf(b, v) \in SUBSET (DOMAIN b)
    BY DEF PlacesOf
  <2>2. IsFiniteSet(PlacesOf(a, v)) /\ IsFiniteSet(PlacesOf(b, v))
    BY <1>2, <2>1, FS_Subset
  <2> QED
    BY <2>2 DEF PlacesOf, Occurrences
<1>4. \A v \in ToSet(a) : \E f : f \in Bijection(PlacesOf(a, v), PlacesOf(b, v))
  <2> TAKE v \in ToSet(a)
  <2>1. ExistsBijection(PlacesOf(a, v), PlacesOf(b, v))
    BY <1>3, FS_SameCardinalityBij
  <2> QED
    BY <2>1, Fun_ExistsBij
<1> DEFINE match(v) == CHOOSE f : f \in Bijection(PlacesOf(a, v), PlacesOf(b, v))
           all == [i \in DOMAIN a |-> match(a[i])[i]]
<1>5. ASSUME NEW v \in ToSet(a)
      PROVE  /\ match(v) \in [PlacesOf(a, v) -> PlacesOf(b, v)]
             /\ \A i, j \in PlacesOf(a, v) : match(v)[i] = match(v)[j] => i = j
             /\ \A n \in PlacesOf(b, v) : \E i \in PlacesOf(a, v) : match(v)[i] = n
  <2>1. match(v) \in Bijection(PlacesOf(a, v), PlacesOf(b, v))
    BY <1>4
  <2> HIDE DEF match
  <2>2. ASSUME NEW A, NEW B, NEW f \in Bijection(A, B)
        PROVE  /\ f \in [A -> B]
               /\ \A i, j \in A : f[i] = f[j] => i = j
               /\ \A n \in B : \E i \in A : f[i] = n
    BY Fun_BijectionProperties
  <2> DEFINE A == PlacesOf(a, v)
             B == PlacesOf(b, v)
             f == match(v)
  <2>3. f \in Bijection(A, B)
    BY <2>1
  <2> HIDE DEF A, B, f
  <2>4. /\ f \in [A -> B]
        /\ \A i, j \in A : f[i] = f[j] => i = j
        /\ \A n \in B : \E i \in A : f[i] = n
    BY <2>2, <2>3
  <2> QED
    BY <2>4 DEF A, B, f
<1> HIDE DEF match
<1>6. ASSUME NEW i \in DOMAIN a
      PROVE  /\ a[i] \in ToSet(a) /\ i \in PlacesOf(a, a[i])
             /\ all[i] = match(a[i])[i]
             /\ all[i] \in DOMAIN b /\ b[all[i]] = a[i]
  <2>1. a[i] \in ToSet(a) /\ i \in PlacesOf(a, a[i])
    BY DEF ToSet, PlacesOf
  <2>2. match(a[i])[i] \in PlacesOf(b, a[i])
    BY <1>5, <2>1
  <2> QED
    BY <2>1, <2>2 DEF PlacesOf
<1>7. all \in [DOMAIN a -> DOMAIN b]
  BY <1>6
<1> HIDE DEF all
<1>8. ASSUME NEW i \in DOMAIN a, NEW j \in DOMAIN a, all[i] = all[j]
      PROVE  i = j
  <2>1. a[i] = a[j]
    BY <1>6, <1>8
  <2>2. match(a[i])[i] = match(a[i])[j] /\ i \in PlacesOf(a, a[i]) /\ j \in PlacesOf(a, a[i])
    BY <1>6, <1>8, <2>1
  <2> QED
    BY <1>5, <1>6, <2>2
<1>9. ASSUME NEW n \in DOMAIN b
      PROVE  \E i \in DOMAIN a : all[i] = n
  <2>1. b[n] \in ToSet(a) /\ n \in PlacesOf(b, b[n])
    BY DEF ToSet, PlacesOf
  <2>2. PICK i \in PlacesOf(a, b[n]) : match(b[n])[i] = n
    BY <1>5, <2>1
  <2>3. i \in DOMAIN a /\ a[i] = b[n]
    BY DEF PlacesOf
  <2> QED
    BY <1>6, <2>2, <2>3
<1>10. all \in Bijection(DOMAIN a, DOMAIN b)
  BY <1>7, <1>8, <1>9, Fun_IsBij
<1>11. ExistsBijection(DOMAIN a, DOMAIN b)
  BY <1>10, Fun_ExistsBij
<1> QED
  BY <1>2, <1>11, FS_Bijection

LEMMA DiffKeysExact ==
  ASSUME NEW s1 \in [Keys -> Seq(Values)], NEW s2 \in [Keys -> Seq(Values)]
  PROVE  DiffKeys(s1, s2) = {k \in Keys : s1[k] # s2[k]}
<1> SUFFICES ASSUME NEW k \in Keys
             PROVE  k \in DiffKeys(s1, s2) <=> s1[k] # s2[k]
  BY DEF DiffKeys
<1>1. s1[k] \in Seq(Values) /\ s2[k] \in Seq(Values)
  OBVIOUS
<1>2. CASE s1[k] = s2[k]
  BY <1>2 DEF DiffKeys
<1>3. CASE s1[k] # s2[k]
  <2>1. CASE Len(s1[k]) = Len(s2[k])
    <3>1. \E i \in 1 .. Len(s1[k]) : s1[k][i] # s2[k][i]
      BY <1>1, <1>3, <2>1, SeqEqual
    <3>2. DOMAIN s1[k] = 1 .. Len(s1[k])
      BY <1>1
    <3> QED
      BY <1>3, <2>1, <3>1, <3>2 DEF DiffKeys
  <2>2. CASE Len(s1[k]) # Len(s2[k])
    <3>1. ~(/\ \A v \in ToSet(s1[k]) : Occurrences(s1[k], v) = Occurrences(s2[k], v)
            /\ ToSet(s2[k]) \subseteq ToSet(s1[k]))
      BY <1>1, <2>2, SameCounts
    <3> QED
      BY <1>3, <3>1 DEF DiffKeys
  <2> QED
    BY <2>1, <2>2
<1> QED
  BY <1>2, <1>3
-----------------------------------------------------------------------------
(* awk over both files.                                                     *)

\* What is left of a file after m lines.
Rest(file, m) == SubSeq(file, m + 1, Len(file))

ReadingFirst ==
  /\ input = <<Rest(Export(old), fnr), Export(new)>>
  /\ nr = fnr /\ fnr <= Len(Export(old))
  /\ Seen(seq1, old, fnr) /\ seq2 = Nothing

\* An empty first file leaves awk in it: what it reads goes to the first list.
ReadingSecond ==
  /\ input = <<Rest(Export(new), fnr)>>
  /\ nr = Len(Export(old)) + fnr /\ fnr <= Len(Export(new))
  /\ IF Export(old) = <<>>
     THEN Seen(seq1, new, fnr) /\ seq2 = old.opt
     ELSE seq1 = old.opt /\ Seen(seq2, new, fnr)

BothRead ==
  /\ input = <<>>
  /\ \/ seq1 = old.opt /\ seq2 = new.opt
     \/ seq1 = new.opt /\ seq2 = old.opt

DiffInv ==
  /\ old \in Commits /\ new \in Commits
  /\ nr \in Nat /\ fnr \in Nat
  /\ at = "awk" => ReadingFirst \/ ReadingSecond \/ BothRead
  /\ DiffIsExact

LEMMA ExportFacts ==
  ASSUME NEW c \in Commits
  PROVE  /\ Export(c) \in Seq(Line) /\ Len(Export(c)) \in Nat
         /\ c.opt \in [Keys -> Seq(Values)]
         /\ Rest(Export(c), 0) = Export(c)
         /\ Export(c) = <<>> <=> Len(Export(c)) = 0
<1>1. Export(c) \in Seq(Line)
  BY ExportLaid DEF Laid
<1>2. c.opt \in [Keys -> Seq(Values)]
  BY RecordDiffAssumption
<1>3. Rest(Export(c), 0) = Export(c)
  BY <1>1, SubSeqFull DEF Rest
<1> QED
  BY <1>1, <1>2, <1>3, EmptySeq

LEMMA RestGives ==
  ASSUME NEW S, NEW file \in Seq(S), NEW m \in Nat, m <= Len(file)
  PROVE  /\ Rest(file, m) = <<>> <=> m = Len(file)
         /\ m < Len(file) => /\ Head(Rest(file, m)) = file[m + 1]
                             /\ Tail(Rest(file, m)) = Rest(file, m + 1)
<1>1. Len(file) \in Nat
  OBVIOUS
<1>2. CASE m = Len(file)
  <2>1. Rest(file, m) = <<>>
    BY <1>1, <1>2, SubSeqEmpty DEF Rest
  <2> QED
    BY <1>1, <1>2, <2>1
<1>3. CASE m < Len(file)
  <2>1. m + 1 \in 1 .. Len(file) /\ Len(file) \in (m + 1) .. Len(file)
    BY <1>1, <1>3
  <2>2. /\ Head(Rest(file, m)) = file[m + 1]
        /\ Tail(Rest(file, m)) = SubSeq(file, (m + 1) + 1, Len(file))
    BY <2>1, HeadTailOfSubSeq DEF Rest
  <2>3. Rest(file, m) # <<>>
    <3>1. \A i \in (m + 1) .. Len(file) : file[i] \in S
      BY <1>1
    <3>2. Len(Rest(file, m)) = Len(file) - (m + 1) + 1
      BY <1>1, <2>1, <3>1, SubSeqProperties DEF Rest
    <3>3. Len(Rest(file, m)) # 0
      BY <1>1, <1>3, <3>2
    <3>4. Len(<<>>) = 0
      OBVIOUS
    <3> QED
      BY <3>3, <3>4
  <2> QED
    BY <1>1, <1>3, <2>2, <2>3 DEF Rest
<1> QED
  BY <1>1, <1>2, <1>3
LEMMA DiffInit == Init => DiffInv
<1> SUFFICES ASSUME Init
             PROVE  DiffInv
  OBVIOUS
<1>1. old \in Commits /\ new \in Commits /\ at = "awk" /\ nr = 0 /\ fnr = 0
  BY DEF Init
<1>2. Seen(seq1, old, fnr) /\ seq2 = Nothing
  BY <1>1, SeenNothing DEF Init, Nothing
<1>3. Rest(Export(old), fnr) = Export(old) /\ fnr <= Len(Export(old))
  BY <1>1, ExportFacts
<1> QED
  BY <1>1, <1>2, <1>3 DEF Init, DiffInv, ReadingFirst, DiffIsExact

LEMMA OneInFront ==
  ASSUME NEW a, NEW b
  PROVE  <<a>> \o <<b>> = <<a, b>> /\ <<a>> \o <<>> = <<a>>
<1>1. <<a>> \in Seq({a, b}) /\ <<b>> \in Seq({a, b}) /\ Len(<<a>>) = 1 /\ Len(<<b>>) = 1
  OBVIOUS
<1>2. /\ Len(<<a>> \o <<b>>) = 2 /\ <<a>> \o <<b>> \in Seq({a, b})
      /\ (<<a>> \o <<b>>)[1] = a /\ (<<a>> \o <<b>>)[2] = b
  BY <1>1, ConcatProperties
<1>3. <<a, b>> \in Seq({a, b}) /\ Len(<<a, b>>) = 2
  OBVIOUS
<1>4. <<a>> \o <<b>> = <<a, b>>
  <2> DEFINE u == <<a>> \o <<b>>
             v == <<a, b>>
  <2>1. v[1] = a /\ v[2] = b
    OBVIOUS
  <2>2. /\ u \in Seq({a, b}) /\ v \in Seq({a, b}) /\ Len(u) = 2 /\ Len(v) = 2
        /\ u[1] = v[1] /\ u[2] = v[2]
    BY <1>2, <1>3, <2>1
  <2> HIDE DEF u, v
  <2>3. \A i \in 1 .. Len(u) : u[i] = v[i]
    BY <2>2
  <2>4. u = v
    BY <2>2, <2>3, SeqEqual
  <2> QED
    BY <2>4 DEF u, v
<1> QED
  BY <1>1, <1>4, ConcatEmptySeq

\* One line of either file.
LEMMA DiffReadLine ==
  ASSUME DiffInv, ReadLine
  PROVE  DiffInv'
<1> DEFINE F == Export(old)
           G == Export(new)
           line == Head(Head(input))
<1>1. /\ at = "awk" /\ at' = "awk" /\ input # <<>> /\ Head(input) # <<>>
      /\ nr' = nr + 1 /\ fnr' = fnr + 1 /\ UNCHANGED <<old, new>>
      /\ input' = <<Tail(Head(input))>> \o Tail(input)
      /\ IF nr = fnr
           THEN /\ seq1' = [seq1 EXCEPT ![line.key] = Append(@, line.value)]
                /\ UNCHANGED seq2
           ELSE /\ seq2' = [seq2 EXCEPT ![line.key] = Append(@, line.value)]
                /\ UNCHANGED seq1
  BY DEF ReadLine
<1>2. /\ old \in Commits /\ new \in Commits /\ nr \in Nat /\ fnr \in Nat
      /\ ReadingFirst \/ ReadingSecond
  BY <1>1 DEF DiffInv, BothRead
<1>3. F \in Seq(Line) /\ Len(F) \in Nat /\ G \in Seq(Line) /\ Len(G) \in Nat
      /\ (F = <<>> <=> Len(F) = 0)
  BY <1>2, ExportFacts
<1>4. /\ old' \in Commits /\ new' \in Commits /\ nr' \in Nat /\ fnr' \in Nat /\ DiffIsExact'
  BY <1>1, <1>2 DEF DiffIsExact
<1> HIDE DEF F, G, line
<1>5. CASE ReadingFirst
  <2>1. /\ input = <<Rest(F, fnr), G>> /\ nr = fnr /\ fnr <= Len(F)
        /\ Seen(seq1, old, fnr) /\ seq2 = Nothing
    BY <1>5 DEF ReadingFirst, F, G
  <2>2. Head(input) = Rest(F, fnr) /\ Tail(input) = <<G>>
    BY <2>1
  <2>3. fnr < Len(F)
    BY <1>1, <1>2, <1>3, <2>1, <2>2, RestGives
  <2>4. line = F[fnr + 1] /\ Tail(Head(input)) = Rest(F, fnr + 1)
    BY <1>2, <1>3, <2>1, <2>2, <2>3, RestGives DEF line
  <2>5. input' = <<Rest(F, fnr + 1), G>>
    BY <1>1, <2>2, <2>4, OneInFront
  <2>6. Seen(seq1', old, fnr + 1) /\ seq2' = Nothing
    <3>1. seq1' = [seq1 EXCEPT ![line.key] = Append(@, line.value)] /\ seq2' = seq2
      BY <1>1, <2>1
    <3>2. line = Export(old)[fnr + 1] /\ fnr < Len(Export(old))
      BY <2>3, <2>4 DEF F
    <3>3. Seen([seq1 EXCEPT ![line.key] = Append(@, line.value)], old, fnr + 1)
      BY <1>2, <2>1, <3>2, SeenNext
    <3> QED
      BY <2>1, <3>1, <3>3
  <2>7. nr' = fnr' /\ fnr' <= Len(F)
    BY <1>1, <1>2, <1>3, <2>1, <2>3
  <2>8. ReadingFirst'
    BY <1>1, <2>5, <2>6, <2>7 DEF ReadingFirst, F, G
  <2> QED
    BY <1>4, <2>8 DEF DiffInv
<1>6. CASE ReadingSecond
  <2>1. /\ input = <<Rest(G, fnr)>> /\ nr = Len(F) + fnr /\ fnr <= Len(G)
        /\ IF F = <<>> THEN Seen(seq1, new, fnr) /\ seq2 = old.opt
           ELSE seq1 = old.opt /\ Seen(seq2, new, fnr)
    BY <1>6 DEF ReadingSecond, F, G
  <2>2. Head(input) = Rest(G, fnr) /\ Tail(input) = <<>>
    BY <2>1
  <2>3. fnr < Len(G)
    BY <1>1, <1>2, <1>3, <2>1, <2>2, RestGives
  <2>4. line = G[fnr + 1] /\ Tail(Head(input)) = Rest(G, fnr + 1)
    BY <1>2, <1>3, <2>1, <2>2, <2>3, RestGives DEF line
  <2>5. input' = <<Rest(G, fnr + 1)>>
    BY <1>1, <2>2, <2>4, OneInFront
  <2>6. nr = fnr <=> F = <<>>
    BY <1>2, <1>3, <2>1
  <2>7. IF F = <<>> THEN Seen(seq1', new, fnr + 1) /\ seq2' = old.opt
        ELSE seq1' = old.opt /\ Seen(seq2', new, fnr + 1)
    <3>1. line = Export(new)[fnr + 1] /\ fnr < Len(Export(new))
      BY <2>3, <2>4 DEF G
    <3>2. ASSUME NEW seq, Seen(seq, new, fnr)
          PROVE  Seen([seq EXCEPT ![line.key] = Append(@, line.value)], new, fnr + 1)
      BY <1>2, <3>1, <3>2, SeenNext
    <3>3. CASE F = <<>>
      <4>1. seq1' = [seq1 EXCEPT ![line.key] = Append(@, line.value)] /\ seq2' = seq2
        BY <1>1, <2>6, <3>3
      <4> QED
        BY <2>1, <3>2, <3>3, <4>1
    <3>4. CASE F # <<>>
      <4>1. seq2' = [seq2 EXCEPT ![line.key] = Append(@, line.value)] /\ seq1' = seq1
        BY <1>1, <2>6, <3>4
      <4> QED
        BY <2>1, <3>2, <3>4, <4>1
    <3> QED
      BY <3>3, <3>4
  <2>8. nr' = Len(F) + fnr' /\ fnr' <= Len(G)
    <3>1. \A x, y, z \in Nat : x < y => x + 1 <= y /\ (z + x) + 1 = z + (x + 1)
      OBVIOUS
    <3> QED
      BY <1>1, <1>2, <1>3, <2>1, <2>3, <3>1
  <2>9. ReadingSecond'
    BY <1>1, <2>5, <2>7, <2>8 DEF ReadingSecond, F, G
  <2> QED
    BY <1>4, <2>9 DEF DiffInv
<1> QED
  BY <1>2, <1>5, <1>6

\* The end of either file.
LEMMA DiffNextFile ==
  ASSUME DiffInv, NextFile
  PROVE  DiffInv'
<1> DEFINE F == Export(old)
           G == Export(new)
<1>1. /\ at = "awk" /\ at' = "awk" /\ input # <<>> /\ Head(input) = <<>>
      /\ input' = Tail(input) /\ fnr' = 0
      /\ UNCHANGED <<old, new, nr, seq1, seq2>>
  BY DEF NextFile
<1>2. /\ old \in Commits /\ new \in Commits /\ nr \in Nat /\ fnr \in Nat
      /\ ReadingFirst \/ ReadingSecond
  BY <1>1 DEF DiffInv, BothRead
<1>3. /\ F \in Seq(Line) /\ Len(F) \in Nat /\ G \in Seq(Line) /\ Len(G) \in Nat
      /\ (F = <<>> <=> Len(F) = 0) /\ Rest(G, 0) = G
  BY <1>2, ExportFacts
<1>4. /\ old' \in Commits /\ new' \in Commits /\ nr' \in Nat /\ fnr' \in Nat /\ DiffIsExact'
  BY <1>1, <1>2 DEF DiffIsExact
<1> HIDE DEF F, G
<1>5. CASE ReadingFirst
  <2>1. /\ input = <<Rest(F, fnr), G>> /\ nr = fnr /\ fnr <= Len(F)
        /\ Seen(seq1, old, fnr) /\ seq2 = Nothing
    BY <1>5 DEF ReadingFirst, F, G
  <2>2. Head(input) = Rest(F, fnr) /\ Tail(input) = <<G>>
    BY <2>1
  <2>3. fnr = Len(F)
    BY <1>1, <1>2, <1>3, <2>1, <2>2, RestGives
  <2>4. seq1 = old.opt
    BY <1>2, <2>1, <2>3, SeenAll DEF F
  <2>5. Seen(Nothing, new, 0)
    BY <1>2, SeenNothing
  <2>6. F = <<>> => Nothing = old.opt
    BY <1>2, <1>3, SeenNothing, SeenAll DEF F
  <2>7. input' = <<Rest(G, 0)>>
    BY <1>1, <1>3, <2>2
  <2>8. nr' = Len(F) + fnr' /\ fnr' <= Len(G)
    BY <1>1, <1>3, <2>1, <2>3
  <2>9. IF F = <<>> THEN Seen(seq1', new, 0) /\ seq2' = old.opt
        ELSE seq1' = old.opt /\ Seen(seq2', new, 0)
    BY <1>1, <2>1, <2>4, <2>5, <2>6
  <2>10. ReadingSecond'
    BY <1>1, <2>7, <2>8, <2>9 DEF ReadingSecond, F, G
  <2> QED
    BY <1>4, <2>10 DEF DiffInv
<1>6. CASE ReadingSecond
  <2>1. /\ input = <<Rest(G, fnr)>> /\ fnr <= Len(G)
        /\ IF F = <<>> THEN Seen(seq1, new, fnr) /\ seq2 = old.opt
           ELSE seq1 = old.opt /\ Seen(seq2, new, fnr)
    BY <1>6 DEF ReadingSecond, F, G
  <2>2. Head(input) = Rest(G, fnr) /\ Tail(input) = <<>>
    BY <2>1
  <2>3. fnr = Len(G)
    BY <1>1, <1>2, <1>3, <2>1, <2>2, RestGives
  <2>4. \/ seq1 = new.opt /\ seq2 = old.opt
        \/ seq1 = old.opt /\ seq2 = new.opt
    BY <1>2, <2>1, <2>3, SeenAll DEF G
  <2>5. BothRead'
    BY <1>1, <2>2, <2>4 DEF BothRead
  <2> QED
    BY <1>4, <2>5 DEF DiffInv
<1> QED
  BY <1>2, <1>5, <1>6

LEMMA DiffStep == DiffInv /\ [Next]_vars => DiffInv'
<1> SUFFICES ASSUME DiffInv, [Next]_vars
             PROVE  DiffInv'
  OBVIOUS
<1>1. CASE EndOfInput
  <2>1. /\ at = "awk" /\ at' = "keys" /\ input = <<>> /\ UNCHANGED <<old, new, nr, fnr>>
        /\ reported' = DiffKeys(seq1, seq2)
    BY <1>1 DEF EndOfInput
  <2>2. BothRead
    BY <2>1 DEF DiffInv, ReadingFirst, ReadingSecond
  <2>3. old.opt \in [Keys -> Seq(Values)] /\ new.opt \in [Keys -> Seq(Values)]
    BY ExportFacts DEF DiffInv
  <2>4. reported' = {k \in Keys : old.opt[k] # new.opt[k]}
    <3>1. CASE seq1 = old.opt /\ seq2 = new.opt
      BY <2>1, <2>3, <3>1, DiffKeysExact
    <3>2. CASE seq1 = new.opt /\ seq2 = old.opt
      <4>1. reported' = {k \in Keys : new.opt[k] # old.opt[k]}
        BY <2>1, <2>3, <3>2, DiffKeysExact
      <4> QED
        BY <4>1
    <3> QED
      BY <2>2, <3>1, <3>2 DEF BothRead
  <2> QED
    BY <2>1, <2>4 DEF DiffInv, DiffIsExact
<1>2. CASE ClassifyKey \/ CompareCert
  BY <1>2 DEF ClassifyKey, CompareCert, DiffInv, DiffIsExact
<1>3. CASE UNCHANGED vars
  BY <1>3 DEF vars, DiffInv, DiffIsExact, ReadingFirst, ReadingSecond, BothRead
<1> QED
  BY <1>1, <1>2, <1>3, DiffReadLine, DiffNextFile DEF Next

\* diff_keys reports the changed keys and no other, however long the lists are
\* and whatever they hold, also when a records file is empty.
THEOREM DiffExact == Spec => []DiffIsExact
<1>1. DiffInv => DiffIsExact
  BY DEF DiffInv
<1> QED
  BY <1>1, DiffInit, DiffStep, PTL DEF Spec
-----------------------------------------------------------------------------
(* The class over the lines and the class of the settings.                  *)

\* What is read into client.toml restarts the client at least.
LEMMA ClientKeysRestart ==
  ASSUME NEW k \in ClientKeys
  PROVE  k \in Keys /\ RankOfClass(ClassForKey(k)) >= 2
<1>1. k \in Keys
  BY KeyOrderOnce DEF ClientKeys, SingleKeys
<1>2. \A x : <<"network", x>>[1] = "network"
  OBVIOUS
<1>3. ClassForKey(k) \in {"restart", "restart_full"}
  BY <1>2 DEF ClientKeys, ClassForKey
<1> QED
  BY <1>1, <1>3 DEF RankOfClass

LEMMA CheapestSuffices == DearestInv /\ DiffInv => NeverTooCheap
<1> SUFFICES ASSUME DearestInv, DiffInv, at = "done"
             PROVE  RankOfClass(class)
                      >= RankOfClass(ClassOf(Meaning(old), Meaning(new)))
  BY DEF NeverTooCheap
<1> DEFINE was == Meaning(old)
           is == Meaning(new)
           rank == RankOfClass(class)
<1>1. /\ \A k \in Keys : old.opt[k] # new.opt[k] => rank >= RankOfClass(ClassForKey(k))
      /\ old.cert # new.cert => rank >= 2
  <2>1. Dearest /\ reported = {k \in Keys : old.opt[k] # new.opt[k]}
    BY DEF DearestInv, DearestDecides, DiffInv, DiffIsExact
  <2> QED
    BY <2>1 DEF Dearest, RankOfClass
<1>2. rank \in Nat
  BY RankIsNat DEF DearestInv, Pending
<1>3. /\ RankOfClass("noop") = 0 /\ RankOfClass("reload") = 1
      /\ RankOfClass("restart") = 2 /\ RankOfClass("restart_full") = 3
      /\ RankOfClass("full") = 3
  BY DEF RankOfClass
<1>4. /\ was.enabled = IsOn(old, <<"main", "enabled">>)
      /\ is.enabled = IsOn(new, <<"main", "enabled">>)
      /\ was.proxy = (FirstOf(old, <<"main", "mode">>, "tun") = "proxy")
      /\ is.proxy = (FirstOf(new, <<"main", "mode">>, "tun") = "proxy")
      /\ was.strict = IsOn(old, <<"network", "blackhole_on_down">>)
      /\ is.strict = IsOn(new, <<"network", "blackhole_on_down">>)
      /\ was.table = <<FirstOf(old, <<"network", "table">>, "880"),
                       FirstOf(old, <<"network", "fwmark">>, "0x9527")>>
      /\ is.table = <<FirstOf(new, <<"network", "table">>, "880"),
                      FirstOf(new, <<"network", "fwmark">>, "0x9527")>>
      /\ was.client = <<[k \in ClientKeys |-> old.opt[k]], old.cert>>
      /\ is.client = <<[k \in ClientKeys |-> new.opt[k]], new.cert>>
  BY DEF Meaning
<1>5. (/\ was.enabled = is.enabled /\ was.proxy = is.proxy
       /\ was.strict = is.strict /\ was.table = is.table
       /\ was.client = is.client) => was = is
  BY DEF Meaning
<1>6. \A k \in SingleKeys : old.opt[k] # new.opt[k] =>
        rank >= RankOfClass(ClassForKey(k))
  BY <1>1, KeyOrderOnce
<1> HIDE DEF was, is, rank
<1>7. CASE was.enabled # is.enabled \/ was.proxy # is.proxy \/ was.table # is.table
  <2>1. PICK k \in {<<"main", "enabled">>, <<"main", "mode">>, <<"network", "table">>,
                    <<"network", "fwmark">>} : old.opt[k] # new.opt[k]
    <3>1. old.opt[<<"main", "enabled">>] = new.opt[<<"main", "enabled">>]
            => was.enabled = is.enabled
      BY <1>4 DEF IsOn, FirstOf
    <3>2. old.opt[<<"main", "mode">>] = new.opt[<<"main", "mode">>]
            => was.proxy = is.proxy
      BY <1>4 DEF FirstOf
    <3>3. (/\ old.opt[<<"network", "table">>] = new.opt[<<"network", "table">>]
           /\ old.opt[<<"network", "fwmark">>] = new.opt[<<"network", "fwmark">>])
            => was.table = is.table
      BY <1>4 DEF FirstOf
    <3> QED
      BY <1>7, <3>1, <3>2, <3>3
  <2>2. ClassForKey(k) = "restart_full" /\ k \in SingleKeys
    BY DEF ClassForKey, SingleKeys
  <2>3. rank >= 3
    BY <1>3, <1>6, <2>1, <2>2
  <2>4. ClassOf(was, is) = "full"
    BY <1>7 DEF ClassOf
  <2> QED
    BY <1>3, <2>3, <2>4 DEF rank, was, is
<1>8. CASE /\ was.enabled = is.enabled /\ was.proxy = is.proxy /\ was.table = is.table
           /\ was.client # is.client
  <2>1. old.cert # new.cert \/ \E k \in ClientKeys : old.opt[k] # new.opt[k]
    BY <1>4, <1>8
  <2>2. rank >= 2
    <3>1. CASE old.cert # new.cert
      BY <1>1, <3>1
    <3>2. ASSUME NEW k \in ClientKeys, old.opt[k] # new.opt[k]
          PROVE  rank >= 2
      <4>1. k \in Keys /\ ClassForKey(k) \in Classes
            /\ RankOfClass(ClassForKey(k)) >= 2
        BY ClientKeysRestart, KeyClass
      <4>2. rank >= RankOfClass(ClassForKey(k)) /\ RankOfClass(ClassForKey(k)) \in Nat
        BY <1>1, <3>2, <4>1, RankIsNat
      <4> QED
        BY <1>2, <4>1, <4>2
    <3> QED
      BY <2>1, <3>1, <3>2
  <2>3. ClassOf(was, is) = "restart"
    BY <1>8 DEF ClassOf
  <2> QED
    BY <1>3, <2>2, <2>3 DEF rank, was, is
<1>9. CASE /\ was.enabled = is.enabled /\ was.proxy = is.proxy /\ was.table = is.table
           /\ was.client = is.client /\ was.strict # is.strict
  <2>1. old.opt[<<"network", "blackhole_on_down">>]
          # new.opt[<<"network", "blackhole_on_down">>]
    BY <1>4, <1>9 DEF IsOn, FirstOf
  <2>2. /\ ClassForKey(<<"network", "blackhole_on_down">>) = "reload"
        /\ <<"network", "blackhole_on_down">> \in SingleKeys
    BY DEF ClassForKey, SingleKeys
  <2>3. rank >= 1
    BY <1>3, <1>6, <2>1, <2>2
  <2>4. ClassOf(was, is) = "reload"
    BY <1>9 DEF ClassOf
  <2> QED
    BY <1>3, <2>3, <2>4 DEF rank, was, is
<1>10. CASE was = is
  <2>1. ClassOf(was, is) = "noop"
    BY <1>10 DEF ClassOf
  <2> QED
    BY <1>2, <1>3, <2>1 DEF rank, was, is
<1> QED
  BY <1>5, <1>7, <1>8, <1>9, <1>10

\* The class reached over the lines of the two files is never cheaper than the
\* one the settings in them call for (class_of_diff, class_for_key).
THEOREM ClassSuffices == Spec => []NeverTooCheap
<1> QED
  BY DearestInit, DearestStep, DiffInit, DiffStep, CheapestSuffices, PTL DEF Spec

=============================================================================
