------------------------ MODULE ToolRegistry_proofs ------------------------
(***************************************************************************)
(* Proofs about ToolRegistry: what a removal leaves, what a lookup finds,  *)
(* and that the schemas on offer follow the entries.  Inductions are by    *)
(* the least counterexample.                                               *)
(***************************************************************************)
EXTENDS ToolRegistry, TLAPS, WellFoundedInduction, SequenceTheorems

Below == {ss \in Nat \X Nat : ss[1] < ss[2]}

LEMMA BelowWellFounded == IsWellFoundedOn(Below, Nat)
  BY NatLessThanWellFounded DEF OpToRel, Below

LEMMA LeastElement ==
  ASSUME NEW S, S \subseteq Nat, S # {}
  PROVE  \E m \in S : \A n \in S : m <= n
<1>1. PICK m \in S : \A n \in S : ~(<<n, m>> \in Below)
  BY BelowWellFounded, WFMin
<1>2. \A a, b \in Nat : a < b => <<a, b>> \in Below
  BY DEF Below
<1>3. \A a, b \in Nat : ~(a < b) => b <= a
  OBVIOUS
<1>4. m \in Nat /\ S \subseteq Nat
  OBVIOUS
<1>5. ASSUME NEW n \in S PROVE m <= n
  BY ONLY <1>1, <1>2, <1>3, <1>4, n \in S
<1> QED BY <1>5

-----------------------------------------------------------------------------
(* A removal *)

FilterStep(seq, S, i, before) == IF seq[i] \in S THEN Append(before, seq[i]) ELSE before

FilterOf(seq, S, G, n) ==
    /\ G[0] = <<>>
    /\ \A i \in 1 .. n : G[i] = FilterStep(seq, S, i, G[i - 1])

LEMMA FilterStepType ==
  ASSUME NEW T, NEW seq \in Seq(T), NEW S, NEW i \in 1 .. Len(seq), NEW before \in Seq(T)
  PROVE  FilterStep(seq, S, i, before) \in Seq(T)
  BY ElementOfSeq DEF FilterStep

\* The filter of every prefix exists.
LEMMA FilterExists ==
  ASSUME NEW T, NEW seq \in Seq(T), NEW S, NEW n \in 0 .. Len(seq)
  PROVE  \E G \in [0 .. n -> Seq(T)] : FilterOf(seq, S, G, n)
<1> DEFINE Found(k) == \E G \in [0 .. k -> Seq(T)] : FilterOf(seq, S, G, k)
           Missing == {k \in 0 .. Len(seq) : ~Found(k)}
<1>1. SUFFICES ASSUME Missing # {} PROVE FALSE
  OBVIOUS
<1>2. Missing \subseteq Nat
  BY DEF Missing
<1>3. PICK m \in Missing : \A k \in Missing : m <= k
  <2> HIDE DEF Missing
  <2> QED BY <1>1, <1>2, LeastElement
<1>4. m \in 0 .. Len(seq) /\ ~Found(m)
  OBVIOUS
<1>5. CASE m = 0
  <2>1. [i \in 0 .. 0 |-> <<>>] \in [0 .. 0 -> Seq(T)]
    OBVIOUS
  <2>2. FilterOf(seq, S, [i \in 0 .. 0 |-> <<>>], 0)
    BY DEF FilterOf
  <2> QED BY <2>1, <2>2, <1>4, <1>5
<1>6. CASE m # 0
  <2>1. m \in 1 .. Len(seq) /\ m - 1 \in 0 .. Len(seq) /\ m - 1 \in Nat
    BY <1>4, <1>6
  <2>2. Found(m - 1)
    <3>1. ~(m <= m - 1)
      BY <2>1
    <3>2. m - 1 \notin Missing
      BY <1>3, <3>1
    <3> QED BY <3>2, <2>1
  <2>3. PICK G \in [0 .. m - 1 -> Seq(T)] : FilterOf(seq, S, G, m - 1)
    BY <2>2
  <2> DEFINE H == [i \in 0 .. m |-> IF i = m THEN FilterStep(seq, S, m, G[m - 1]) ELSE G[i]]
  <2>4. G[m - 1] \in Seq(T) /\ \A i \in 0 .. m : i # m => i \in 0 .. m - 1
    BY <2>1, <2>3
  <2>5. H \in [0 .. m -> Seq(T)]
    BY <2>1, <2>3, <2>4, FilterStepType
  <2>6. FilterOf(seq, S, H, m)
    <3>1. H[0] = <<>>
      BY <2>1, <2>3 DEF FilterOf
    <3>2. ASSUME NEW i \in 1 .. m PROVE H[i] = FilterStep(seq, S, i, H[i - 1])
      <4>1. i - 1 \in 0 .. m - 1 /\ H[i - 1] = G[i - 1]
        BY <2>1
      <4>2. CASE i = m
        BY <4>1, <4>2, <2>1
      <4>3. CASE i # m
        BY <4>1, <4>3, <2>1, <2>3 DEF FilterOf
      <4> QED BY <4>2, <4>3
    <3> HIDE DEF H
    <3> QED BY <3>1, <3>2 DEF FilterOf
  <2> HIDE DEF H
  <2> QED BY <2>5, <2>6, <1>4
<1> QED BY <1>5, <1>6

\* Kept is the last of such a filter.
LEMMA KeptIsFilter ==
  ASSUME NEW T, NEW seq \in Seq(T), NEW S
  PROVE  \E G \in [0 .. Len(seq) -> Seq(T)] :
             FilterOf(seq, S, G, Len(seq)) /\ Kept(seq, S) = G[Len(seq)]
<1> DEFINE Eq(F) == F = [i \in 0 .. Len(seq) |->
                            IF i = 0 THEN <<>>
                            ELSE IF seq[i] \in S THEN Append(F[i - 1], seq[i])
                            ELSE F[i - 1]]
           kept == CHOOSE F : Eq(F)
<1>1. Len(seq) \in Nat
  OBVIOUS
<1>2. PICK G \in [0 .. Len(seq) -> Seq(T)] : FilterOf(seq, S, G, Len(seq))
  <2>1. Len(seq) \in 0 .. Len(seq)
    BY <1>1
  <2> QED BY <2>1, FilterExists
<1>3. Eq(G)
  <2>1. ASSUME NEW i \in 0 .. Len(seq)
        PROVE  G[i] = IF i = 0 THEN <<>>
                      ELSE IF seq[i] \in S THEN Append(G[i - 1], seq[i])
                      ELSE G[i - 1]
    <3>1. i # 0 => i \in 1 .. Len(seq)
      BY <1>1
    <3> QED BY <3>1, <1>2 DEF FilterOf, FilterStep
  <2>2. G = [i \in 0 .. Len(seq) |-> G[i]]
    BY <1>2
  <2> QED BY <2>1, <2>2
<1>4. Eq(kept)
  <2> HIDE DEF Eq
  <2> QED BY <1>3
<1>5. Kept(seq, S) = kept[Len(seq)]
  BY DEF Kept
<1> HIDE DEF kept
<1>6. kept[0] = <<>> /\ \A i \in 1 .. Len(seq) : kept[i] = FilterStep(seq, S, i, kept[i - 1])
  <2>1. 0 \in 0 .. Len(seq) /\ \A i \in 1 .. Len(seq) : i \in 0 .. Len(seq) /\ i # 0
    BY <1>1
  <2>2. \A i \in 0 .. Len(seq) : kept[i] = IF i = 0 THEN <<>>
                                         ELSE IF seq[i] \in S THEN Append(kept[i - 1], seq[i])
                                         ELSE kept[i - 1]
    BY <1>4
  <2> QED BY <2>1, <2>2 DEF FilterStep
<1>7. \A i \in 0 .. Len(seq) : kept[i] = G[i]
  <2> DEFINE Differ == {i \in 0 .. Len(seq) : kept[i] # G[i]}
  <2>1. SUFFICES ASSUME Differ # {} PROVE FALSE
    OBVIOUS
  <2>2. Differ \subseteq Nat
    OBVIOUS
  <2>3. PICK m \in Differ : \A k \in Differ : m <= k
    <3> HIDE DEF Differ
    <3> QED BY <2>1, <2>2, LeastElement
  <2>4. m \in 0 .. Len(seq) /\ kept[m] # G[m]
    OBVIOUS
  <2>5. m # 0
    BY <2>4, <1>2, <1>6 DEF FilterOf
  <2>6. m - 1 \in 0 .. Len(seq) /\ m \in 1 .. Len(seq) /\ ~(m <= m - 1)
    BY <2>4, <2>5, <1>1
  <2>7. kept[m - 1] = G[m - 1]
    BY <2>3, <2>6
  <2>8. G[m] = FilterStep(seq, S, m, G[m - 1])
    BY <2>6, <1>2 DEF FilterOf
  <2> QED BY <2>4, <2>6, <2>7, <2>8, <1>6
<1> QED BY <1>1, <1>2, <1>5, <1>7

Elements(s) == {s[i] : i \in DOMAIN s}

LEMMA ElementsAppend ==
  ASSUME NEW T, NEW s \in Seq(T), NEW e \in T
  PROVE  Elements(Append(s, e)) = Elements(s) \cup {e} /\ Append(s, e) \in Seq(T)
<1> DEFINE a == Append(s, e)
<1>1. /\ DOMAIN s = 1 .. Len(s) /\ Len(s) \in Nat
      /\ a \in Seq(T) /\ Len(a) = Len(s) + 1 /\ DOMAIN a = 1 .. Len(a)
      /\ \A i \in 1 .. Len(s) : a[i] = s[i]
      /\ a[Len(s) + 1] = e
  BY AppendProperties
<1> HIDE DEF a
<1>2. Elements(a) = Elements(s) \cup {e}
  BY <1>1 DEF Elements
<1> QED BY <1>1, <1>2 DEF a

LEMMA ElementsType ==
  ASSUME NEW T, NEW s \in Seq(T) PROVE Elements(s) \subseteq T
  BY ElementOfSeq DEF Elements

\* What is kept: the elements of the list that may stay.
LEMMA KeptFacts ==
  ASSUME NEW T, NEW seq \in Seq(T), NEW S
  PROVE  Kept(seq, S) \in Seq(T) /\ Elements(Kept(seq, S)) = {x \in Elements(seq) : x \in S}
<1>1. PICK G \in [0 .. Len(seq) -> Seq(T)] :
          FilterOf(seq, S, G, Len(seq)) /\ Kept(seq, S) = G[Len(seq)]
  BY KeptIsFilter
<1> DEFINE Some(i) == {seq[j] : j \in {k \in 1 .. i : seq[k] \in S}}
           Wrong == {i \in 0 .. Len(seq) : Elements(G[i]) # Some(i)}
<1>2. Len(seq) \in Nat /\ DOMAIN seq = 1 .. Len(seq)
  OBVIOUS
<1>3. Wrong = {}
  <2>1. SUFFICES ASSUME Wrong # {} PROVE FALSE
    OBVIOUS
  <2>2. Wrong \subseteq Nat
    OBVIOUS
  <2>3. PICK m \in Wrong : \A k \in Wrong : m <= k
    <3> HIDE DEF Wrong
    <3> QED BY <2>1, <2>2, LeastElement
  <2>4. m \in 0 .. Len(seq) /\ Elements(G[m]) # Some(m)
    OBVIOUS
  <2>5. m # 0
    <3>1. G[0] = <<>> /\ Some(0) = {}
      BY <1>1 DEF FilterOf
    <3>2. Elements(<<>>) = {}
      BY DEF Elements
    <3> QED BY <2>4, <3>1, <3>2
  <2>6. m - 1 \in 0 .. Len(seq) /\ m \in 1 .. Len(seq) /\ ~(m <= m - 1)
    BY <2>4, <2>5, <1>2
  <2>7. Elements(G[m - 1]) = Some(m - 1) /\ G[m - 1] \in Seq(T)
    BY <2>3, <2>6
  <2>8. G[m] = FilterStep(seq, S, m, G[m - 1])
    BY <2>6, <1>1 DEF FilterOf
  <2>9. seq[m] \in T
    BY <2>6, ElementOfSeq
  <2>10. \A k \in 1 .. m : k = m \/ k \in 1 .. m - 1
    BY <2>6
  <2>10a. \A k \in 1 .. m - 1 : k \in 1 .. m
    BY <2>6
  <2>11. m \in 1 .. m
    BY <2>6
  <2>12. CASE seq[m] \in S
    <3>1. Elements(G[m]) = Some(m - 1) \cup {seq[m]}
      BY <2>7, <2>8, <2>9, <2>12, ElementsAppend DEF FilterStep
    <3>2. Some(m) = Some(m - 1) \cup {seq[m]}
      BY <2>10, <2>10a, <2>11, <2>12
    <3> QED BY <3>1, <3>2, <2>4
  <2>13. CASE seq[m] \notin S
    <3>1. Elements(G[m]) = Some(m - 1)
      BY <2>7, <2>8, <2>13 DEF FilterStep
    <3>2. Some(m) = Some(m - 1)
      BY <2>10, <2>10a, <2>13
    <3> QED BY <3>1, <3>2, <2>4
  <2> QED BY <2>12, <2>13
<1>4. Elements(G[Len(seq)]) = Some(Len(seq))
  BY <1>2, <1>3
<1>5. Some(Len(seq)) = {x \in Elements(seq) : x \in S}
  BY <1>2 DEF Elements
<1> QED BY <1>1, <1>2, <1>4, <1>5

LEMMA WithoutType ==
  ASSUME NEW seq \in Seq(Entry), NEW p
  PROVE  Without(seq, p) \in Seq(Entry)
  BY KeptFacts DEF Without

\* A removal leaves no tool of the plugin.
LEMMA WithoutGone ==
  ASSUME NEW seq \in Seq(Entry), NEW p
  PROVE  \A e \in Elements(Without(seq, p)) : e.name[1] # p
  BY KeptFacts DEF Without

-----------------------------------------------------------------------------
(* A lookup *)

All == entries \o remote

LEMMA LookupFacts ==
  ASSUME RegistryTypeOK, NEW name, Index(name) # NotFound
  PROVE  /\ Index(name) \in DOMAIN All
         /\ Lookup(name) \in Entry
         /\ Lookup(name).name = name \/ ShortOf(Lookup(name).name) = name
<1>1. All \in Seq(Entry)
  BY DEF All, RegistryTypeOK
<1>2. DOMAIN All = 1 .. Len(All) /\ Len(All) \in Nat
  BY <1>1
<1> DEFINE full == {i \in DOMAIN All : All[i].name = name}
           short == {i \in DOMAIN All : ShortOf(All[i].name) = name}
           found == IF full # {} THEN full ELSE short
<1>3. found # {} /\ Index(name) = CHOOSE i \in found : \A j \in found : i <= j
  BY Zenon DEF Index, All
<1>4. found \subseteq Nat
  BY <1>2
<1>5. Index(name) \in found
  <2> HIDE DEF found
  <2> QED BY <1>3, <1>4, LeastElement
<1>6. Index(name) \in DOMAIN All
  BY <1>5
<1>7. Lookup(name) = All[Index(name)]
  BY DEF Lookup, All
<1>8. All[Index(name)] \in Entry
  BY <1>1, <1>2, <1>6, ElementOfSeq
<1>9. Lookup(name).name = name \/ ShortOf(Lookup(name).name) = name
  BY <1>5, <1>7, Zenon
<1> QED BY <1>6, <1>7, <1>8, <1>9

-----------------------------------------------------------------------------
(* The schemas on offer *)

RegistryInv == RegistryTypeOK /\ SchemasExact

LEMMA NamesType ==
  ASSUME NEW seq \in Seq(Entry) PROVE NamesOf(seq) \in Seq(Qualified)
<1>1. Len(seq) \in Nat /\ DOMAIN seq = 1 .. Len(seq)
  OBVIOUS
<1>2. \A i \in 1 .. Len(seq) : seq[i].name \in Qualified
  <2> TAKE i \in 1 .. Len(seq)
  <2>1. seq[i] \in Entry
    BY ElementOfSeq
  <2> QED BY <2>1 DEF Entry
<1>3. NamesOf(seq) \in [1 .. Len(seq) -> Qualified]
  BY <1>1, <1>2 DEF NamesOf
<1> QED BY <1>1, <1>3, SeqDef

\* Every change of the registry refreshes its schemas.
LEMMA RebuildInv ==
  ASSUME entries' \in Seq(Entry), remote' \in Seq(Entry), Rebuild
  PROVE  RegistryInv'
<1>1. entries' \o remote' \in Seq(Entry)
  OBVIOUS
<1>2. schemas' \in Seq(Qualified)
  BY <1>1, NamesType DEF Rebuild
<1> QED BY <1>2 DEF RegistryInv, RegistryTypeOK, SchemasExact, Rebuild

LEMMA RegisterRemoteInv ==
  ASSUME RegistryInv, NEW e \in Entry, RegisterRemote(e) PROVE RegistryInv'
<1>1. remote' \in Seq(Entry) /\ entries' \in Seq(Entry)
  BY DEF RegisterRemote, RegistryInv, RegistryTypeOK
<1> QED BY <1>1, RebuildInv DEF RegisterRemote

LEMMA RegisterProviderInv ==
  ASSUME RegistryInv, NEW tools \in Seq(Entry), RegisterProvider(tools) PROVE RegistryInv'
<1>1. remote' \in Seq(Entry) /\ entries' \in Seq(Entry)
  BY DEF RegisterProvider, RegistryInv, RegistryTypeOK
<1> QED BY <1>1, RebuildInv DEF RegisterProvider

LEMMA UnregisterRemoteInv ==
  ASSUME RegistryInv, NEW p, UnregisterRemotePlugin(p) PROVE RegistryInv'
<1>1. remote' \in Seq(Entry) /\ entries' \in Seq(Entry)
  BY WithoutType DEF UnregisterRemotePlugin, RegistryInv, RegistryTypeOK
<1> QED BY <1>1, RebuildInv DEF UnregisterRemotePlugin

LEMMA UnregisterPluginInv ==
  ASSUME RegistryInv, NEW p, UnregisterPlugin(p) PROVE RegistryInv'
<1>1. remote' \in Seq(Entry) /\ entries' \in Seq(Entry)
  BY WithoutType DEF UnregisterPlugin, RegistryInv, RegistryTypeOK
<1> QED BY <1>1, RebuildInv DEF UnregisterPlugin
=============================================================================
