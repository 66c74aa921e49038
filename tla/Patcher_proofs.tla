--------------------------- MODULE Patcher_proofs ---------------------------
(***************************************************************************)
(* For every set of builds of the firmware and every set of command lines: *)
(* PatchedOrRefused.  The first part computes with the tables of the six   *)
(* patchers, whose sites do not overlap, stay inside the loaded segment    *)
(* and jump to each other's entries (WellFormed); the second part reasons  *)
(* about a run from that alone.                                            *)
(* (Leaves with large numerals name SMT: Zenon writes numerals in unary.)  *)
(***************************************************************************)
EXTENDS Patcher, TLAPS

\* Two sites of one table do not overlap.
Apart(S) == \A s, q \in S : s = q \/ Past(s) <= q.at \/ Past(q) <= s.at
Typed(S) == \A s \in S : s.at \in Nat /\ s.length \in Nat /\ s.length > 0
\* Every jump of the sites S, loaded up to end, lands.
Lands(S, end) ==
  \A s \in S : \A to \in s.goes :
    \/ \E q \in S : to \in q.entries /\ Past(q) <= end
    \/ to \in Rejoined /\ \A q \in S : to < q.at \/ to >= Past(q)
\* The table of one mode tells its patched files from those of the other.
ModesDiffer(p) ==
  \/ p.sites["release"] = p.sites["debug"] /\ \A s \in p.sites["release"] : ~s.varies
  \/ \E s \in p.sites["release"], q \in p.sites["debug"] : s.at = q.at /\ s.varies /\ q.varies

WellFormed(p) ==
  /\ \A m \in Modes : Typed(p.sites[m]) /\ Apart(p.sites[m]) /\ Lands(p.sites[m], p.end[m])
  /\ \A m \in Modes : p.end[m] \in Nat /\ p.limit \in Nat /\ p.end[m] <= p.limit
  /\ ModesDiffer(p)

-----------------------------------------------------------------------------
(* The fields of a site and of a patcher.                                  *)

LEMMA CodeFields ==
  ASSUME NEW at, NEW length, NEW varies, NEW goes, NEW entries, NEW s,
         s = Code(at, length, varies, goes, entries)
  PROVE  /\ s.at = at /\ s.length = length /\ s.varies = varies
         /\ s.goes = goes /\ s.entries = entries
  BY DEF Code

LEMMA SiteFields ==
  ASSUME NEW at, NEW length, NEW s, s = Site(at, length)
  PROVE  s.at = at /\ s.length = length /\ s.varies = FALSE /\ s.goes = {} /\ s.entries = {at}
  BY DEF Site, Code

LEMMA PlainFields ==
  ASSUME NEW S, NEW p, p.sites = [m \in Modes |-> S], p.end = [m \in Modes |-> 0], p.limit = 0,
         Typed(S), Apart(S), \A s \in S : s.goes = {} /\ ~s.varies
  PROVE  WellFormed(p)
<1>1. p.sites["release"] = S /\ p.sites["debug"] = S /\ \A m \in Modes : p.sites[m] = S /\ p.end[m] = 0
  BY DEF Modes
<1>2. ModesDiffer(p) BY <1>1 DEF ModesDiffer
<1>3. \A m \in Modes : Lands(p.sites[m], p.end[m]) BY <1>1 DEF Lands
<1> QED BY <1>1, <1>2, <1>3 DEF WellFormed

LEMMA OneSite ==
  ASSUME NEW at \in Nat, NEW length \in Nat, length > 0
  PROVE  LET S == {Site(at, length)}
         IN  Typed(S) /\ Apart(S) /\ \A s \in S : s.goes = {} /\ ~s.varies
<1> DEFINE S == {Site(at, length)}
<1>1. \A s \in S : s.at = at /\ s.length = length /\ s.varies = FALSE /\ s.goes = {}
  BY DEF Site, Code
<1>2. \A s, q \in S : s = q OBVIOUS
<1> HIDE DEF S
<1>3. Typed(S) BY SMT, <1>1 DEF Typed
<1>4. Apart(S) BY <1>2 DEF Apart
<1>5. Typed(S) /\ Apart(S) /\ \A s \in S : s.goes = {} /\ ~s.varies BY <1>1, <1>3, <1>4
<1> QED BY <1>5 DEF S

LEMMA LibextavrcpWell == WellFormed(libextavrcp)
<1> DEFINE S == {Site(\h2266, 2)}
<1>1. Typed(S) /\ Apart(S) /\ \A s \in S : s.goes = {} /\ ~s.varies BY SMT, OneSite
<1> HIDE DEF S
<1>2. WellFormed(Plain(S)) BY <1>1, PlainFields DEF Plain, Kind
<1> QED BY <1>2 DEF libextavrcp, S

LEMMA LibaudioWell == WellFormed(libaudio_a2dp)
<1> DEFINE S == {Site(\h86AB, 1)}
<1>1. Typed(S) /\ Apart(S) /\ \A s \in S : s.goes = {} /\ ~s.varies BY SMT, OneSite
<1> HIDE DEF S
<1>2. WellFormed(Plain(S)) BY <1>1, PlainFields DEF Plain, Kind
<1> QED BY <1>2 DEF libaudio_a2dp, S

LEMMA AvrcpKlWell == WellFormed(avrcp_kl)
<1> DEFINE S == {Site(\h2AC, 35)}
<1>1. Typed(S) /\ Apart(S) /\ \A s \in S : s.goes = {} /\ ~s.varies BY SMT, OneSite
<1> HIDE DEF S
<1>2. WellFormed([Plain(S) EXCEPT !.always = TRUE]) BY <1>1, PlainFields DEF Plain, Kind
<1> QED BY <1>2 DEF avrcp_kl, S

LEMMA OdexSitesWell == Typed(OdexSites) /\ Apart(OdexSites) /\ \A s \in OdexSites : s.goes = {} /\ ~s.varies
<1>1. \A s \in OdexSites :
        /\ s.varies = FALSE /\ s.goes = {}
        /\ \/ s.at = \h3E0EA /\ s.length = 1 /\ s = Site(\h3E0EA, 1)
           \/ s.at = \h3C530 /\ s.length = 4 /\ s = Site(\h3C530, 4)
           \/ s.at = \h3C4FE /\ s.length = 4 /\ s = Site(\h3C4FE, 4)
           \/ s.at = \h3B310 /\ s.length = 4 /\ s = Site(\h3B310, 4)
           \/ s.at = \h3F21A /\ s.length = 14 /\ s = Site(\h3F21A, 14)
  BY SMT DEF OdexSites, Site, Code
<1>2. Typed(OdexSites) BY SMT, <1>1 DEF Typed
<1>3. Apart(OdexSites)
  <2> SUFFICES ASSUME NEW s \in OdexSites, NEW q \in OdexSites
               PROVE  s = q \/ Past(s) <= q.at \/ Past(q) <= s.at
    BY DEF Apart
  <2> QED BY SMT, <1>1 DEF Past
<1> QED BY <1>1, <1>2, <1>3

LEMMA OdexWell == WellFormed(mtkbt_odex)
BY OdexSitesWell, PlainFields DEF mtkbt_odex, Plain, Kind

-----------------------------------------------------------------------------
(* libextavrcp_jni.so.                                                     *)

LEMMA JniLabels ==
  /\ Labels("release") = [T1 |-> 44116, T2 |-> \hAEE0, T5 |-> \hAF38, T9 |-> \hB550, past |-> 47272]
  /\ Labels("debug") = [T1 |-> 44116, T2 |-> \hAEF4, T5 |-> \hAF60, T9 |-> \hB578, past |-> 47428]
BY SMT DEF Labels, T4_VADDR

LEMMA JniJump == Wide(\h6538, \hF000, \hFEE6) = \h7308
BY SMT DEF Wide, T4Offset, T4Value, Signed, Bits, Xor, Bit22, Bit23, Bit24, Bit25

LEMMA JniBlob ==
  ASSUME NEW m \in Modes
  PROVE  /\ Labels(m).past \in Nat /\ 47272 <= Labels(m).past /\ Labels(m).past <= 47428
         /\ Labels(m).T1 = 44116
BY SMT, JniLabels DEF Modes

\* Where they are.
JniPlaces(s, past) ==
  \/ s.at = \h7308 /\ s.length = 40
  \/ s.at = \h3BC0 /\ s.length = 4
  \/ s.at = \h3C88 /\ s.length = 4
  \/ s.at = \h72D0 /\ s.length = 48
  \/ s.at = \h6538 /\ s.length = 4
  \/ s.at = \h74E8 /\ s.length = 4
  \/ s.at = 44116 /\ s.length = past - 44116
  \/ s.at = \h64 /\ s.length = 4
  \/ s.at = \h68 /\ s.length = 4

LEMMA JniPlacesAre ==
  ASSUME NEW m \in Modes, NEW s \in JniSites(m)
  PROVE  JniPlaces(s, Labels(m).past)
BY SMT DEF JniSites, Stubs, Site, Code, JniPlaces, T4_VADDR

LEMMA JniUnique ==
  ASSUME NEW m \in Modes, NEW s \in JniSites(m), NEW q \in JniSites(m), s.at = q.at
  PROVE  s = q
<1> DEFINE to == Labels(m)
           c1 == Code(\h7308, 40, FALSE, {to.T1}, {\h7308})
           c2 == Code(\h3BC0, 4, TRUE, {to.T5}, {\h3BC0})
           c3 == Code(\h3C88, 4, TRUE, {to.T9}, {\h3C88})
           c4 == Code(\h72D0, 48, TRUE, {to.T2}, {\h72D0, \h72D4})
           c5 == Code(\h6538, 4, FALSE, {Wide(\h6538, \hF000, \hFEE6)}, {\h6538})
           c6 == Site(\h74E8, 4)
           c7 == Code(T4_VADDR, to.past - T4_VADDR, TRUE, {}, {to.T1, to.T2, to.T5, to.T9})
           c8 == Code(\h64, 4, TRUE, {}, {})
           c9 == Code(\h68, 4, TRUE, {}, {})
<1>1. JniSites(m) = {c1, c2, c3, c4} \cup {c5, c6, c7, c8, c9} BY DEF JniSites, Stubs
<1>2. /\ c1.at = \h7308 /\ c2.at = \h3BC0 /\ c3.at = \h3C88 /\ c4.at = \h72D0 /\ c5.at = \h6538
      /\ c6.at = \h74E8 /\ c7.at = 44116 /\ c8.at = \h64 /\ c9.at = \h68
  BY SMT DEF Code, Site, T4_VADDR
<1> HIDE DEF c1, c2, c3, c4, c5, c6, c7, c8, c9
<1>3. /\ s \in {c1, c2, c3, c4, c5, c6, c7, c8, c9}
      /\ q \in {c1, c2, c3, c4, c5, c6, c7, c8, c9}
  BY <1>1
<1> QED BY SMT, <1>2, <1>3

LEMMA JniApart ==
  ASSUME NEW m \in Modes
  PROVE  Typed(JniSites(m)) /\ Apart(JniSites(m))
<1>1. Typed(JniSites(m))
  <2> SUFFICES ASSUME NEW s \in JniSites(m)
               PROVE  s.at \in Nat /\ s.length \in Nat /\ s.length > 0
    BY DEF Typed
  <2> QED BY SMT, JniPlacesAre, JniBlob DEF JniPlaces
<1>2. Apart(JniSites(m))
  <2> SUFFICES ASSUME NEW s \in JniSites(m), NEW q \in JniSites(m), s.at # q.at
               PROVE  Past(s) <= q.at \/ Past(q) <= s.at
    BY JniUnique DEF Apart
  <2>1. JniPlaces(s, Labels(m).past) /\ JniPlaces(q, Labels(m).past) BY JniPlacesAre
  <2> QED BY SMT, <2>1, JniBlob DEF JniPlaces, Past
<1> QED BY <1>1, <1>2

\* Where a site that is there by its definition is.
LEMMA JniEntries ==
  ASSUME NEW m \in Modes
  PROVE  /\ \E q \in JniSites(m) : q.at = \h7308 /\ q.length = 40 /\ q.entries = {\h7308}
         /\ \E q \in JniSites(m) :
              /\ q.at = 44116 /\ q.length = Labels(m).past - 44116
              /\ q.entries = {Labels(m).T1, Labels(m).T2, Labels(m).T5, Labels(m).T9}
         /\ \E q \in JniSites(m) : q.at = \h64 /\ q.varies
BY DEF JniSites, Stubs, Code, T4_VADDR

LEMMA JniLands ==
  ASSUME NEW m \in Modes
  PROVE  Lands(JniSites(m), Labels(m).past)
<1> SUFFICES ASSUME NEW s \in JniSites(m), NEW to \in s.goes
             PROVE  \E q \in JniSites(m) : to \in q.entries /\ Past(q) <= Labels(m).past
  BY DEF Lands
<1>1. to = \h7308 \/ to \in {Labels(m).T1, Labels(m).T2, Labels(m).T5, Labels(m).T9}
  <2>1. to \in {\h7308, Labels(m).T1, Labels(m).T2, Labels(m).T5, Labels(m).T9}
    BY SMT, JniJump DEF JniSites, Stubs, Site, Code
  <2> QED BY <2>1
<1>2. ASSUME to = \h7308 PROVE \E q \in JniSites(m) : to \in q.entries /\ Past(q) <= Labels(m).past
  <2>1. PICK q \in JniSites(m) : q.at = \h7308 /\ q.length = 40 /\ q.entries = {\h7308}
    BY JniEntries
  <2>2. Past(q) <= Labels(m).past BY SMT, <2>1, JniBlob DEF Past
  <2> QED BY <1>2, <2>1, <2>2
<1>3. ASSUME to \in {Labels(m).T1, Labels(m).T2, Labels(m).T5, Labels(m).T9}
      PROVE  \E q \in JniSites(m) : to \in q.entries /\ Past(q) <= Labels(m).past
  <2>1. PICK q \in JniSites(m) :
               /\ q.at = 44116 /\ q.length = Labels(m).past - 44116
               /\ q.entries = {Labels(m).T1, Labels(m).T2, Labels(m).T5, Labels(m).T9}
    BY JniEntries
  <2>2. Past(q) <= Labels(m).past BY SMT, <2>1, JniBlob DEF Past
  <2> QED BY <1>3, <2>1, <2>2
<1> QED BY <1>1, <1>2, <1>3

LEMMA JniWell == WellFormed(libextavrcp_jni)
<1> DEFINE p == libextavrcp_jni
<1>1. /\ p.sites = [m \in Modes |-> JniSites(m)] /\ p.end = [m \in Modes |-> Labels(m).past]
      /\ p.limit = \hBC08
  BY DEF libextavrcp_jni, Kind
<1> HIDE DEF p
<1>2. \A m \in Modes : p.sites[m] = JniSites(m) /\ p.end[m] = Labels(m).past BY <1>1
<1>3. \A m \in Modes : p.end[m] \in Nat /\ p.limit \in Nat /\ p.end[m] <= p.limit
  BY SMT, <1>1, <1>2, JniBlob
<1>4. ModesDiffer(p)
  <2>1. "release" \in Modes /\ "debug" \in Modes BY DEF Modes
  <2>2. PICK s \in JniSites("release") : s.at = \h64 /\ s.varies BY <2>1, JniEntries
  <2>3. PICK q \in JniSites("debug") : q.at = \h64 /\ q.varies BY <2>1, JniEntries
  <2> QED BY <1>2, <2>1, <2>2, <2>3 DEF ModesDiffer
<1>5. \A m \in Modes : Typed(p.sites[m]) /\ Apart(p.sites[m]) /\ Lands(p.sites[m], p.end[m])
  BY <1>2, JniApart, JniLands
<1>6. WellFormed(p) BY <1>3, <1>4, <1>5 DEF WellFormed
<1> QED BY <1>6 DEF p

-----------------------------------------------------------------------------
(* mtkbt: the sites that both modes have, and those at M5's cave.          *)

HeaderSites == {Code(\h84, 4, TRUE, {}, {}), Code(\h88, 4, TRUE, {}, {})}
BaseSites == SdpSites \cup FrameSites \cup GateSites \cup HeaderSites
CaveSites(mode) == IF mode = "debug" THEN DebugSites ELSE EchoSites

LEMMA MtkbtParts == ASSUME NEW m \in Modes PROVE MtkbtSites(m) = BaseSites \cup CaveSites(m)
BY DEF MtkbtSites, BaseSites, HeaderSites, CaveSites

LEMMA MtkbtJumps ==
  /\ \hAA81E + 2 * \h83 = \hAA924
  /\ Narrow(\h144E8, \hE01E) = \h14528
  /\ Wide(\h6D186, \hF086, \hBA7B) = \hF3680
  /\ Wide(\hF3694, \hF779, \hBD7A) = \h6D18C
BY SMT DEF Narrow, Wide, T4Offset, T4Value, Signed, Bits, Xor, Bit22, Bit23, Bit24, Bit25

LEMMA CaveFields ==
  /\ D1Cave.at = \hF36A0 /\ D1Cave.length = 50 /\ D1Cave.goes = {\hAE44C} /\ D1Cave.entries = {\hF36A0}
  /\ D2Cave.at = \hF3700 /\ D2Cave.length = 74 /\ D2Cave.goes = {\h6D18C} /\ D2Cave.entries = {\hF3700}
BY SMT DEF D1Cave, D2Cave, Code

LEMMA MtkbtEnds == MtkbtEnd("release") = \hF3698 /\ MtkbtEnd("debug") = \hF374C
<1>1. MtkbtEnd("release") = \hF3698 BY DEF MtkbtEnd
<1>2. Aligned4(Past(D1Cave)) = \hF36D4 /\ Aligned4(Past(D2Cave)) = \hF374C
  BY SMT, CaveFields DEF Aligned4, Past
<1>3. Max({\hF3698, \hF36D4, \hF374C}) = \hF374C
  <2> DEFINE S == {\hF3698, \hF36D4, \hF374C}
  <2>1. \hF374C \in S /\ \A y \in S : \hF374C >= y BY SMT
  <2>2. \A x \in S : (\A y \in S : x >= y) => x = \hF374C BY SMT
  <2> HIDE DEF S
  <2>3. Max(S) = \hF374C BY <2>1, <2>2 DEF Max
  <2> QED BY <2>3 DEF S
<1> QED BY <1>1, <1>2, <1>3 DEF MtkbtEnd

SdpPlaces(s) ==
  \/ s.at = \hEBA58 /\ s.length = 1
  \/ s.at = \h10DCA /\ s.length = 2
  \/ s.at = \hEBA6D /\ s.length = 1
  \/ s.at = \hEB9F2 /\ s.length = 1
  \/ s.at = \hEBA09 /\ s.length = 1
  \/ s.at = \hAA834 /\ s.length = 2
  \/ s.at = \hF97EC /\ s.length = 12
  \/ s.at = \hF9798 /\ s.length = 12
  \/ s.at = \hEBA4E /\ s.length = 1
  \/ s.at = \hEB938 /\ s.length = 4
CodePlaces(s) ==
  \/ s.at = \h144E8 /\ s.length = 2
  \/ s.at = \h12230 /\ s.length = 2
  \/ s.at = \h12244 /\ s.length = 2
  \/ s.at = \hFA38 /\ s.length = 4
  \/ s.at = \h6D06E /\ s.length = 2
  \/ s.at = \h6DF42 /\ s.length = 4
  \/ s.at = \h6DF3A /\ s.length = 2
  \/ s.at = \h6D116 /\ s.length = 2
  \/ s.at = \h84 /\ s.length = 4
  \/ s.at = \h88 /\ s.length = 4

LEMMA BasePlacesAre ==
  ASSUME NEW s \in BaseSites
  PROVE  SdpPlaces(s) \/ CodePlaces(s)
<1>1. CASE s \in SdpSites
  <2>1. SdpPlaces(s) BY SMT, <1>1 DEF SdpSites, Site, Code, SdpPlaces
  <2> QED BY <2>1
<1>2. CASE s \notin SdpSites
  <2>1. s \in FrameSites \cup GateSites \cup HeaderSites
    BY <1>2 DEF BaseSites
  <2>2. CodePlaces(s)
    BY SMT, <2>1 DEF FrameSites, GateSites, HeaderSites, Site, Code, CodePlaces
  <2> QED BY <2>2
<1> QED BY <1>1, <1>2

LEMMA BaseUnique ==
  ASSUME NEW s \in BaseSites, NEW q \in BaseSites, s.at = q.at
  PROVE  s = q
<1> DEFINE a1 == Site(\hEBA58, 1)
           a2 == Site(\h10DCA, 2)
           a3 == Site(\hEBA6D, 1)
           a4 == Site(\hEB9F2, 1)
           a5 == Site(\hEBA09, 1)
           a6 == Code(\hAA834, 2, FALSE, {\hAA81E + 2 * \h83}, {})
           a7 == Site(\hF97EC, 12)
           a8 == Site(\hF9798, 12)
           a9 == Site(\hEBA4E, 1)
           a10 == Site(\hEB938, 4)
           b1 == Code(\h144E8, 2, FALSE, {Narrow(\h144E8, \hE01E)}, {\h144E8})
           b2 == Site(\h12230, 2)
           b3 == Site(\h12244, 2)
           b4 == Site(\hFA38, 4)
           c1 == Site(\h6D06E, 2)
           c2 == Site(\h6DF42, 4)
           c3 == Site(\h6DF3A, 2)
           c4 == Site(\h6D116, 2)
           d1 == Code(\h84, 4, TRUE, {}, {})
           d2 == Code(\h88, 4, TRUE, {}, {})
<1>1. BaseSites = {a1, a2, a3, a4, a5, a6, a7, a8, a9, a10} \cup {b1, b2, b3, b4} \cup {c1, c2, c3, c4} \cup {d1, d2}
  BY DEF BaseSites, SdpSites, FrameSites, GateSites, HeaderSites
<1>2. /\ a1.at = \hEBA58 /\ a2.at = \h10DCA /\ a3.at = \hEBA6D /\ a4.at = \hEB9F2 /\ a5.at = \hEBA09
      /\ a6.at = \hAA834 /\ a7.at = \hF97EC /\ a8.at = \hF9798 /\ a9.at = \hEBA4E /\ a10.at = \hEB938
      /\ b1.at = \h144E8 /\ b2.at = \h12230 /\ b3.at = \h12244 /\ b4.at = \hFA38
      /\ c1.at = \h6D06E /\ c2.at = \h6DF42 /\ c3.at = \h6DF3A /\ c4.at = \h6D116
      /\ d1.at = \h84 /\ d2.at = \h88
  BY SMT DEF Code, Site
<1> HIDE DEF a1, a2, a3, a4, a5, a6, a7, a8, a9, a10, b1, b2, b3, b4, c1, c2, c3, c4, d1, d2
<1> DEFINE All == {a1, a2, a3, a4, a5, a6, a7, a8, a9, a10, b1, b2, b3, b4, c1, c2, c3, c4, d1, d2}
<1>3. s \in All /\ q \in All BY <1>1
<1> QED BY SMT, <1>2, <1>3

CavePlaces(s, mode) ==
  \/ s.at = \h6D186 /\ s.length = 6
  \/ s.at = \hF3680 /\ s.length = 24
  \/ mode = "debug" /\ \/ s.at = \hAE448 /\ s.length = 4
                       \/ s.at = \hF36A0 /\ s.length = 50
                       \/ s.at = \hF3700 /\ s.length = 74

LEMMA CavePlacesAre ==
  ASSUME NEW m \in Modes, NEW s \in CaveSites(m)
  PROVE  CavePlaces(s, m)
BY SMT, CaveFields DEF CaveSites, DebugSites, EchoSites, EchoCave, Hook, Code, CavePlaces, Modes

LEMMA CaveUnique ==
  ASSUME NEW m \in Modes, NEW s \in CaveSites(m), NEW q \in CaveSites(m), s.at = q.at
  PROVE  s = q
<1> DEFINE e1 == Code(\h6D186, 6, FALSE, {Wide(\h6D186, \hF086, \hBA7B)}, {\h6D186})
           e2 == EchoCave("release", Wide(\hF3694, \hF779, \hBD7A))
           e3 == EchoCave("debug", D2Cave.at)
<1>1. /\ e1.at = \h6D186 /\ e2.at = \hF3680 /\ e3.at = \hF3680 /\ Hook.at = \hAE448
      /\ D1Cave.at = \hF36A0 /\ D2Cave.at = \hF3700
  BY SMT, CaveFields DEF Code, EchoCave, Hook
<1>2. EchoSites = {e1, e2} BY DEF EchoSites
<1>3. \A x \in DebugSites : (x \in EchoSites /\ x.at # \hF3680) \/ x \in {e3, Hook, D1Cave, D2Cave}
  BY DEF DebugSites
<1> HIDE DEF e1, e2, e3
<1>4. \A x \in DebugSites : x \in {e1, e3, Hook, D1Cave, D2Cave}
  BY <1>1, <1>2, <1>3
<1>5. CASE m = "debug"
  <2>1. s \in {e1, e3, Hook, D1Cave, D2Cave} /\ q \in {e1, e3, Hook, D1Cave, D2Cave} BY <1>4, <1>5 DEF CaveSites
  <2> QED BY SMT, <1>1, <2>1
<1>6. CASE m # "debug"
  <2>1. s \in {e1, e2} /\ q \in {e1, e2} BY <1>2, <1>6 DEF CaveSites
  <2> QED BY SMT, <1>1, <2>1
<1> QED BY <1>5, <1>6

LEMMA MtkbtApart ==
  ASSUME NEW m \in Modes
  PROVE  Typed(MtkbtSites(m)) /\ Apart(MtkbtSites(m))
<1>1. \A s \in MtkbtSites(m) : s \in BaseSites \/ s \in CaveSites(m) BY MtkbtParts
<1>2. Typed(MtkbtSites(m))
  <2> SUFFICES ASSUME NEW s \in MtkbtSites(m)
               PROVE  s.at \in Nat /\ s.length \in Nat /\ s.length > 0
    BY DEF Typed
  <2>1. CASE SdpPlaces(s) BY SMT, <2>1 DEF SdpPlaces
  <2>2. CASE CodePlaces(s) BY SMT, <2>2 DEF CodePlaces
  <2>3. CASE CavePlaces(s, m) BY SMT, <2>3 DEF CavePlaces
  <2> QED BY <1>1, <2>1, <2>2, <2>3, BasePlacesAre, CavePlacesAre
<1>3. Apart(MtkbtSites(m))
  <2> DEFINE Away(s, q) == Past(s) <= q.at \/ Past(q) <= s.at
  <2>1. ASSUME NEW s \in BaseSites, NEW q \in BaseSites, s.at # q.at PROVE Away(s, q)
    <3>1. SdpPlaces(s) \/ CodePlaces(s) BY BasePlacesAre
    <3>2. SdpPlaces(q) \/ CodePlaces(q) BY BasePlacesAre
    <3>3. CASE SdpPlaces(s) /\ SdpPlaces(q) BY SMT, <2>1, <3>3 DEF SdpPlaces, Past
    <3>4. CASE SdpPlaces(s) /\ CodePlaces(q) BY SMT, <2>1, <3>4 DEF SdpPlaces, CodePlaces, Past
    <3>5. CASE CodePlaces(s) /\ SdpPlaces(q) BY SMT, <2>1, <3>5 DEF SdpPlaces, CodePlaces, Past
    <3>6. CASE CodePlaces(s) /\ CodePlaces(q) BY SMT, <2>1, <3>6 DEF CodePlaces, Past
    <3> QED BY <3>1, <3>2, <3>3, <3>4, <3>5, <3>6
  <2>2. ASSUME NEW s \in BaseSites, NEW q \in CaveSites(m) PROVE Away(s, q)
    <3>1. SdpPlaces(s) \/ CodePlaces(s) BY BasePlacesAre
    <3>2. CavePlaces(q, m) BY CavePlacesAre
    <3>3. CASE SdpPlaces(s) BY SMT, <3>2, <3>3 DEF SdpPlaces, CavePlaces, Past
    <3>4. CASE CodePlaces(s) BY SMT, <3>2, <3>4 DEF CodePlaces, CavePlaces, Past
    <3> QED BY <3>1, <3>3, <3>4
  <2>3. ASSUME NEW s \in CaveSites(m), NEW q \in CaveSites(m), s.at # q.at PROVE Away(s, q)
    BY SMT, <2>3, CavePlacesAre DEF CavePlaces, Past
  <2> QED BY <1>1, <2>1, <2>2, <2>3, BaseUnique, CaveUnique DEF Apart
<1> QED BY <1>2, <1>3

\* The jumps of the sites that both modes have lead back into stock code.
LEMMA BaseGoes ==
  ASSUME NEW s \in BaseSites, NEW to \in s.goes
  PROVE  to = \hAA924 \/ to = \h14528
<1>1. CASE s \in SdpSites
  BY SMT, <1>1, MtkbtJumps DEF SdpSites, Site, Code
<1>2. CASE s \in FrameSites
  BY SMT, <1>2, MtkbtJumps DEF FrameSites, Site, Code
<1>3. CASE s \in GateSites \cup HeaderSites
  BY SMT, <1>3 DEF GateSites, HeaderSites, Site, Code
<1>4. s \in SdpSites \/ s \in FrameSites \/ s \in GateSites \cup HeaderSites BY DEF BaseSites
<1> QED BY SMT, <1>1, <1>2, <1>3, <1>4

\* Those of the caves lead to each other, or behind the hooked instructions.
LEMMA CaveGoes ==
  ASSUME NEW m \in Modes, NEW s \in CaveSites(m), NEW to \in s.goes
  PROVE  \/ to \in {\h6D18C, \hF3680}
         \/ m = "debug" /\ to \in {\hAE44C, \hF36A0, \hF3700}
<1>1. \A x \in EchoSites : x.goes \in {{\hF3680}, {\h6D18C}}
  BY SMT, MtkbtJumps DEF EchoSites, EchoCave, Code
<1>2. CASE m = "debug"
  <2>1. Hook.goes = {\hF36A0} /\ EchoCave("debug", D2Cave.at).goes = {\hF3700}
    BY SMT, CaveFields DEF Hook, EchoCave, Code
  <2>2. s.goes \in {{\hF3680}, {\h6D18C}, {\hF36A0}, {\hF3700}, {\hAE44C}}
    BY SMT, <1>1, <1>2, <2>1, CaveFields DEF CaveSites, DebugSites
  <2> QED BY SMT, <1>2, <2>2
<1>3. CASE m # "debug"
  <2>1. s.goes \in {{\hF3680}, {\h6D18C}} BY SMT, <1>1, <1>3 DEF CaveSites
  <2> QED BY SMT, <2>1
<1> QED BY <1>2, <1>3

LEMMA CaveEntries ==
  ASSUME NEW m \in Modes
  PROVE  /\ \E q \in CaveSites(m) : q.at = \hF3680 /\ q.length = 24 /\ q.entries = {\hF3680}
         /\ m = "debug" => /\ D1Cave \in CaveSites(m)
                           /\ D2Cave \in CaveSites(m)
<1>1. CASE m = "debug"
  <2> DEFINE e == EchoCave("debug", D2Cave.at)
  <2>1. e.at = \hF3680 /\ e.length = 24 /\ e.entries = {\hF3680} BY SMT DEF EchoCave, Code
  <2>2. e \in CaveSites(m) BY <1>1 DEF CaveSites, DebugSites
  <2>3. D1Cave \in CaveSites(m) /\ D2Cave \in CaveSites(m) BY <1>1 DEF CaveSites, DebugSites
  <2> QED BY <2>1, <2>2, <2>3
<1>2. CASE m # "debug"
  <2> DEFINE e == EchoCave("release", Wide(\hF3694, \hF779, \hBD7A))
  <2>1. e.at = \hF3680 /\ e.length = 24 /\ e.entries = {\hF3680} BY SMT DEF EchoCave, Code
  <2>2. e \in CaveSites(m) BY <1>2 DEF CaveSites, EchoSites
  <2> QED BY <1>2, <2>1, <2>2
<1> QED BY <1>1, <1>2

LEMMA RejoinedKept ==
  ASSUME NEW m \in Modes, NEW q \in MtkbtSites(m),
         NEW to, to \in {\hAA924, \h14528, \h6D18C} \/ (m = "debug" /\ to = \hAE44C)
  PROVE  to < q.at \/ to >= Past(q)
<1>1. SdpPlaces(q) \/ CodePlaces(q) \/ CavePlaces(q, m) BY MtkbtParts, BasePlacesAre, CavePlacesAre
<1>2. CASE SdpPlaces(q) BY SMT, <1>2 DEF SdpPlaces, Past
<1>3. CASE CodePlaces(q) BY SMT, <1>3 DEF CodePlaces, Past
<1>4. CASE CavePlaces(q, m) BY SMT, <1>4 DEF CavePlaces, Past
<1> QED BY <1>1, <1>2, <1>3, <1>4

LEMMA MtkbtLands ==
  ASSUME NEW m \in Modes
  PROVE  Lands(MtkbtSites(m), MtkbtEnd(m))
<1> SUFFICES ASSUME NEW s \in MtkbtSites(m), NEW to \in s.goes
             PROVE  \/ \E q \in MtkbtSites(m) : to \in q.entries /\ Past(q) <= MtkbtEnd(m)
                    \/ to \in Rejoined /\ \A q \in MtkbtSites(m) : to < q.at \/ to >= Past(q)
  BY DEF Lands
<1>1. \/ to \in {\hAA924, \h14528, \h6D18C} \/ (m = "debug" /\ to = \hAE44C)
      \/ to = \hF3680
      \/ m = "debug" /\ (to = D1Cave.at \/ to = D2Cave.at)
  BY SMT, MtkbtParts, BaseGoes, CaveGoes, CaveFields
<1>2. CASE to \in {\hAA924, \h14528, \h6D18C} \/ (m = "debug" /\ to = \hAE44C)
  <2>1. to \in Rejoined BY SMT, <1>2 DEF Rejoined
  <2>2. \A q \in MtkbtSites(m) : to < q.at \/ to >= Past(q) BY SMT, <1>2, RejoinedKept
  <2> QED BY <2>1, <2>2
<1>3. CASE to = \hF3680
  <2>1. PICK q \in CaveSites(m) : q.at = \hF3680 /\ q.length = 24 /\ q.entries = {\hF3680}
    BY SMT, CaveEntries
  <2>2. Past(q) <= MtkbtEnd(m) BY SMT, <2>1, MtkbtEnds DEF Past, Modes
  <2>3. q \in MtkbtSites(m) BY MtkbtParts
  <2> QED BY SMT, <1>3, <2>1, <2>2, <2>3
<1>4. CASE m = "debug" /\ (to = D1Cave.at \/ to = D2Cave.at)
  <2>1. D1Cave \in MtkbtSites(m) /\ D2Cave \in MtkbtSites(m) BY SMT, <1>4, CaveEntries, MtkbtParts
  <2>2. Past(D1Cave) <= MtkbtEnd(m) /\ Past(D2Cave) <= MtkbtEnd(m)
    BY SMT, <1>4, CaveFields, MtkbtEnds DEF Past
  <2>3. D1Cave.at \in D1Cave.entries /\ D2Cave.at \in D2Cave.entries BY SMT, CaveFields
  <2> QED BY <1>4, <2>1, <2>2, <2>3
<1> QED BY SMT, <1>1, <1>2, <1>3, <1>4

LEMMA MtkbtWell == WellFormed(mtkbt)
<1> DEFINE p == mtkbt
<1>1. /\ p.sites = [m \in Modes |-> MtkbtSites(m)] /\ p.end = [m \in Modes |-> MtkbtEnd(m)]
      /\ p.limit = \hF3D40
  BY DEF mtkbt, Kind
<1> HIDE DEF p
<1>2. \A m \in Modes : p.sites[m] = MtkbtSites(m) /\ p.end[m] = MtkbtEnd(m) BY SMT, <1>1
<1>3. \A m \in Modes : p.end[m] \in Nat /\ p.limit \in Nat /\ p.end[m] <= p.limit
  BY SMT, <1>1, <1>2, MtkbtEnds DEF Modes
<1>4. ModesDiffer(p)
  <2> DEFINE s == Code(\h84, 4, TRUE, {}, {})
  <2>1. \A m \in Modes : s \in p.sites[m] BY <1>2, MtkbtParts DEF BaseSites, HeaderSites
  <2>2. s.varies BY DEF Code
  <2> HIDE DEF s
  <2> QED BY <2>1, <2>2 DEF ModesDiffer, Modes
<1>5. \A m \in Modes : Typed(p.sites[m]) /\ Apart(p.sites[m]) /\ Lands(p.sites[m], p.end[m])
  BY <1>2, MtkbtApart, MtkbtLands
<1>6. WellFormed(p) BY <1>3, <1>4, <1>5 DEF WellFormed
<1> QED BY <1>6 DEF p

LEMMA AllWell == \A t \in Targets : WellFormed(Patchers[t])
BY MtkbtWell, JniWell, LibextavrcpWell, LibaudioWell, OdexWell, AvrcpKlWell DEF Targets, Patchers

-----------------------------------------------------------------------------
(* Contents of files.                                                      *)

Files(t) == Contents(Patchers[t], {"stock", "alternate", "foreign", "torn"})
\* InForce, of any target.
Holds(t, f, m) == \A s \in Patchers[t].sites[m] : f.at[s.at] = After(s, m)

LEMMA UniqueSite ==
  ASSUME NEW t \in Targets, NEW m \in Modes,
         NEW s \in Patchers[t].sites[m], NEW q \in Patchers[t].sites[m], Overlap(s, q)
  PROVE  s = q
<1>1. Typed(Patchers[t].sites[m]) /\ Apart(Patchers[t].sites[m]) BY AllWell DEF WellFormed
<1>2. /\ s.at \in Nat /\ s.length \in Nat /\ s.length > 0
      /\ q.at \in Nat /\ q.length \in Nat /\ q.length > 0
  BY <1>1 DEF Typed
<1>3. s = q \/ Past(s) <= q.at \/ Past(q) <= s.at BY <1>1 DEF Apart
<1> QED BY SMT, <1>2, <1>3 DEF Overlap, Past

LEMMA OneAt ==
  ASSUME NEW t \in Targets, NEW m \in Modes,
         NEW s \in Patchers[t].sites[m], NEW q \in Patchers[t].sites[m], s.at = q.at
  PROVE  s = q
<1>1. Typed(Patchers[t].sites[m]) BY AllWell DEF WellFormed
<1>2. s.at \in Nat /\ s.length \in Nat /\ s.length > 0 /\ q.length \in Nat /\ q.length > 0 BY <1>1 DEF Typed
<1>3. Overlap(s, q) BY SMT, <1>2 DEF Overlap, Past
<1> QED BY <1>3, UniqueSite

LEMMA SitesInside ==
  ASSUME NEW p, NEW m \in Modes, NEW s \in p.sites[m]
  PROVE  s.at \in Offsets(p)
BY DEF Offsets, Modes

LEMMA AfterMode == ASSUME NEW s, NEW m \in Modes PROVE After(s, m) \in Modes
BY DEF After, Modes

LEMMA FileType ==
  ASSUME NEW p, NEW rests, NEW at \in [Offsets(p) -> Tokens], NEW rest \in rests, NEW sum \in BOOLEAN
  PROVE  File(at, rest, sum) \in Contents(p, rests)
BY DEF File, Contents

LEMMA ResummedFile ==
  ASSUME NEW at, NEW rest, NEW sum
  PROVE  Resummed(File(at, rest, sum)) = File(at, rest, TRUE)
BY DEF Resummed, File

\* What the sites of a mode hold when they are written, and elsewhere "else".
NewBytes(t, m, else) ==
  [a \in Offsets(Patchers[t]) |->
     IF \E s \in Patchers[t].sites[m] : s.at = a
     THEN After(CHOOSE s \in Patchers[t].sites[m] : s.at = a, m) ELSE else[a]]

LEMMA NewBytesAt ==
  ASSUME NEW t \in Targets, NEW m \in Modes, NEW else \in [Offsets(Patchers[t]) -> Tokens]
  PROVE  /\ NewBytes(t, m, else) \in [Offsets(Patchers[t]) -> Tokens]
         /\ \A s \in Patchers[t].sites[m] : NewBytes(t, m, else)[s.at] = After(s, m)
<1> DEFINE S == Patchers[t].sites[m]
<1>1. ASSUME NEW s \in S PROVE NewBytes(t, m, else)[s.at] = After(s, m)
  <2>1. s.at \in Offsets(Patchers[t]) BY SitesInside
  <2>2. (CHOOSE q \in S : q.at = s.at) \in S /\ (CHOOSE q \in S : q.at = s.at).at = s.at OBVIOUS
  <2>3. (CHOOSE q \in S : q.at = s.at) = s BY <2>2, OneAt
  <2> QED BY <2>1, <2>3 DEF NewBytes
<1>2. ASSUME NEW a \in Offsets(Patchers[t]) PROVE NewBytes(t, m, else)[a] \in Tokens
  <2>1. \A s : After(s, m) \in Tokens BY AfterMode DEF Tokens
  <2> QED BY <2>1 DEF NewBytes
<1>3. NewBytes(t, m, else) = [a \in Offsets(Patchers[t]) |-> NewBytes(t, m, else)[a]] BY DEF NewBytes
<1> QED BY <1>1, <1>2, <1>3

StockBytes(t) == [a \in Offsets(Patchers[t]) |-> "stock"]

LEMMA StockFile ==
  ASSUME NEW t \in Targets
  PROVE  /\ Stock(Patchers[t]) = File(StockBytes(t), "stock", TRUE)
         /\ StockBytes(t) \in [Offsets(Patchers[t]) -> Tokens]
         /\ Stock(Patchers[t]) \in Files(t)
         /\ Stock(Patchers[t]).at = StockBytes(t) /\ Stock(Patchers[t]).rest = "stock"
<1>1. Stock(Patchers[t]) = File(StockBytes(t), "stock", TRUE) BY DEF Stock, StockBytes
<1>2. StockBytes(t) \in [Offsets(Patchers[t]) -> Tokens] BY DEF StockBytes, Tokens
<1>3. Stock(Patchers[t]) \in Files(t) BY <1>1, <1>2, FileType DEF Files
<1>4. Stock(Patchers[t]).at = StockBytes(t) /\ Stock(Patchers[t]).rest = "stock" BY <1>1 DEF File
<1> QED BY <1>1, <1>2, <1>3, <1>4

LEMMA StockShows ==
  ASSUME NEW t \in Targets, NEW m \in Modes
  PROVE  ShowsBefore(Stock(Patchers[t]), Patchers[t].sites[m])
<1>1. Stock(Patchers[t]).at = StockBytes(t) BY StockFile
<1> QED BY <1>1, SitesInside DEF ShowsBefore, StockBytes

LEMMA ExpectedFile ==
  ASSUME NEW t \in Targets, NEW m \in Modes
  PROVE  /\ Expected(t, m) = File(NewBytes(t, m, StockBytes(t)), "stock", TRUE)
         /\ Expected(t, m) \in Files(t)
         /\ Expected(t, m).rest = "stock" /\ Expected(t, m).sum = TRUE
         /\ Holds(t, Expected(t, m), m)
<1> DEFINE new == NewBytes(t, m, StockBytes(t))
<1>1. Expected(t, m) = File(new, "stock", TRUE)
  <2>1. new = [a \in Offsets(Patchers[t]) |->
                 IF \E s \in Patchers[t].sites[m] : s.at = a
                 THEN After(CHOOSE s \in Patchers[t].sites[m] : s.at = a, m) ELSE "stock"]
    BY DEF NewBytes, StockBytes
  <2> QED BY <2>1 DEF Expected
<1>2. new \in [Offsets(Patchers[t]) -> Tokens] /\ \A s \in Patchers[t].sites[m] : new[s.at] = After(s, m)
  BY StockFile, NewBytesAt
<1> HIDE DEF new
<1>3. Expected(t, m) \in Files(t) BY <1>1, <1>2, FileType DEF Files
<1>4. Expected(t, m).at = new /\ Expected(t, m).rest = "stock" /\ Expected(t, m).sum = TRUE
  BY <1>1 DEF File
<1>5. Holds(t, Expected(t, m), m) BY <1>2, <1>4 DEF Holds
<1> QED BY <1>1, <1>3, <1>4, <1>5 DEF new

\* The sites are written one after another, and none is torn by the next.
LEMMA WrittenFile ==
  ASSUME target \in Targets, NEW m \in Modes, NEW f \in Files(target)
  PROVE  LET data == Resummed(Written(f, Patchers[target].sites[m], m))
         IN  /\ data = File(NewBytes(target, m, f.at), f.rest, TRUE)
             /\ data \in Files(target)
             /\ Holds(target, data, m)
             /\ f = Stock(Patchers[target]) => data = Expected(target, m)
<1> DEFINE S == Patchers[target].sites[m]
           at == [a \in DOMAIN f.at |->
                    IF \E s \in S : s.at = a
                    THEN LET s == CHOOSE s \in S : s.at = a
                         IN  IF \E q \in S \ {s} : Overlap(s, q) THEN "other" ELSE After(s, m)
                    ELSE f.at[a]]
           data == Resummed(Written(f, S, m))
<1>1. f.at \in [Offsets(Patchers[target]) -> Tokens] /\ f.rest \in {"stock", "alternate", "foreign", "torn"}
  BY DEF Files, Contents
<1>2. at = NewBytes(target, m, f.at)
  <2>1. DOMAIN f.at = Offsets(Patchers[target]) BY <1>1
  <2>2. ASSUME NEW a \in Offsets(Patchers[target]), \E s \in S : s.at = a
        PROVE  ~ \E q \in S \ {CHOOSE s \in S : s.at = a} : Overlap(CHOOSE s \in S : s.at = a, q)
    <3>1. (CHOOSE s \in S : s.at = a) \in S BY <2>2
    <3> QED BY <3>1, UniqueSite
  <2> QED BY <2>1, <2>2 DEF NewBytes
<1>3. data = File(NewBytes(target, m, f.at), f.rest, TRUE)
  <2>1. Written(f, S, m) = File(at, f.rest, ~Patchers[target].magic) BY DEF Written
  <2> HIDE DEF at, S
  <2> QED BY <1>2, <2>1, ResummedFile
<1> HIDE DEF data, at
<1>4. /\ NewBytes(target, m, f.at) \in [Offsets(Patchers[target]) -> Tokens]
      /\ \A s \in S : NewBytes(target, m, f.at)[s.at] = After(s, m)
  BY <1>1, NewBytesAt
<1>5. data \in Files(target) BY <1>1, <1>3, <1>4, FileType DEF Files
<1>6. Holds(target, data, m) BY <1>3, <1>4 DEF Holds, File
<1>7. ASSUME f = Stock(Patchers[target]) PROVE data = Expected(target, m)
  <2>1. f.at = StockBytes(target) /\ f.rest = "stock" BY <1>7, StockFile
  <2> QED BY <1>3, <2>1, ExpectedFile
<1> QED BY <1>3, <1>5, <1>6, <1>7 DEF data

\* A file patched for the other mode shows neither the stock bytes nor this
\* mode's, or it is this mode's too.
LEMMA OtherMode ==
  ASSUME NEW t \in Targets, NEW m \in Modes, NEW n \in Modes
  PROVE  LET f == Expected(t, n)
             S == Patchers[t].sites[m]
         IN  \/ f = Expected(t, m)
             \/ f # Stock(Patchers[t]) /\ ~ShowsBefore(f, S) /\ ~ShowsAfter(f, S, m)
<1> DEFINE f == Expected(t, n)
           S == Patchers[t].sites[m]
           p == Patchers[t]
<1>1. CASE m = n BY <1>1
<1>2. CASE m # n /\ p.sites["release"] = p.sites["debug"] /\ \A s \in p.sites["release"] : ~s.varies
  <2>1. p.sites[m] = p.sites["release"] /\ p.sites[n] = p.sites["release"] BY <1>2 DEF Modes
  <2>2. \A s \in S : After(s, m) = After(s, n) BY <1>2, <2>1 DEF After
  <2>3. NewBytes(t, m, StockBytes(t)) = NewBytes(t, n, StockBytes(t))
    <3>1. ASSUME NEW a \in Offsets(p), \E s \in S : s.at = a
          PROVE  After(CHOOSE s \in S : s.at = a, m) = After(CHOOSE s \in S : s.at = a, n)
      <4>1. (CHOOSE s \in S : s.at = a) \in S BY <3>1
      <4> QED BY <2>2, <4>1
    <3> QED BY <2>1, <3>1 DEF NewBytes
  <2> QED BY <2>3, ExpectedFile
<1>3. CASE m # n /\ \E s \in p.sites["release"], q \in p.sites["debug"] : s.at = q.at /\ s.varies /\ q.varies
  <2>1. PICK s \in p.sites[m], q \in p.sites[n] : s.at = q.at /\ s.varies /\ q.varies
    BY <1>3 DEF Modes
  <2>2. f.at[s.at] = n
    <3>1. Holds(t, f, n) BY ExpectedFile
    <3>2. f.at[q.at] = After(q, n) BY <2>1, <3>1 DEF Holds
    <3> QED BY <2>1, <3>2 DEF After
  <2>3. n # "stock" BY DEF Modes
  <2>4. ~ShowsBefore(f, S) BY <2>1, <2>2, <2>3 DEF ShowsBefore
  <2>5. ~ShowsAfter(f, S, m) BY <1>3, <2>1, <2>2 DEF ShowsAfter, After
  <2>6. f # Stock(p) BY <2>4, StockShows
  <2> QED BY <2>4, <2>5, <2>6
<1> QED BY <1>1, <1>2, <1>3, AllWell DEF WellFormed, ModesDiffer

-----------------------------------------------------------------------------
(* The inductive invariant: the types, what a run that is under way has    *)
(* established, and what it leaves behind.                                 *)

Exits == {"idle", "main", "exit0", "exit1", "done", "failed"}
Runs(t) == [pc : Exits, mode : Modes, skip : BOOLEAN, verify : BOOLEAN, wrote : BOOLEAN,
            before : Files(t), output : Files(t)]
TypeInv == target \in Targets /\ file \in Files(target) /\ run \in Runs(target)

Pinned(t, f) == \E m \in Modes : f = Expected(t, m)
\* What a run r may leave as f: patched, and pinned unless MD5s are ignored.
Good(t, r, f) == Holds(t, f, r.mode) /\ (r.skip \/ f = Expected(t, r.mode))

\* Until the file is written back it is what the run started from.
RunInv ==
  /\ run.pc \in {"main", "exit0", "exit1"} => file = run.before
  /\ run.pc = "main" => ~run.wrote
  /\ run.pc = "exit0" =>
       /\ run.wrote => /\ Good(target, run, run.output)
                       /\ run.output.sum
                       /\ ~Pinned(target, file)
                       /\ run.skip \/ file = Stock(Patchers[target])
       /\ ~run.wrote /\ ~run.verify => Good(target, run, file)
  /\ run.pc = "exit1" => /\ file # Expected(target, run.mode)
                         /\ file = Stock(Patchers[target]) => run.verify

\* SuccessMeansPatched, FailureChangesNothing, RerunsAreSafe and NeverMixed.
DoneInv ==
  run.pc = "done" =>
    /\ ~run.verify => Good(target, run, file)
    /\ run.wrote => file.sum
    /\ Pinned(target, run.before) => file = run.before
FailedInv ==
  run.pc = "failed" =>
    \/ /\ file = run.before
       /\ run.before # Expected(target, run.mode)
       /\ run.before = Stock(Patchers[target]) => run.verify
    \/ run.wrote /\ ~Pinned(target, run.before)
MixedInv ==
  \/ file.rest = "torn"
  \/ \E m \in Modes : Holds(target, file, m)
  \/ file \in Builds[target] /\ file = run.before

IInv == TypeInv /\ RunInv /\ DoneInv /\ FailedInv /\ MixedInv

LEMMA BuildsInFiles == \A t \in Targets : Builds[t] \subseteq Files(t)
BY BuildsAssumption DEF Firmwares, Contents, Files

LEMMA InitIInv == Init => IInv
<1> SUFFICES ASSUME Init PROVE IInv OBVIOUS
<1>1. target \in Targets /\ file \in Builds[target] /\ file \in Files(target)
  BY BuildsInFiles DEF Init
<1>2. run = [pc |-> "idle", mode |-> "release", skip |-> FALSE, verify |-> FALSE,
             wrote |-> FALSE, before |-> file, output |-> file]
  BY DEF Init, Idle
<1>3. run \in Runs(target) BY <1>1, <1>2 DEF Runs, Exits, Modes
<1>4. run.pc = "idle" /\ run.before = file BY <1>2
<1> QED BY <1>1, <1>3, <1>4 DEF IInv, TypeInv, RunInv, DoneInv, FailedInv, MixedInv

LEMMA StartKeeps == IInv /\ Start => IInv'
<1> SUFFICES ASSUME IInv, Start PROVE IInv' OBVIOUS
<1>1. PICK o \in Options :
        run' = [pc |-> "main", mode |-> o.mode, skip |-> o.skip, verify |-> o.verify,
                wrote |-> FALSE, before |-> file, output |-> file]
  BY DEF Start
<1>2. target' = target /\ file' = file BY DEF Start
<1>3. o.mode \in Modes /\ o.skip \in BOOLEAN /\ o.verify \in BOOLEAN BY OptionsAssumption
<1>4. target \in Targets /\ file \in Files(target) BY DEF IInv, TypeInv
<1>5. run' \in Runs(target) BY <1>1, <1>3, <1>4 DEF Runs, Exits
<1>6. run'.pc = "main" /\ run'.before = file /\ run'.wrote = FALSE BY <1>1
<1>7. TypeInv' BY <1>2, <1>4, <1>5 DEF TypeInv
<1>8. RunInv' /\ DoneInv' /\ FailedInv' BY <1>2, <1>6 DEF RunInv, DoneInv, FailedInv
<1>9. MixedInv' BY <1>2, <1>6 DEF IInv, MixedInv
<1> QED BY <1>7, <1>8, <1>9 DEF IInv

\* Only the program counter moves.
LEMMA ExitFacts ==
  ASSUME TypeInv, NEW code \in Exits, Exit(code)
  PROVE  /\ TypeInv'
         /\ target' = target /\ file' = file
         /\ run'.pc = code /\ run'.mode = run.mode /\ run'.skip = run.skip /\ run'.verify = run.verify
         /\ run'.wrote = run.wrote /\ run'.before = run.before /\ run'.output = run.output
<1>1. run \in Runs(target) /\ run' = [run EXCEPT !.pc = code] /\ target' = target /\ file' = file
  BY DEF TypeInv, Exit
<1>2. run' \in Runs(target) BY <1>1 DEF Runs
<1>3. /\ run'.pc = code /\ run'.mode = run.mode /\ run'.skip = run.skip /\ run'.verify = run.verify
      /\ run'.wrote = run.wrote /\ run'.before = run.before /\ run'.output = run.output
  BY <1>1 DEF Runs
<1> QED BY <1>1, <1>2, <1>3 DEF TypeInv

\* A run that has decided to change nothing.
LEMMA QuietExit ==
  ASSUME IInv, run.pc = "main", NEW code \in {"exit0", "exit1"}, Exit(code),
         code = "exit0" => run.verify \/ Good(target, run, file),
         code = "exit1" => /\ file # Expected(target, run.mode)
                           /\ file = Stock(Patchers[target]) => run.verify
  PROVE  IInv'
<1>1. TypeInv /\ RunInv /\ MixedInv BY DEF IInv
<1>2. code \in Exits BY DEF Exits
<1>3. /\ TypeInv'
      /\ target' = target /\ file' = file
      /\ run'.pc = code /\ run'.mode = run.mode /\ run'.skip = run.skip /\ run'.verify = run.verify
      /\ run'.wrote = run.wrote /\ run'.before = run.before /\ run'.output = run.output
  BY <1>1, <1>2, ExitFacts
<1>4. file = run.before /\ ~run.wrote BY <1>1 DEF RunInv
<1>5. Good(target, run, file) => Good(target', run', file') BY <1>3 DEF Good
<1>6. RunInv' BY <1>3, <1>4, <1>5 DEF RunInv
<1>7. DoneInv' /\ FailedInv' BY <1>3 DEF DoneInv, FailedInv
<1>8. MixedInv' BY <1>1, <1>3 DEF MixedInv
<1> QED BY <1>3, <1>6, <1>7, <1>8 DEF IInv

LEMMA NothingToDoKeeps == IInv /\ NothingToDo => IInv'
<1> SUFFICES ASSUME IInv, NothingToDo PROVE IInv' OBVIOUS
<1>1. run.pc = "main" /\ file = Expected(target, run.mode) /\ Exit("exit0") BY DEF NothingToDo, AtExpected
<1>2. target \in Targets /\ run.mode \in Modes BY DEF IInv, TypeInv, Runs
<1>3. Good(target, run, file) BY <1>1, <1>2, ExpectedFile DEF Good
<1> QED BY <1>1, <1>3, QuietExit

\* The stock file is refused by no check.
LEMMA StockAccepted ==
  ASSUME TypeInv, file = Stock(Patchers[target])
  PROVE  ~Refused
<1>1. target \in Targets /\ run.mode \in Modes BY DEF TypeInv, Runs
<1>2. ~Unknown BY DEF Unknown
<1>3. ~NoMagic BY <1>1, StockFile DEF NoMagic
<1>4. ~OverBudget
  <2>1. /\ Patchers[target].end[run.mode] \in Nat /\ Patchers[target].limit \in Nat
        /\ Patchers[target].end[run.mode] <= Patchers[target].limit
    BY <1>1, AllWell DEF WellFormed
  <2> QED BY SMT, <2>1 DEF OverBudget
<1>5. ~NoMatch BY <1>1, StockShows DEF NoMatch, patches
<1> QED BY <1>2, <1>3, <1>4, <1>5 DEF Refused

LEMMA RefuseKeeps == IInv /\ Refuse => IInv'
<1> SUFFICES ASSUME IInv, Refuse PROVE IInv' OBVIOUS
<1>1. run.pc = "main" /\ file # Expected(target, run.mode) /\ Refused /\ Exit("exit1")
  BY DEF Refuse, Proceeds
<1>2. file # Stock(Patchers[target]) BY <1>1, StockAccepted DEF IInv
<1> QED BY <1>1, <1>2, QuietExit

LEMMA AlreadyPatchedKeeps == IInv /\ AlreadyPatched => IInv'
<1> SUFFICES ASSUME IInv, AlreadyPatched PROVE IInv' OBVIOUS
<1>1. run.pc = "main" /\ ~Refused /\ Patched /\ Exit("exit0") BY DEF AlreadyPatched, Proceeds
<1>2. target \in Targets /\ run.mode \in Modes BY DEF IInv, TypeInv, Runs
<1>3. Holds(target, file, run.mode) BY <1>1 DEF Patched, ShowsAfter, patches, Holds
<1>4. ASSUME ~run.skip PROVE FALSE
  <2>1. file = Stock(Patchers[target]) BY <1>1, <1>4 DEF Refused, Unknown
  <2> QED BY <1>1, <1>2, <2>1, StockShows DEF Patched, patches
<1>5. Good(target, run, file) BY <1>3, <1>4 DEF Good
<1> QED BY <1>1, <1>5, QuietExit

LEMMA VerifyOnlyKeeps == IInv /\ VerifyOnly => IInv'
<1> SUFFICES ASSUME IInv, VerifyOnly PROVE IInv' OBVIOUS
<1>1. run.pc = "main" /\ run.verify /\ Exit("exit0") BY DEF VerifyOnly, Proceeds
<1> QED BY <1>1, QuietExit

\* A pinned file, of whichever mode, is not written.
LEMMA PinnedStays ==
  ASSUME TypeInv, Proceeds, ~Refused
  PROVE  ~Pinned(target, file)
<1> SUFFICES ASSUME NEW n \in Modes, file = Expected(target, n) PROVE FALSE BY DEF Pinned
<1>1. target \in Targets /\ run.mode \in Modes BY DEF TypeInv, Runs
<1>2. file # Expected(target, run.mode) BY DEF Proceeds
<1>3. file # Stock(Patchers[target]) /\ ~ShowsBefore(file, patches) /\ ~ShowsAfter(file, patches, run.mode)
  BY <1>1, <1>2, OtherMode DEF patches
<1> QED BY <1>3 DEF Refused, NoMatch, Unknown, show_sites

LEMMA PatchKeeps == IInv /\ Patch => IInv'
<1> SUFFICES ASSUME IInv, Patch PROVE IInv' OBVIOUS
<1> DEFINE data == Resummed(Written(file, patches, run.mode))
           mismatch == data # Expected(target, run.mode)
           verified == ShowsAfter(data, patches, run.mode) /\ data.sum
           written == verified \/ ~(show_sites \/ mismatch)
           error == ~written \/ (mismatch /\ (~run.skip \/ Patchers[target].always))
<1>1. /\ Proceeds /\ ~Refused /\ ~run.verify
      /\ run' = [run EXCEPT !.pc = IF error THEN "exit1" ELSE "exit0",
                            !.wrote = written, !.output = IF written THEN data ELSE @]
      /\ target' = target /\ file' = file
  BY DEF Patch
<1>2. /\ TypeInv /\ RunInv /\ MixedInv
      /\ target \in Targets /\ file \in Files(target) /\ run \in Runs(target) /\ run.mode \in Modes
  BY DEF IInv, TypeInv, Runs
<1>3. /\ data = File(NewBytes(target, run.mode, file.at), file.rest, TRUE)
      /\ data \in Files(target)
      /\ Holds(target, data, run.mode)
      /\ file = Stock(Patchers[target]) => data = Expected(target, run.mode)
  BY <1>2, WrittenFile DEF patches
<1>4. data.sum = TRUE BY <1>3 DEF File
<1> HIDE DEF data
<1>5. verified BY <1>3, <1>4 DEF Holds, ShowsAfter, patches
<1>6. written BY <1>5
<1> HIDE DEF verified, written
<1>7. /\ run'.pc = IF error THEN "exit1" ELSE "exit0"
      /\ run'.mode = run.mode /\ run'.skip = run.skip /\ run'.verify = run.verify
      /\ run'.wrote = TRUE /\ run'.before = run.before /\ run'.output = data
      /\ run' \in Runs(target)
  BY <1>1, <1>2, <1>3, <1>6 DEF Runs, Exits
<1>8. error <=> mismatch /\ (~run.skip \/ Patchers[target].always) BY <1>6
<1> HIDE DEF error
<1>9. ~Pinned(target, file) BY <1>1, <1>2, PinnedStays
<1>10. file = run.before /\ file # Expected(target, run.mode) BY <1>1, <1>2 DEF RunInv, Proceeds
<1>13. run.skip \/ file = Stock(Patchers[target]) BY <1>1 DEF Refused, Unknown
<1>11. CASE error
  <2>1. run'.pc = "exit1" BY <1>7, <1>11
  <2>2. file # Stock(Patchers[target]) BY <1>3, <1>8, <1>11
  <2> QED BY <1>1, <1>2, <1>7, <1>10, <2>1, <2>2 DEF IInv, TypeInv, RunInv, DoneInv, FailedInv, MixedInv
<1>12. CASE ~error
  <2>1. run'.pc = "exit0" BY <1>7, <1>12
  <2>2. Good(target, run, data) BY <1>3, <1>8, <1>12 DEF Good
  <2>3. Good(target', run', run'.output) BY <1>1, <1>7, <2>2 DEF Good
  <2>4. RunInv' BY <1>1, <1>4, <1>7, <1>9, <1>10, <1>13, <2>1, <2>3 DEF RunInv
  <2>5. DoneInv' /\ FailedInv' BY <2>1 DEF DoneInv, FailedInv
  <2>6. MixedInv' BY <1>1, <1>2, <1>7 DEF MixedInv
  <2>7. TypeInv' BY <1>1, <1>2, <1>7 DEF TypeInv
  <2> QED BY <2>4, <2>5, <2>6, <2>7 DEF IInv
<1> QED BY <1>11, <1>12

LEMMA GiveUpKeeps == IInv /\ GiveUp => IInv'
<1> SUFFICES ASSUME IInv, GiveUp PROVE IInv' OBVIOUS
<1>1. run.pc = "exit1" /\ Exit("failed") BY DEF GiveUp
<1>2. TypeInv /\ RunInv /\ MixedInv BY DEF IInv
<1>3. /\ TypeInv'
      /\ target' = target /\ file' = file
      /\ run'.pc = "failed" /\ run'.mode = run.mode /\ run'.verify = run.verify
      /\ run'.before = run.before
  BY <1>1, <1>2, ExitFacts DEF Exits
<1>4. /\ file = run.before /\ file # Expected(target, run.mode)
      /\ file = Stock(Patchers[target]) => run.verify
  BY <1>1, <1>2 DEF RunInv
<1>5. RunInv' /\ DoneInv' BY <1>3 DEF RunInv, DoneInv
<1>6. FailedInv' BY <1>3, <1>4 DEF FailedInv
<1>7. MixedInv' BY <1>2, <1>3 DEF MixedInv
<1> QED BY <1>3, <1>5, <1>6, <1>7 DEF IInv

LEMMA WriteBackKeeps == IInv /\ WriteBack => IInv'
<1> SUFFICES ASSUME IInv, WriteBack PROVE IInv' OBVIOUS
<1>1. /\ run.pc = "exit0" /\ target' = target
      /\ file' = IF run.wrote THEN run.output ELSE file
      /\ run' = [run EXCEPT !.pc = "done"]
  BY DEF WriteBack
<1>2. /\ RunInv /\ MixedInv
      /\ target \in Targets /\ file \in Files(target) /\ run \in Runs(target)
      /\ run.output \in Files(target) /\ run.mode \in Modes
  BY DEF IInv, TypeInv, Runs
<1>3. /\ run'.pc = "done" /\ run'.mode = run.mode /\ run'.skip = run.skip /\ run'.verify = run.verify
      /\ run'.wrote = run.wrote /\ run'.before = run.before /\ run' \in Runs(target)
  BY <1>1, <1>2 DEF Runs, Exits
<1>4. TypeInv' BY <1>1, <1>2, <1>3 DEF TypeInv
<1>5. RunInv' /\ FailedInv' BY <1>3 DEF RunInv, FailedInv
<1>6. file = run.before BY <1>1, <1>2 DEF RunInv
<1>7. CASE run.wrote
  <2>1. file' = run.output /\ Good(target, run, run.output) /\ run.output.sum /\ ~Pinned(target, run.before)
    BY <1>1, <1>2, <1>6, <1>7 DEF RunInv
  <2>2. Good(target', run', file') BY <1>1, <1>3, <2>1 DEF Good
  <2>3. DoneInv' BY <1>1, <1>3, <2>1, <2>2 DEF DoneInv
  <2>4. Holds(target', file', run'.mode) BY <2>2 DEF Good
  <2>5. MixedInv' BY <1>2, <1>3, <2>4 DEF MixedInv
  <2> QED BY <1>4, <1>5, <2>3, <2>5 DEF IInv
<1>8. CASE ~run.wrote
  <2>1. file' = file BY <1>1, <1>8
  <2>2. ~run.verify => Good(target, run, file) BY <1>1, <1>2, <1>8 DEF RunInv
  <2>3. ~run'.verify => Good(target', run', file') BY <1>1, <1>3, <2>1, <2>2 DEF Good
  <2>4. DoneInv' BY <1>3, <1>6, <1>8, <2>1, <2>3 DEF DoneInv
  <2>5. MixedInv' BY <1>1, <1>2, <1>3, <2>1 DEF MixedInv
  <2> QED BY <1>4, <1>5, <2>4, <2>5 DEF IInv
<1> QED BY <1>7, <1>8

LEMMA CopyFailsKeeps == IInv /\ CopyFails => IInv'
<1> SUFFICES ASSUME IInv, CopyFails PROVE IInv' OBVIOUS
<1>1. PICK cut : file' = Truncated(run.output, cut) BY DEF CopyFails
<1>2. run.pc = "exit0" /\ run.wrote /\ target' = target /\ run' = [run EXCEPT !.pc = "failed"]
  BY DEF CopyFails
<1>3. /\ RunInv
      /\ target \in Targets /\ file \in Files(target) /\ run \in Runs(target) /\ run.output \in Files(target)
  BY DEF IInv, TypeInv, Runs
<1>4. /\ run'.pc = "failed" /\ run'.mode = run.mode
      /\ run'.wrote = run.wrote /\ run'.before = run.before /\ run' \in Runs(target)
  BY <1>2, <1>3 DEF Runs, Exits
<1>5. file'.rest = "torn" /\ file' \in Files(target)
  <2> DEFINE at == [a \in DOMAIN run.output.at |-> IF a < cut THEN run.output.at[a] ELSE "other"]
  <2>1. run.output.at \in [Offsets(Patchers[target]) -> Tokens] BY <1>3 DEF Files, Contents
  <2>2. at \in [Offsets(Patchers[target]) -> Tokens] BY <2>1 DEF Tokens
  <2>3. file' = File(at, "torn", FALSE) BY <1>1 DEF Truncated
  <2> HIDE DEF at
  <2>4. file' \in Files(target) BY <2>2, <2>3, FileType DEF Files
  <2>5. file'.rest = "torn" BY <2>3 DEF File
  <2> QED BY <2>4, <2>5
<1>6. ~Pinned(target, run.before) BY <1>2, <1>3 DEF RunInv
<1>7. TypeInv' BY <1>2, <1>3, <1>4, <1>5 DEF TypeInv
<1>8. RunInv' /\ DoneInv' BY <1>4 DEF RunInv, DoneInv
<1>9. FailedInv' BY <1>2, <1>4, <1>6 DEF FailedInv
<1>10. MixedInv' BY <1>5 DEF MixedInv
<1> QED BY <1>7, <1>8, <1>9, <1>10 DEF IInv

LEMMA NextKeeps == IInv /\ [Next]_vars => IInv'
<1> SUFFICES ASSUME IInv, [Next]_vars PROVE IInv' OBVIOUS
<1>1. CASE Start BY <1>1, StartKeeps
<1>2. CASE Main
  BY <1>2, NothingToDoKeeps, RefuseKeeps, AlreadyPatchedKeeps, VerifyOnlyKeeps, PatchKeeps DEF Main
<1>3. CASE GiveUp BY <1>3, GiveUpKeeps
<1>4. CASE WriteBack BY <1>4, WriteBackKeeps
<1>5. CASE CopyFails BY <1>5, CopyFailsKeeps
<1>6. CASE UNCHANGED vars
  BY <1>6 DEF vars, IInv, TypeInv, RunInv, DoneInv, FailedInv, MixedInv, Good, Pinned
<1> QED BY <1>1, <1>2, <1>3, <1>4, <1>5, <1>6 DEF Next

LEMMA Inductive == Spec => []IInv
BY InitIInv, NextKeeps, PTL DEF Spec

-----------------------------------------------------------------------------
(* What the patchers promise.                                              *)

LEMMA HoldsInForce == \A f, m : InForce(f, m) <=> Holds(target, f, m)
BY DEF InForce, Holds

\* No jump of a patch goes astray, by the tables alone.
LEMMA JumpsAlwaysLand == ASSUME TypeInv PROVE JumpsLand
<1> SUFFICES ASSUME NEW m \in Modes,
                    NEW s \in Patchers[target].sites[m], NEW to \in s.goes
             PROVE  \/ \E q \in Patchers[target].sites[m] :
                         to \in q.entries /\ Past(q) <= Patchers[target].end[m]
                    \/ /\ to \in Rejoined
                       /\ \A q \in Patchers[target].sites[m] : to < q.at \/ to >= Past(q)
  BY DEF JumpsLand
<1>1. Lands(Patchers[target].sites[m], Patchers[target].end[m]) BY AllWell DEF TypeInv, WellFormed
<1> QED BY <1>1 DEF Lands

LEMMA Promised == IInv => PatchedOrRefused
<1> SUFFICES ASSUME IInv PROVE PatchedOrRefused OBVIOUS
<1>1. TypeInv /\ DoneInv /\ FailedInv /\ MixedInv BY DEF IInv
<1>2. run.mode \in Modes BY <1>1 DEF TypeInv, Runs
<1>3. SuccessMeansPatched BY <1>1, HoldsInForce DEF SuccessMeansPatched, DoneInv, Good
<1>4. FailureChangesNothing BY <1>1 DEF FailureChangesNothing, Ended, TornCopy, FailedInv
<1>5. RerunsAreSafe
  <2> SUFFICES ASSUME Ended
               PROVE  /\ run.before = Stock(Patchers[target]) /\ ~run.verify => run.pc = "done" \/ TornCopy
                      /\ run.before = Expected(target, run.mode) => run.pc = "done" /\ file = run.before
                      /\ \A m \in Modes : run.before = Expected(target, m) => file = run.before
    BY DEF RerunsAreSafe
  <2>1. CASE run.pc = "done" BY <1>1, <1>2, <2>1 DEF DoneInv, Pinned
  <2>2. CASE run.pc = "failed" BY <1>1, <1>2, <2>2 DEF FailedInv, Pinned, TornCopy
  <2> QED BY <2>1, <2>2 DEF Ended
<1>6. NeverMixed BY <1>1, HoldsInForce DEF NeverMixed, MixedInv
<1>7. JumpsLand BY <1>1, JumpsAlwaysLand
<1> QED BY <1>3, <1>4, <1>5, <1>6, <1>7 DEF PatchedOrRefused

\* Whatever the builds hold and however often the patchers are run on them,
\* with whatever options: a file is patched wholly, for one mode, or left as it
\* is; a failure changes nothing; the stock file is never refused and a pinned
\* one never written (main of each patch_*.py, patch_in_place_bytes).
THEOREM PatchersKeepTheirWord == Spec => []PatchedOrRefused
BY Inductive, Promised, PTL

\* Without --skip-md5 nothing but the exact stock file is ever replaced, not even
\* by a copy that fails: STOCK_MD5 is checked before anything is written.
THEOREM ReplacesStockOnly ==
  Spec => [][file' # file => run.skip \/ file = Stock(Patchers[target])]_vars
<1>1. ASSUME IInv, [Next]_vars, file' # file
      PROVE  run.skip \/ file = Stock(Patchers[target])
  <2>1. run.pc = "exit0" /\ run.wrote
    BY <1>1 DEF Next, Start, Main, NothingToDo, Refuse, AlreadyPatched, VerifyOnly, Patch, Exit,
                GiveUp, WriteBack, CopyFails, vars
  <2> QED BY <1>1, <2>1 DEF IInv, RunInv
<1>2. IInv /\ [Next]_vars => [file' # file => run.skip \/ file = Stock(Patchers[target])]_vars
  BY <1>1
<1> QED BY <1>2, Inductive, PTL DEF Spec

StrictInv == ~run.skip /\ (file \in Builds[target] \/ Pinned(target, file) \/ file.rest = "torn")

\* Where nobody passes --skip-md5, the image never holds a file of unknown
\* content: it is as the build had it, or pinned by EXPECTED_OUTPUT_MD5, or
\* truncated by a failed copy.
THEOREM OnlyPinnedFiles ==
  ASSUME \A o \in Options : ~o.skip
  PROVE  Spec => [](file \in Builds[target] \/ Pinned(target, file) \/ file.rest = "torn")
<1>1. Init => StrictInv
  <2> SUFFICES ASSUME Init PROVE StrictInv OBVIOUS
  <2>1. run.skip = FALSE BY DEF Init, Idle
  <2> QED BY <2>1 DEF Init, StrictInv
<1>2. IInv /\ StrictInv /\ [Next]_vars => StrictInv'
  <2> SUFFICES ASSUME IInv, StrictInv, [Next]_vars PROVE StrictInv' OBVIOUS
  <2>1. target \in Targets /\ run \in Runs(target) /\ run.mode \in Modes BY DEF IInv, TypeInv, Runs
  <2>2. CASE Start
    <3>1. PICK o \in Options : run'.skip = o.skip BY <2>2 DEF Start
    <3>2. target' = target /\ file' = file BY <2>2 DEF Start
    <3> QED BY <3>1, <3>2 DEF StrictInv, Pinned
  <2>3. CASE Main \/ GiveUp
    <3>1. target' = target /\ file' = file
      BY <2>3 DEF Main, NothingToDo, Refuse, AlreadyPatched, VerifyOnly, Patch, GiveUp, Exit
    <3>2. run'.skip = run.skip
      BY <2>1, <2>3 DEF Main, NothingToDo, Refuse, AlreadyPatched, VerifyOnly, Patch, GiveUp, Exit, Runs
    <3> QED BY <3>1, <3>2 DEF StrictInv, Pinned
  <2>4. CASE WriteBack
    <3>1. target' = target /\ run'.skip = run.skip BY <2>1, <2>4 DEF WriteBack, Runs
    <3>2. run.wrote => run.output = Expected(target, run.mode)
      BY <2>4 DEF WriteBack, IInv, RunInv, Good, StrictInv
    <3>3. file' = file \/ file' = Expected(target, run.mode) BY <2>4, <3>2 DEF WriteBack
    <3> QED BY <2>1, <3>1, <3>3 DEF StrictInv, Pinned
  <2>5. CASE CopyFails
    <3>1. target' = target /\ run'.skip = run.skip BY <2>1, <2>5 DEF CopyFails, Runs
    <3>2. file'.rest = "torn" BY <2>5 DEF CopyFails, Truncated, File
    <3> QED BY <3>1, <3>2 DEF StrictInv
  <2>6. CASE UNCHANGED vars BY <2>6 DEF vars, StrictInv, Pinned
  <2> QED BY <2>2, <2>3, <2>4, <2>5, <2>6 DEF Next
<1>3. Spec => []StrictInv BY <1>1, <1>2, Inductive, PTL DEF Spec
<1>4. StrictInv => (file \in Builds[target] \/ Pinned(target, file) \/ file.rest = "torn") BY DEF StrictInv
<1> QED BY <1>3, <1>4, PTL
=============================================================================
