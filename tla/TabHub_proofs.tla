--------------------------- MODULE TabHub_proofs ---------------------------
(* Theorems about TabHub, for any number of pages, ids, viewers, edits,      *)
(* reads, drops and faults.                                                  *)
EXTENDS TabHub, TLAPS

-----------------------------------------------------------------------------
(* The types of the parts, and of what the operators make.                   *)

Messages == [op : {"close", "end", "wake", "woken"}, page : 0..MaxPages,
             id : 0..MaxPages, mine : BOOLEAN]
Late == [cmd : [op : {"close", "end", "wake"}, page : 0..MaxPages,
                id : 0..MaxPages, mine : BOOLEAN], drop : 0..MaxDrops]
TabRecords == [known : BOOLEAN, id : 0..MaxPages, fall : BOOLEAN]
TombRecords == [on : BOOLEAN, falling : 0..MaxPages, from : 0..MaxPages,
                touched : BOOLEAN, window : BOOLEAN, waking : BOOLEAN, retry : BOOLEAN]
Places == [kind : {"none", "tab", "tomb"}, n : 0..MaxPages, shown : BOOLEAN]
Looks == [strips : SUBSET Pages, agents : SUBSET Pages]
Readings == [who : {"refresh", "sleep", "unused", "ended", "other"}, n : 0..MaxPages,
             strips : SUBSET Pages, agents : SUBSET Pages, stale : BOOLEAN]
Graces == {"no", "counting", "spent"}
Closings == {"no", "counting", "due"}

\* What the messages, the reads and the viewers name is a page or an id.
WakeOps == {"wake", "woken"}
Named(m) == /\ m.op \in WakeOps => m.id \in Pages
            /\ m.op # "wake" => m.page \in Pages
Directed(r) == r.who \in {"sleep", "unused", "ended"} => r.n \in Pages
Addressed ==
  /\ \A m \in wire : Named(m)
  /\ \A r \in reads : Directed(r)
  /\ \A v \in Viewers : at[v].kind # "none" => at[v].n \in Pages

LEMMA PageFacts == /\ Pages \subseteq 0..MaxPages /\ 0 \in 0..MaxPages /\ 0 \notin Pages
                   /\ 1 \in Pages
                   /\ \A n \in 0..MaxPages : n # 0 => n \in Pages
                   /\ Links \subseteq Pages /\ Stripped \subseteq Pages
  BY Bounds DEF Pages

LEMMA RecordTypes ==
  /\ NoTab \in TabRecords /\ NoTomb \in TombRecords /\ Nowhere \in Places
  /\ \A p \in 0..MaxPages : Tombstone(p) \in TombRecords
  /\ \A op \in {"close", "end", "wake", "woken"}, p, i \in 0..MaxPages :
       Command(op, p, i) \in Messages
  BY PageFacts DEF NoTab, NoTomb, Nowhere, Tombstone, Command, TabRecords, TombRecords,
       Places, Messages

LEMMA Types ==
  ASSUME TypeOK
  PROVE  /\ wire \subseteq Messages /\ late \subseteq Late /\ tab \in [Pages -> TabRecords]
         /\ tomb \in [Pages -> TombRecords] /\ at \in [Viewers -> Places]
         /\ look \in Looks /\ reads \subseteq Readings
         /\ grace \in [Pages -> Graces] /\ closing \in [Pages -> Closings]
  BY DEF TypeOK, Messages, Late, TabRecords, TombRecords, Places, Looks, Readings, Graces, Closings

\* The type invariant, its parts under their names.
LEMMA TypesAgain ==
  ASSUME open' \subseteq Pages, news' \subseteq Pages, wire' \subseteq Messages,
         late' \subseteq Late, holders' \subseteq Pages, agents' \subseteq Pages, unreported' \in BOOLEAN,
         cdp' \in {"none", "reporting", "settling", "ready"}, seen' \subseteq Pages,
         tab' \in [Pages -> TabRecords], byId' \in [Pages -> 0..MaxPages],
         alias' \in [Pages -> Pages], grace' \in [Pages -> Graces],
         tomb' \in [Pages -> TombRecords], tombGrace' \subseteq Pages,
         closing' \in [Pages -> Closings], at' \in [Viewers -> Places],
         look' \in Looks, reads' \subseteq Readings, refresh' \in BOOLEAN,
         remembered' \subseteq Pages, edits' \in 0..MaxEdits, drops' \in 0..MaxDrops,
         faults' \in 0..MaxFaults
  PROVE  TypeOK'
  BY DEF TypeOK, Messages, Late, TabRecords, TombRecords, Places, Looks, Readings, Graces, Closings

LEMMA TypesNow ==
  ASSUME TypeOK
  PROVE  /\ open \subseteq Pages /\ news \subseteq Pages
         /\ holders \subseteq Pages /\ agents \subseteq Pages /\ unreported \in BOOLEAN
         /\ cdp \in {"none", "reporting", "settling", "ready"} /\ seen \subseteq Pages
         /\ byId \in [Pages -> 0..MaxPages] /\ alias \in [Pages -> Pages]
         /\ tombGrace \subseteq Pages /\ refresh \in BOOLEAN /\ remembered \subseteq Pages
         /\ edits \in 0..MaxEdits /\ drops \in 0..MaxDrops /\ faults \in 0..MaxFaults
  BY DEF TypeOK

LEMMA ReadType ==
  ASSUME TypeOK, NEW who \in {"refresh", "sleep", "unused", "ended", "other"},
         NEW n \in 0..MaxPages
  PROVE  Read(who, n) \in Readings
  BY DEF Read, Readings, TypeOK

LEMMA LookType ==
  ASSUME NEW r \in Readings  PROVE LookOf(r) \in Looks
  BY DEF LookOf, Readings, Looks

LEMMA WakesType ==
  ASSUME NEW I, I \subseteq Pages  PROVE Wakes(I) \subseteq Messages
  BY RecordTypes, PageFacts DEF Wakes

LEMMA WokeType ==
  ASSUME TypeOK, NEW i \in Pages  PROVE Woke(i) \in TombRecords
  <1>1. tomb[i] \in TombRecords
    BY Types
  <1> QED
    BY <1>1 DEF Woke, TombRecords

LEMMA DisownedType ==
  ASSUME NEW I, NEW W, W \subseteq Messages  PROVE Disowned(I, W) \subseteq Messages
  BY DEF Disowned, Messages

LEMMA OrphanedType ==
  ASSUME NEW I, NEW R, R \subseteq Readings  PROVE Orphaned(I, R) \subseteq Readings
  BY PageFacts DEF Orphaned, Readings

LEMMA ReviewTabsType ==
  ASSUME TypeOK, NEW P, ReviewTabs(P)  PROVE grace' \in [Pages -> Graces]
  BY DEF ReviewTabs, TypeOK, Graces

LEMMA ReviewTombsType ==
  ASSUME NEW I, ReviewTombs(I)  PROVE tombGrace' \subseteq Pages
  BY DEF ReviewTombs, Tombs

LEMMA TargetType ==
  ASSUME TypeOK, NEW i \in Pages  PROVE Target(i) \in Pages
  BY PageFacts DEF Target, TypeOK

-----------------------------------------------------------------------------
(* Type correctness.                                                        *)

LEMMA EndTombsType ==
  ASSUME TypeOK, NEW I, NEW R, R \subseteq Readings, NEW W, W \subseteq Messages,
         EndTombs(I, R, W)
  PROVE  /\ tomb' \in [Pages -> TombRecords] /\ alias' \in [Pages -> Pages]
         /\ closing' \in [Pages -> Closings] /\ at' \in [Viewers -> Places]
         /\ reads' \subseteq Readings /\ wire' \subseteq Messages /\ tombGrace' \subseteq Pages
  <1>1. tomb' \in [Pages -> TombRecords]
    BY RecordTypes DEF EndTombs, TypeOK, TombRecords
  <1>2. alias' \in [Pages -> Pages] /\ closing' \in [Pages -> Closings]
    BY DEF EndTombs, TypeOK, Closings
  <1>3. at' \in [Viewers -> Places]
    BY RecordTypes DEF EndTombs, TypeOK, Places
  <1>4. reads' \subseteq Readings /\ wire' \subseteq Messages
    BY OrphanedType, DisownedType DEF EndTombs
  <1>5. tombGrace' \subseteq Pages
    BY DEF EndTombs, TypeOK
  <1> QED
    BY <1>1, <1>2, <1>3, <1>4, <1>5

LEMMA RouseType ==
  ASSUME TypeOK, NEW i \in Pages, NEW b, Rouse(i, b)
  PROVE  /\ tomb' \in [Pages -> TombRecords] /\ wire' \subseteq Messages
         /\ tombGrace' \subseteq Pages
  <1> DEFINE old == IF tomb[i].on THEN tomb[i] ELSE Tombstone(0)
  <1>1. old \in TombRecords /\ tomb \in [Pages -> TombRecords]
    BY RecordTypes, PageFacts DEF TypeOK, TombRecords
  <1>2. [old EXCEPT !.waking = TRUE, !.retry = FALSE] \in TombRecords
    BY <1>1 DEF TombRecords
  <1> HIDE DEF old
  <1>3. \E x \in TombRecords : tomb' = [tomb EXCEPT ![i] = x]
    BY <1>1, <1>2 DEF Rouse, old
  <1>4. wire' \subseteq Messages
    BY WakesType DEF Rouse, TypeOK, Messages
  <1> QED
    BY <1>1, <1>3, <1>4, ReviewTombsType DEF Rouse

LEMMA FellType ==
  ASSUME TypeOK, NEW p, NEW W, W \subseteq Messages, Fell(p, W)
  PROVE  TypeOK'
  <1> USE Types, TypesNow
  <1>1. tab' \in [Pages -> TabRecords]
    BY DEF Fell, TabRecords
  <1>2. tomb' \in [Pages -> TombRecords]
    BY RecordTypes DEF Fell
  <1>3. grace' \in [Pages -> Graces]
    BY ReviewTabsType DEF Fell
  <1> QED
    BY <1>1, <1>2, <1>3, TypesAgain
    DEF Fell, fileVars, linkVars, readVars, countVars

LEMMA AdoptType ==
  ASSUME TypeOK, NEW i \in Pages, NEW p \in Pages, NEW W, W \subseteq Messages,
         Adopt(i, p, W)
  PROVE  /\ tomb' \in [Pages -> TombRecords] /\ tab' \in [Pages -> TabRecords]
         /\ byId' \in [Pages -> 0..MaxPages] /\ alias' \in [Pages -> Pages]
         /\ at' \in [Viewers -> Places] /\ reads' \subseteq Readings
         /\ wire' \subseteq Messages /\ tombGrace' \subseteq Pages
  <1>1. tomb' \in [Pages -> TombRecords]
    BY RecordTypes DEF Adopt, TypeOK, TombRecords
  <1>2. tab' \in [Pages -> TabRecords]
    <2>1. tab \in [Pages -> TabRecords] /\ tab[p] \in TabRecords
      BY DEF TypeOK, TabRecords
    <2>2. [tab[p] EXCEPT !.known = TRUE, !.id = i] \in TabRecords
      BY <2>1, PageFacts DEF TabRecords
    <2>3. tab' = [tab EXCEPT ![p] = [tab[p] EXCEPT !.known = TRUE, !.id = i]]
      BY <2>1 DEF Adopt, TabRecords
    <2> QED
      BY <2>1, <2>2, <2>3
  <1>3. byId' \in [Pages -> 0..MaxPages] /\ alias' \in [Pages -> Pages]
    BY PageFacts DEF Adopt, TypeOK
  <1>4. at' \in [Viewers -> Places]
    <2>1. \A v \in Viewers : at[v] \in Places
      BY DEF TypeOK, Places
    <2>2. \A x \in Places : [x EXCEPT !.kind = "tab", !.n = p] \in Places
      BY PageFacts DEF Places
    <2> QED
      BY <2>1, <2>2 DEF Adopt
  <1>5. reads' \subseteq Readings /\ wire' \subseteq Messages
    BY OrphanedType, DisownedType DEF Adopt, TypeOK, Readings
  <1>6. tombGrace' \subseteq Pages
    BY DEF Adopt, TypeOK
  <1> QED
    BY <1>1, <1>2, <1>3, <1>4, <1>5, <1>6

LEMMA FallenType ==
  ASSUME NEW t \in TombRecords, NEW i, NEW X
  PROVE  [t EXCEPT !.falling = 0, !.window = TRUE, !.touched = FALSE, !.waking = i \in X]
           \in TombRecords
  <1>1. (i \in X) \in BOOLEAN
    BY SMT
  <1>2. ASSUME NEW b \in BOOLEAN
        PROVE  [t EXCEPT !.falling = 0, !.window = TRUE, !.touched = FALSE, !.waking = b]
                 \in TombRecords
    BY PageFacts DEF TombRecords
  <1> QED
    BY <1>1, <1>2, Zenon

LEMMA ReadiedType ==
  ASSUME TypeOK, NEW C, Readied(C), look' \in Looks, faults' \in 0..MaxFaults,
         grace' \in [Pages -> Graces], tombGrace' \subseteq Pages
  PROVE  TypeOK'
  <1> USE Types, TypesNow, PageFacts, Bounds
  <1> DEFINE ending == {i \in Pages : closing[i] = "due" /\ Asleep(i)}
             ended == {i \in Pages : closing[i] = "due" /\ ~Asleep(i) /\ Awake(i)}
             woken == {i \in Pages \ ending : Asleep(i) /\ ~tomb[i].waking /\ Shown(Waiting(i))}
             b(i) == tomb[i].window /\ i \notin C
             c(i) == Woke(i).window /\ i \notin C
  <1>1. tomb' \in [Pages -> TombRecords]
    <2>1. \A i \in Pages : Woke(i) \in TombRecords
      BY WokeType
    <2>2. \A i \in Pages : b(i) \in BOOLEAN /\ c(i) \in BOOLEAN
      BY <2>1 DEF TombRecords
    <2>3. \A t \in TombRecords, d \in BOOLEAN : [t EXCEPT !.window = d] \in TombRecords
      BY DEF TombRecords
    <2>4. tomb' = [i \in Pages |->
             IF closing[i] = "due" THEN NoTomb
             ELSE IF i \in woken THEN [Woke(i) EXCEPT !.window = c(i)]
             ELSE [tomb[i] EXCEPT !.window = b(i)]]
      BY DEF Readied
    <2> HIDE DEF b, c, ending, woken
    <2> QED
      BY <2>1, <2>2, <2>3, <2>4, RecordTypes
  <1>2. alias' \in [Pages -> Pages] /\ closing' \in [Pages -> Closings]
    BY DEF Readied, Closings
  <1>3. at' \in [Viewers -> Places] /\ reads' \subseteq Readings
    BY RecordTypes, OrphanedType DEF Readied
  <1>4. wire' \subseteq Messages
    <2>1. wire' = Disowned(ending, wire) \cup Wakes(woken)
                    \cup {Command("end", Target(i), 0) : i \in ended}
      BY DEF Readied
    <2>2. woken \subseteq Pages /\ ended \subseteq Pages
      OBVIOUS
    <2>3. \A i \in ended : Command("end", Target(i), 0) \in Messages
      BY TargetType, RecordTypes
    <2> QED
      BY <2>1, <2>2, <2>3, DisownedType, WakesType
  <1> QED
    BY <1>1, <1>2, <1>3, <1>4, TypesAgain DEF Readied, fileVars

LEMMA SettleType ==
  ASSUME TypeOK, NEW U, NEW F, F \subseteq Pages, NEW D, Settle(U, F, D)
  PROVE  /\ tab' \in [Pages -> TabRecords] /\ byId' \in [Pages -> 0..MaxPages]
         /\ alias' \in [Pages -> Pages] /\ at' \in [Viewers -> Places]
         /\ tomb' \in [Pages -> TombRecords] /\ wire' \subseteq Messages
         /\ refresh' \in BOOLEAN /\ reads' \subseteq Readings
         /\ closing' \in [Pages -> Closings] /\ look' \in Looks
         /\ tombGrace' \subseteq Pages /\ grace' \in [Pages -> Graces]
  <1>1. tab' \in [Pages -> TabRecords]
    BY RecordTypes DEF Settle, TypeOK, TabRecords
  <1>2. byId' \in [Pages -> 0..MaxPages] /\ alias' \in [Pages -> Pages]
    BY PageFacts DEF Settle, TypeOK
  <1>3. at' \in [Viewers -> Places]
    <2> DEFINE fell == {p \in U : tab[p].id \in F /\ tomb[tab[p].id].falling = p}
               there(v) == CASE at[v].kind = "tab" /\ at[v].n \in fell ->
                                  [at[v] EXCEPT !.kind = "tomb", !.n = tab[at[v].n].id]
                             [] at[v].kind = "tab" /\ at[v].n \in U \ fell -> Nowhere
                             [] at[v].kind = "tomb" /\ at[v].n \in D -> Nowhere
                             [] OTHER -> at[v]
    <2>1. at' = [v \in Viewers |-> there(v)]
      BY DEF Settle
    <2>2. \A v \in Viewers : at[v].kind = "tab" /\ at[v].n \in fell => tab[at[v].n].id \in 0..MaxPages
      BY PageFacts
    <2> HIDE DEF fell
    <2>3. ASSUME NEW v \in Viewers  PROVE there(v) \in Places
      BY <2>2, <2>3, RecordTypes DEF TypeOK, Places
    <2> QED
      BY <2>1, <2>3
  <1>4. tomb' \in [Pages -> TombRecords]
    <2> DEFINE slept(i, X) ==
                 [tomb[i] EXCEPT !.falling = 0, !.window = TRUE, !.touched = FALSE, !.waking = i \in X]
    <2>1. PICK X : tomb' = [i \in Pages |-> IF i \in D THEN NoTomb
                                            ELSE IF i \in F THEN slept(i, X) ELSE tomb[i]]
      BY DEF Settle
    <2>2. \A i \in Pages : tomb[i] \in TombRecords /\ slept(i, X) \in TombRecords
      BY Types, FallenType
    <2> HIDE DEF slept
    <2> QED
      BY <2>1, <2>2, RecordTypes
  <1>5. wire' \subseteq Messages
    <2>1. \E X : X \subseteq Pages /\ wire' = Disowned(D, wire) \cup Wakes(X)
      BY DEF Settle
    <2> QED
      BY <2>1, DisownedType, WakesType DEF TypeOK, Messages
  <1>6. refresh' \in BOOLEAN
    BY DEF Settle, TypeOK
  <1>7. reads' \subseteq Readings
    BY OrphanedType DEF Settle, TypeOK, Readings
  <1>8. closing' \in [Pages -> Closings]
    BY DEF Settle, TypeOK, Closings
  <1>9. look' \in Looks
    BY DEF Settle, TypeOK, Looks
  <1>10. tombGrace' \subseteq Pages /\ grace' \in [Pages -> Graces]
    BY ReviewTombsType, ReviewTabsType DEF Settle
  <1> QED
    BY <1>1, <1>2, <1>3, <1>4, <1>5, <1>6, <1>7, <1>8, <1>9, <1>10

LEMMA InitType == Init => TypeOK
  <1> SUFFICES ASSUME Init  PROVE TypeOK
    OBVIOUS
  <1>1. /\ tab \in [Pages -> TabRecords] /\ tomb \in [Pages -> TombRecords]
        /\ at \in [Viewers -> Places]
    BY RecordTypes DEF Init
  <1>2. /\ byId \in [Pages -> 0..MaxPages] /\ alias \in [Pages -> Pages]
        /\ grace \in [Pages -> Graces] /\ closing \in [Pages -> Closings]
    BY PageFacts DEF Init, Graces, Closings
  <1>3. open \subseteq Pages /\ holders \subseteq Pages
    BY PageFacts DEF Init
  <1>4. edits \in 0..MaxEdits /\ drops \in 0..MaxDrops /\ faults \in 0..MaxFaults
    BY Bounds DEF Init
  <1> QED
    BY <1>1, <1>2, <1>3, <1>4
    DEF Init, TypeOK, TabRecords, TombRecords, Places, Graces, Closings

LEMMA OutsideType ==
  ASSUME TypeOK, Outside  PROVE TypeOK'
  <1> USE Types, TypesNow, PageFacts, Bounds
  <1> USE DEF chromeVars, fileVars, linkVars, tabVars, tombVars, readVars, countVars, Edit
  <1>1. ASSUME NEW p \in Pages, PageEnds(p)  PROVE TypeOK'
    BY <1>1, TypesAgain DEF PageEnds, LateBut
  <1>2. ASSUME NEW p \in Pages, AgentComes(p)  PROVE TypeOK'
    BY <1>2, TypesAgain DEF AgentComes
  <1>3. ASSUME NEW p \in Pages, AgentLeaves(p)  PROVE TypeOK'
    BY <1>3, TypesAgain DEF AgentLeaves
  <1>4. ASSUME NEW i \in Links, HolderChanges(i)  PROVE TypeOK'
    BY <1>4, TypesAgain DEF HolderChanges
  <1>5. ASSUME NEW i \in Links, CloseForEveryone(i)  PROVE TypeOK'
    <2>1. /\ closing' \in [Pages -> Closings] /\ grace' \in [Pages -> Graces]
          /\ tombGrace' \subseteq Pages
      BY <1>5 DEF CloseForEveryone, Closings, Graces
    <2> QED
      BY <1>5, <2>1, TypesAgain DEF CloseForEveryone
  <1>6. ASSUME NEW i \in Links, Restore(i)  PROVE TypeOK'
    <2>1. /\ closing' \in [Pages -> Closings] /\ grace' \in [Pages -> Graces]
          /\ tombGrace' \subseteq Pages
      BY <1>6, ReviewTombsType DEF Restore, Closings, Graces
    <2> QED
      BY <1>6, <2>1, TypesAgain DEF Restore
  <1>7. ASSUME NEW i \in Links, WakeTab(i)  PROVE TypeOK'
    BY <1>7, TypesAgain, RouseType DEF WakeTab
  <1>8. ASSUME NEW v \in Viewers, NEW i \in Links, NEW b \in BOOLEAN, Attach(v, i, b)
        PROVE  TypeOK'
    <2>1. [kind |-> "tomb", n |-> i, shown |-> b] \in Places
      BY DEF Places
    <2>2. [kind |-> "tab", n |-> Target(i), shown |-> b] \in Places
      BY TargetType DEF Places
    <2>3. /\ at' \in [Viewers -> Places] /\ grace' \in [Pages -> Graces]
          /\ tombGrace' \subseteq Pages /\ tomb' \in [Pages -> TombRecords]
          /\ wire' \subseteq Messages
      BY <1>8, <2>1, <2>2, RouseType, ReviewTabsType DEF Attach
    <2> QED
      BY <1>8, <2>3, TypesAgain DEF Attach
  <1>9. ASSUME NEW v \in Viewers, Detach(v)  PROVE TypeOK'
    <2>1. /\ grace' \in [Pages -> Graces] /\ tombGrace' \subseteq Pages
      BY <1>9, ReviewTombsType, ReviewTabsType DEF Detach
    <2> QED
      BY <1>9, <2>1, RecordTypes, TypesAgain DEF Detach
  <1>10. ASSUME NEW v \in Viewers, Visible(v)  PROVE TypeOK'
    <2>1. at' \in [Viewers -> Places]
      <3>1. \A t \in Places : [t EXCEPT !.shown = ~t.shown] \in Places
        BY DEF Places
      <3>2. at' = [at EXCEPT ![v] = [at[v] EXCEPT !.shown = ~at[v].shown]]
        BY <1>10 DEF Visible
      <3> QED
        BY <3>1, <3>2
    <2>2. /\ tomb' \in [Pages -> TombRecords] /\ wire' \subseteq Messages
          /\ tombGrace' \subseteq Pages
      <3>1. CASE at[v].kind = "tomb" /\ ~at[v].shown /\ CanWake(at[v].n)
        <4>1. at[v].n \in Pages => Woke(at[v].n) \in TombRecords
          BY WokeType
        <4>2. tomb' = [tomb EXCEPT ![at[v].n] = Woke(at[v].n)]
          BY <1>10, <3>1 DEF Visible
        <4>3. wire' \subseteq Messages
          <5>1. wire' = wire \cup Wakes({at[v].n})
            BY <1>10, <3>1 DEF Visible
          <5>2. at[v].n \in 0..MaxPages
            BY DEF Places
          <5> QED
            BY <5>1, <5>2, RecordTypes DEF Wakes
        <4> QED
          BY <1>10, <3>1, <4>1, <4>2, <4>3 DEF Visible
      <3> QED
        BY <1>10, <3>1 DEF Visible
    <2> QED
      BY <1>10, <2>1, <2>2, TypesAgain DEF Visible
  <1>11. ASSUME NEW p \in Pages, CheckStarts(p)  PROVE TypeOK'
    BY <1>11, ReadType, TypesAgain DEF CheckStarts
  <1>12. ASSUME NEW m \in wire, PageObjects(m)  PROVE TypeOK'
    BY <1>12, TypesAgain, FellType DEF PageObjects
  <1> QED
    BY <1>1, <1>2, <1>3, <1>4, <1>5, <1>6, <1>7, <1>8, <1>9, <1>10, <1>11, <1>12 DEF Outside

LEMMA FilesType ==
  ASSUME TypeOK, Files  PROVE TypeOK'
  <1> USE Types, TypesNow, PageFacts, Bounds
  <1> USE DEF chromeVars, fileVars, linkVars, tabVars, tombVars, readVars, countVars
  <1>1. CASE WatchReports
    <2>1. tomb' \in [Pages -> TombRecords]
      <3> DEFINE b(i) == (tomb[i].falling # 0) \/ tomb[i].touched
      <3>1. \A i \in Pages : b(i) \in BOOLEAN
        BY DEF TombRecords
      <3>2. \A t \in TombRecords, c \in BOOLEAN : [t EXCEPT !.touched = c] \in TombRecords
        BY DEF TombRecords
      <3>3. tomb' = [i \in Pages |-> [tomb[i] EXCEPT !.touched = b(i)]]
        BY <1>1 DEF WatchReports
      <3> HIDE DEF b
      <3> QED
        BY <3>1, <3>2, <3>3
    <2>2. reads' \subseteq Readings
      <3> DEFINE b(r) == (r.who = "sleep") \/ r.stale
      <3>1. \A r \in Readings : b(r) \in BOOLEAN
        BY DEF Readings
      <3>2. \A r \in Readings, c \in BOOLEAN : [r EXCEPT !.stale = c] \in Readings
        BY DEF Readings
      <3>3. reads' = {[r EXCEPT !.stale = b(r)] : r \in reads}
        BY <1>1 DEF WatchReports
      <3> HIDE DEF b
      <3> QED
        BY <3>1, <3>2, <3>3
    <2> QED
      BY <1>1, <2>1, <2>2, TypesAgain DEF WatchReports
  <1>2. CASE RefreshStarts
    BY <1>2, ReadType, TypesAgain DEF RefreshStarts
  <1>3. CASE Beat
    BY <1>3, TypesAgain DEF Beat
  <1> QED
    BY <1>1, <1>2, <1>3 DEF Files

LEMMA ReadsType ==
  ASSUME TypeOK, Reads  PROVE TypeOK'
  <1> USE Types, TypesNow, PageFacts, Bounds
  <1> USE DEF chromeVars, fileVars, linkVars, tabVars, tombVars, readVars, countVars
  <1>1. ASSUME NEW r \in reads, RefreshEnds(r)  PROVE TypeOK'
    <2> DEFINE called == Called(r.agents)
               woken == {i \in called : CanWake(i)}
    <2>0. called \subseteq Pages /\ woken \subseteq Pages
      BY DEF Called
    <2>1. tomb' \in [Pages -> TombRecords]
      <3>1. \A t \in TombRecords, c \in BOOLEAN :
              /\ [t EXCEPT !.window = c] \in TombRecords
              /\ [[t EXCEPT !.waking = TRUE, !.retry = FALSE] EXCEPT !.window = FALSE] \in TombRecords
        BY DEF TombRecords
      <3> DEFINE b(i) == tomb[i].window /\ i \notin called
      <3>2. \A i \in Pages : b(i) \in BOOLEAN
        BY DEF TombRecords
      <3>3. tomb' = [i \in Pages |-> IF i \in woken
                       THEN [[tomb[i] EXCEPT !.waking = TRUE, !.retry = FALSE] EXCEPT !.window = FALSE]
                       ELSE [tomb[i] EXCEPT !.window = b(i)]]
        BY <1>1 DEF RefreshEnds, Woke
      <3> HIDE DEF b, woken, called
      <3> QED
        BY <3>1, <3>2, <3>3
    <2>2. wire' \subseteq Messages
      BY <1>1, <2>0, WakesType DEF RefreshEnds
    <2>3. look' \in Looks /\ grace' \in [Pages -> Graces] /\ tombGrace' \subseteq Pages
      BY <1>1, LookType, ReviewTabsType, ReviewTombsType DEF RefreshEnds
    <2> QED
      BY <1>1, <2>1, <2>2, <2>3, TypesAgain DEF RefreshEnds
  <1>2. ASSUME NEW r \in reads, OtherReadEnds(r)  PROVE TypeOK'
    BY <1>2, LookType, TypesAgain DEF OtherReadEnds
  <1>3. ASSUME NEW r \in reads, CloseIfUnused(r)  PROVE TypeOK'
    <2>1. r \in Readings /\ r.n \in 0..MaxPages
      BY DEF Readings
    <2>2. wire' \subseteq Messages
      BY <1>3, <2>1, RecordTypes DEF CloseIfUnused
    <2>3. grace' \in [Pages -> Graces]
      BY <1>3 DEF CloseIfUnused, Graces
    <2> QED
      BY <1>3, <2>2, <2>3, LookType, TypesAgain DEF CloseIfUnused
  <1>4. ASSUME NEW r \in reads, EndSleeperIfUnused(r)  PROVE TypeOK'
    <2>1. look' \in Looks
      BY <1>4, LookType DEF EndSleeperIfUnused
    <2>2. CASE EndTombs({r.n}, reads \ {r}, wire)
      BY <1>4, <2>1, <2>2, EndTombsType, TypesAgain DEF EndSleeperIfUnused
    <2>3. CASE /\ reads' = reads \ {r} /\ tombGrace' = tombGrace \ {r.n}
               /\ UNCHANGED <<wire, tomb, alias, closing, at>>
      BY <1>4, <2>1, <2>3, TypesAgain DEF EndSleeperIfUnused
    <2> QED
      BY <1>4, <2>2, <2>3 DEF EndSleeperIfUnused
  <1>5. ASSUME NEW r \in reads, CheckEnds(r)  PROVE TypeOK'
    <2>1. r.n \in 0..MaxPages
      BY DEF Readings
    <2>2. tab' \in [Pages -> TabRecords]
      <3>1. tab' = tab \/ tab' = [tab EXCEPT ![r.n] = [tab[r.n] EXCEPT !.fall = TRUE]]
        BY <1>5 DEF CheckEnds
      <3>2. \A t \in TabRecords : [t EXCEPT !.fall = TRUE] \in TabRecords
        BY DEF TabRecords
      <3> QED
        BY <3>1, <3>2
    <2>3. tomb' \in [Pages -> TombRecords]
      <3>1. tomb' = tomb \/ tomb' = [tomb EXCEPT ![tab[r.n].id] = Tombstone(r.n)]
        BY <1>5 DEF CheckEnds
      <3>2. Tombstone(r.n) \in TombRecords
        BY <2>1, RecordTypes
      <3> QED
        BY <3>1, <3>2
    <2>4. wire' \subseteq Messages
      <3>1. wire' = wire \/ wire' = wire \cup {Command("close", r.n, 0)}
        BY <1>5 DEF CheckEnds
      <3>2. Command("close", r.n, 0) \in Messages
        BY <2>1, RecordTypes
      <3> QED
        BY <3>1, <3>2
    <2>5. grace' \in [Pages -> Graces]
      BY <1>5 DEF CheckEnds, Graces
    <2> QED
      BY <1>5, <2>2, <2>3, <2>4, <2>5, LookType, TypesAgain DEF CheckEnds
  <1> QED
    BY <1>1, <1>2, <1>3, <1>4, <1>5 DEF Reads

LEMMA TimersType ==
  ASSUME TypeOK, Timers  PROVE TypeOK'
  <1> USE Types, TypesNow, PageFacts, Bounds
  <1> USE DEF chromeVars, fileVars, linkVars, tabVars, tombVars, readVars, countVars
  <1>1. ASSUME NEW p \in Pages, GraceEnds(p)  PROVE TypeOK'
    <2>1. grace' \in [Pages -> Graces]
      BY <1>1 DEF GraceEnds, Graces
    <2> QED
      BY <1>1, <2>1, ReadType, TypesAgain DEF GraceEnds
  <1>2. ASSUME NEW p \in Pages, TombGraceEnds(p)  PROVE TypeOK'
    BY <1>2, ReadType, TypesAgain DEF TombGraceEnds
  <1>3. ASSUME NEW i \in Pages, FinishClose(i)  PROVE TypeOK'
    <2>1. CASE EndTombs({i}, reads, wire) /\ UNCHANGED grace
      BY <1>3, <2>1, EndTombsType, TypesAgain DEF FinishClose
    <2>2. CASE ~Asleep(i)
      <3>1. closing' \in [Pages -> Closings]
        BY <1>3, <2>2 DEF FinishClose, Closings
      <3>2. tomb' \in [Pages -> TombRecords]
        BY <1>3, <2>2, RecordTypes DEF FinishClose
      <3>3. wire' \subseteq Messages
        <4>1. Command("end", Target(i), 0) \in Messages
          BY TargetType, RecordTypes
        <4>2. wire' = wire \/ wire' = wire \cup {Command("end", Target(i), 0)}
          BY <1>3, <2>2 DEF FinishClose
        <4> QED
          BY <4>1, <4>2
      <3> QED
        BY <1>3, <2>2, <3>1, <3>2, <3>3, TypesAgain DEF FinishClose
    <2> QED
      BY <1>3, <2>1, <2>2 DEF FinishClose
  <1>4. ASSUME NEW i \in Pages, WakeGivesUp(i)  PROVE TypeOK'
    <2>1. tomb' \in [Pages -> TombRecords]
      <3>1. \A t \in TombRecords : [t EXCEPT !.waking = FALSE] \in TombRecords
        BY DEF TombRecords
      <3> QED
        BY <1>4, <3>1 DEF WakeGivesUp
    <2> QED
      BY <1>4, <2>1, TypesAgain DEF WakeGivesUp
  <1>5. ASSUME NEW i \in Pages, WakeRetry(i)  PROVE TypeOK'
    <2>1. tomb' \in [Pages -> TombRecords]
      <3>1. \A t \in TombRecords : [t EXCEPT !.retry = FALSE] \in TombRecords
        BY DEF TombRecords
      <3> QED
        BY <1>5, <3>1, WokeType DEF WakeRetry
    <2>2. wire' \subseteq Messages
      BY <1>5, WakesType DEF WakeRetry
    <2> QED
      BY <1>5, <2>1, <2>2, TypesAgain DEF WakeRetry
  <1>6. ASSUME NEW i \in Pages, WindowCloses(i)  PROVE TypeOK'
    <2>1. tomb' \in [Pages -> TombRecords]
      <3>1. \A t \in TombRecords : [t EXCEPT !.window = FALSE, !.from = 0] \in TombRecords
        BY DEF TombRecords
      <3>2. tomb' = [tomb EXCEPT ![i] = [tomb[i] EXCEPT !.window = FALSE, !.from = 0]]
        BY <1>6 DEF WindowCloses, TombRecords
      <3> QED
        BY <3>1, <3>2
    <2> QED
      BY <1>6, <2>1, TypesAgain DEF WindowCloses
  <1>7. ASSUME NEW m \in wire, FallTimeout(m)  PROVE TypeOK'
    BY <1>7, FellType DEF FallTimeout
  <1> QED
    BY <1>1, <1>2, <1>3, <1>4, <1>5, <1>6, <1>7 DEF Timers

LEMMA FaultsType ==
  ASSUME TypeOK, Addressed, Faults  PROVE TypeOK'
  <1> USE Types, TypesNow, PageFacts, Bounds
  <1> USE DEF chromeVars, fileVars, linkVars, tabVars, tombVars, readVars, countVars
  <1>1. CASE Lost
    <2>1. tab' \in [Pages -> TabRecords]
      BY <1>1, RecordTypes DEF Lost, TabRecords
    <2>2. tomb' \in [Pages -> TombRecords]
      <3> DEFINE b(i) == Waiting(i) # {}
      <3>1. \A i : b(i) \in BOOLEAN
        OBVIOUS
      <3>2. \A t \in TombRecords, c \in BOOLEAN :
              [t EXCEPT !.waking = FALSE, !.retry = c] \in TombRecords
        BY DEF TombRecords
      <3>3. PICK X : tomb' = [i \in Pages |-> IF i \in X
                         THEN [tomb[i] EXCEPT !.waking = FALSE, !.retry = b(i)] ELSE tomb[i]]
        BY <1>1 DEF Lost
      <3> HIDE DEF b
      <3> QED
        BY <3>1, <3>2, <3>3
    <2>3. reads' \subseteq Readings
      <3> DEFINE left == {p \in Known : Watching(p) = {}}
                 b(r) == (r.who = "sleep" /\ r.n \in left) \/ r.stale
      <3>1. \A r \in Readings : b(r) \in BOOLEAN
        BY DEF Readings
      <3>2. \A r \in Readings, c \in BOOLEAN : [r EXCEPT !.stale = c] \in Readings
        BY DEF Readings
      <3>3. reads' = {[r EXCEPT !.stale = b(r)] : r \in reads}
        BY <1>1 DEF Lost
      <3> HIDE DEF b
      <3> QED
        BY <3>1, <3>2, <3>3
    <2>4. byId' \in [Pages -> 0..MaxPages]
      BY <1>1 DEF Lost
    <2>5. tombGrace' \subseteq Pages /\ grace' \in [Pages -> Graces]
      BY <1>1, ReviewTombsType, ReviewTabsType DEF Lost
    <2>6. /\ UNCHANGED <<open, holders, agents, unreported, alias, closing, at, look, refresh,
                        remembered, edits, faults>>
          /\ cdp' = "none" /\ seen' = {} /\ news' = {} /\ wire' = {}
          /\ drops < MaxDrops /\ drops' = drops + 1
      BY <1>1 DEF Lost
    <2>7. late' \subseteq Late
      <3> DEFINE taken == {m \in wire : \/ m.op \in {"close", "end"} /\ m.page \in open
                                       \/ m.op = "wake"}
      <3>1. late' = late \cup {[cmd |-> m, drop |-> drops] : m \in taken}
        BY <1>1 DEF Lost
      <3>2. ASSUME NEW m \in taken  PROVE [cmd |-> m, drop |-> drops] \in Late
        BY <3>2 DEF Messages, Late
      <3> QED
        BY <3>1, <3>2
    <2> QED
      BY <2>1, <2>2, <2>3, <2>4, <2>5, <2>6, <2>7, TypesAgain
  <1>2. CASE ReadyBlind
    <2>1. tombGrace' \subseteq Pages /\ grace' \in [Pages -> Graces]
      BY <1>2, ReviewTombsType, ReviewTabsType DEF ReadyBlind
    <2>2. Readied({}) /\ look' \in Looks /\ faults' \in 0..MaxFaults
      BY <1>2 DEF ReadyBlind
    <2> QED
      BY <2>1, <2>2, ReadiedType
  <1>3. ASSUME NEW r \in reads, ReadFails(r)  PROVE TypeOK'
    <2>1. grace' \in [Pages -> Graces]
      BY <1>3 DEF ReadFails, Graces
    <2> QED
      BY <1>3, <2>1, TypesAgain DEF ReadFails
  <1>4. ASSUME NEW m \in wire, WakeFails(m)  PROVE TypeOK'
    <2>1. tomb' \in [Pages -> TombRecords]
      <3> DEFINE b(i) == Waiting(i) # {}
      <3>1. \A i : b(i) \in BOOLEAN
        OBVIOUS
      <3>2. \A t \in TombRecords, c \in BOOLEAN :
              [t EXCEPT !.waking = FALSE, !.retry = c] \in TombRecords
        BY DEF TombRecords
      <3>3. tomb' = tomb \/
              tomb' = [tomb EXCEPT ![m.id].waking = FALSE, ![m.id].retry = b(m.id)]
        BY <1>4 DEF WakeFails
      <3>4. m.id \in Pages
        BY <1>4 DEF WakeFails, Addressed, Named, WakeOps
      <3>5. b(m.id) \in BOOLEAN /\ tomb[m.id] \in TombRecords
        BY <3>4
      <3>6. [tomb[m.id] EXCEPT !.waking = FALSE, !.retry = b(m.id)] \in TombRecords
        BY <3>2, <3>5
      <3> HIDE DEF b
      <3>7. tomb' = tomb \/ tomb' = [tomb EXCEPT ![m.id] =
                               [tomb[m.id] EXCEPT !.waking = FALSE, !.retry = b(m.id)]]
        BY <3>3, <3>4, <3>5 DEF TombRecords
      <3> QED
        BY <3>4, <3>6, <3>7
    <2>2. tombGrace' \subseteq Pages
      BY <1>4, ReviewTombsType DEF WakeFails
    <2> QED
      BY <1>4, <2>1, <2>2, TypesAgain DEF WakeFails
  <1> QED
    BY <1>1, <1>2, <1>3, <1>4 DEF Faults

LEMMA LinkType ==
  ASSUME TypeOK, Link  PROVE TypeOK'
  <1> USE Types, TypesNow, PageFacts, Bounds
  <1> USE DEF chromeVars, fileVars, linkVars, tabVars, tombVars, readVars, countVars
  <1>1. CASE Connect
    BY <1>1, TypesAgain DEF Connect
  <1>2. CASE Discovered
    <2> DEFINE U == Known \ seen
               F == {i \in Tombs : tomb[i].falling # 0 /\ tomb[i].falling \notin seen}
               D == {i \in Tombs : IF tomb[i].falling # 0 THEN tomb[i].falling \in seen
                                   ELSE Target(i) \in Known \ U}
    <2>1. Settle(U, F, D)
      BY <1>2 DEF Discovered
    <2>2. F \subseteq Pages
      BY DEF Tombs
    <2>3. /\ UNCHANGED <<open, news, late, fileVars, remembered, countVars>>
          /\ cdp' = "settling" /\ seen' = {}
      BY <1>2 DEF Discovered
    <2> HIDE DEF U, F, D
    <2> QED
      BY <2>1, <2>2, <2>3, SettleType, TypesAgain
  <1>3. CASE Ready
    <2>1. tombGrace' \subseteq Pages /\ grace' \in [Pages -> Graces]
      BY <1>3, ReviewTombsType, ReviewTabsType DEF Ready
    <2>2. Readied(Called(agents)) /\ look' \in Looks /\ faults' \in 0..MaxFaults
      BY <1>3, ReadType, LookType DEF Ready
    <2> QED
      BY <2>1, <2>2, ReadiedType
  <1>4. ASSUME NEW p \in Pages, Report(p)  PROVE TypeOK'
    <2>1. grace' \in [Pages -> Graces]
      BY <1>4, ReviewTabsType DEF Report
    <2>2. CASE Adopt(alias[p], p, wire)
      BY <1>4, <2>1, <2>2, AdoptType, TypesAgain DEF Report
    <2>3. CASE UNCHANGED <<wire, tab, byId, alias, tombVars, at, reads>>
      BY <1>4, <2>1, <2>3, TypesAgain DEF Report
    <2>4. CASE /\ tab' = [tab EXCEPT ![p] = [NoTab EXCEPT !.known = TRUE, !.id = alias[p]]]
               /\ byId' = [byId EXCEPT ![alias[p]] = p]
               /\ UNCHANGED <<wire, alias, tombVars, at, reads>>
      <3>1. tab' \in [Pages -> TabRecords] /\ byId' \in [Pages -> 0..MaxPages]
        BY <2>4 DEF NoTab, TabRecords
      <3> QED
        BY <1>4, <2>1, <2>4, <3>1, TypesAgain DEF Report
    <2> QED
      BY <1>4, <2>2, <2>3, <2>4 DEF Report
  <1>5. ASSUME NEW p \in Pages, Gone(p)  PROVE TypeOK'
    <2>1. PICK U, F, D : F \subseteq Pages /\ Settle(U, F, D)
      BY <1>5 DEF Gone
    <2> QED
      BY <1>5, <2>1, SettleType, TypesAgain DEF Gone
  <1> QED
    BY <1>1, <1>2, <1>3, <1>4, <1>5 DEF Link

LEMMA ChromeType ==
  ASSUME TypeOK, Addressed, Chrome  PROVE TypeOK'
  <1> USE Types, TypesNow, PageFacts, Bounds
  <1> USE DEF chromeVars, fileVars, linkVars, tabVars, tombVars, readVars, countVars
  <1>1. ASSUME NEW m \in wire, PageCloses(m)  PROVE TypeOK'
    BY <1>1, TypesAgain DEF PageCloses, LateBut
  <1>2. ASSUME NEW m \in wire, NEW p \in Fresh, PageWakes(m, p)  PROVE TypeOK'
    <2>1. p \in Pages
      BY DEF Fresh
    <2>2. [m EXCEPT !.op = "woken", !.page = p] \in Messages
      <3>1. m \in Messages /\ p \in 0..MaxPages
        BY <2>1
      <3> QED
        BY ONLY <3>1 DEF Messages
    <2> QED
      BY <1>2, <2>1, <2>2, TypesAgain DEF PageWakes
  <1>3. ASSUME NEW m \in wire, Woken(m)  PROVE TypeOK'
    <2>0. m.id \in Pages /\ m.page \in Pages
      BY <1>3 DEF Woken, Addressed, Named, WakeOps
    <2>1. CASE tab[m.page].known /\ m.mine
      <3>1. Adopt(m.id, m.page, wire \ {m}) /\ grace' \in [Pages -> Graces]
        BY <1>3, <2>1, ReviewTabsType DEF Woken
      <3>2. wire \ {m} \subseteq Messages
        OBVIOUS
      <3> QED
        BY <1>3, <2>0, <3>1, <3>2, AdoptType, TypesAgain DEF Woken
    <2>2. CASE ~(tab[m.page].known /\ m.mine)
      <3>1. alias' \in [Pages -> Pages]
        BY <1>3, <2>0, <2>2 DEF Woken
      <3> QED
        BY <1>3, <2>2, <3>1, TypesAgain DEF Woken
    <2> QED
      BY <2>1, <2>2
  <1>4. ASSUME NEW l \in late, LateClose(l)  PROVE TypeOK'
    BY <1>4, TypesAgain DEF LateClose, LateBut
  <1>5. ASSUME NEW l \in late, NEW p \in Fresh, LateOpens(l, p)  PROVE TypeOK'
    BY <1>5, TypesAgain DEF LateOpens, Fresh
  <1> QED
    BY <1>1, <1>2, <1>3, <1>4, <1>5 DEF Chrome

LEMMA NextType == TypeOK /\ Addressed /\ [Next]_vars => TypeOK'
  <1>1. ASSUME TypeOK, UNCHANGED vars  PROVE TypeOK'
    BY <1>1 DEF TypeOK, vars, chromeVars, fileVars, linkVars, tabVars, tombVars, readVars, countVars
  <1> QED
    BY <1>1, OutsideType, FaultsType, FilesType, ReadsType, TimersType, LinkType, ChromeType
    DEF Next

-----------------------------------------------------------------------------
(* What is named stays a page or an id.                                      *)

LEMMA CommandsNamed ==
  /\ \A p \in Pages : Named(Command("end", p, 0)) /\ Named(Command("close", p, 0))
  /\ \A I \in SUBSET Pages : \A m \in Wakes(I) : Named(m)
  BY DEF Named, Command, Wakes, WakeOps

LEMMA DisownedNamed ==
  ASSUME TypeOK, Addressed, NEW I, NEW W, W \subseteq wire  PROVE \A m \in Disowned(I, W) : Named(m)
  BY Types DEF Addressed, Disowned, Named, Messages

LEMMA DisownedNone ==
  ASSUME NEW I, NEW W, \A m \in W : m.id \notin I  PROVE Disowned(I, W) = W
  BY DEF Disowned

LEMMA OrphanedReads ==
  ASSUME NEW I, NEW R, R \subseteq Readings
  PROVE  \A r \in Orphaned(I, R) :
           \/ r \in R /\ ~(r.who = "ended" /\ r.n \in I)
           \/ r.who = "other"
  BY DEF Orphaned, Readings

LEMMA OrphanedDirected ==
  ASSUME TypeOK, Addressed, NEW I, NEW R, R \subseteq reads
  PROVE  \A r \in Orphaned(I, R) : Directed(r)
  BY Types, OrphanedReads DEF Addressed, Directed

LEMMA ReadDirected ==
  /\ \A who \in {"sleep", "unused", "ended"}, p \in Pages : Directed(Read(who, p))
  /\ Directed(Read("refresh", 0))
  BY DEF Directed, Read

LEMMA RouseNamed ==
  ASSUME Addressed, NEW i \in Pages, NEW b, Rouse(i, b)  PROVE \A m \in wire' : Named(m)
  <1>1. {i} \in SUBSET Pages
    OBVIOUS
  <1> QED
    BY <1>1, CommandsNamed DEF Rouse, Addressed

LEMMA EndTombsAddressed ==
  ASSUME TypeOK, Addressed, NEW I, NEW R, R \subseteq reads, EndTombs(I, R, wire)
  PROVE  Addressed'
  <1>1. \A m \in wire' : Named(m)
    BY DisownedNamed DEF EndTombs
  <1>2. \A r \in reads' : Directed(r)
    BY OrphanedDirected DEF EndTombs
  <1>3. \A v \in Viewers : at'[v].kind # "none" => at'[v].n \in Pages
    BY DEF EndTombs, Addressed, Nowhere
  <1> QED
    BY <1>1, <1>2, <1>3 DEF Addressed

LEMMA AdoptAddressed ==
  ASSUME TypeOK, Addressed, NEW i \in Pages, NEW p \in Pages, NEW W, W \subseteq wire,
         Adopt(i, p, W)
  PROVE  Addressed'
  <1>1. \A m \in wire' : Named(m)
    BY DisownedNamed DEF Adopt
  <1>2. \A r \in reads' : Directed(r)
    BY OrphanedDirected DEF Adopt
  <1>3. \A v \in Viewers : at'[v].kind # "none" => at'[v].n \in Pages
    BY Types DEF Adopt, Addressed, Places
  <1> QED
    BY <1>1, <1>2, <1>3 DEF Addressed

LEMMA SettleAddressed ==
  ASSUME TypeOK, Addressed, NEW U, NEW F, F \subseteq Pages, NEW D, Settle(U, F, D)
  PROVE  Addressed'
  <1> USE Types, TypesNow, PageFacts
  <1> DEFINE fell == {p \in U : tab[p].id \in F /\ tomb[tab[p].id].falling = p}
             there(v) == CASE at[v].kind = "tab" /\ at[v].n \in fell ->
                                [at[v] EXCEPT !.kind = "tomb", !.n = tab[at[v].n].id]
                           [] at[v].kind = "tab" /\ at[v].n \in U \ fell -> Nowhere
                           [] at[v].kind = "tomb" /\ at[v].n \in D -> Nowhere
                           [] OTHER -> at[v]
             viewed == {i \in F : \E v \in Viewers :
                                there(v).kind = "tomb" /\ there(v).n = i /\ there(v).shown}
             woken == IF cdp = "ready" THEN viewed ELSE {}
  <1>1. /\ at' = [v \in Viewers |-> there(v)]
        /\ wire' = Disowned(D, wire) \cup Wakes(woken)
        /\ reads' = Orphaned(D, reads)
    BY DEF Settle
  <1>2. woken \in SUBSET Pages
    OBVIOUS
  <1>3. ASSUME NEW v \in Viewers  PROVE at'[v].kind # "none" => at'[v].n \in Pages
    <2>0. at'[v] = there(v) /\ at[v] \in Places
      BY <1>1
    <2>1. CASE at[v].kind = "tab" /\ at[v].n \in fell
      <3>1. at'[v] = [at[v] EXCEPT !.kind = "tomb", !.n = tab[at[v].n].id]
        BY <2>0, <2>1
      <3> QED
        BY <2>0, <2>1, <3>1 DEF Places
    <2>2. CASE at[v].kind = "tab" /\ at[v].n \in U \ fell
      <3>1. at[v].n \notin fell
        BY <2>2
      <3>2. at'[v] = Nowhere
        BY <2>0, <2>2, <3>1
      <3> QED
        BY <3>2 DEF Nowhere
    <2>3. CASE at[v].kind = "tomb" /\ at[v].n \in D
      BY <2>0, <2>3 DEF Nowhere
    <2>4. CASE /\ ~(at[v].kind = "tab" /\ at[v].n \in fell)
               /\ ~(at[v].kind = "tab" /\ at[v].n \in U \ fell)
               /\ ~(at[v].kind = "tomb" /\ at[v].n \in D)
      <3>1. at'[v] = at[v]
        BY <2>0, <2>4
      <3> QED
        BY <3>1 DEF Addressed
    <2> QED
      BY <2>1, <2>2, <2>3, <2>4
  <1> HIDE DEF woken
  <1>4. \A m \in wire' : Named(m)
    BY <1>1, <1>2, DisownedNamed, CommandsNamed
  <1>5. \A r \in reads' : Directed(r)
    BY <1>1, OrphanedDirected
  <1> QED
    BY <1>3, <1>4, <1>5 DEF Addressed

LEMMA ReadiedAddressed ==
  ASSUME TypeOK, Addressed, NEW called, Readied(called)  PROVE Addressed'
  <1> USE Types, TypesNow, PageFacts
  <1> DEFINE ending == {i \in Pages : closing[i] = "due" /\ Asleep(i)}
             ended == {i \in Pages : closing[i] = "due" /\ ~Asleep(i) /\ Awake(i)}
             woken == {i \in Pages \ ending : Asleep(i) /\ ~tomb[i].waking /\ Shown(Waiting(i))}
  <1>1. /\ at' = [v \in Viewers |->
                    IF at[v].kind = "tomb" /\ at[v].n \in ending THEN Nowhere ELSE at[v]]
        /\ reads' = Orphaned(ending, reads)
        /\ wire' = Disowned(ending, wire) \cup Wakes(woken)
                     \cup {Command("end", Target(i), 0) : i \in ended}
    BY DEF Readied
  <1>2. woken \in SUBSET Pages /\ ended \subseteq Pages
    OBVIOUS
  <1> HIDE DEF ending, ended, woken
  <1>3. \A m \in wire' : Named(m)
    BY <1>1, <1>2, DisownedNamed, CommandsNamed, TargetType
  <1>4. \A r \in reads' : Directed(r)
    BY <1>1, OrphanedDirected
  <1>5. \A v \in Viewers : at'[v].kind # "none" => at'[v].n \in Pages
    BY <1>1 DEF Addressed, Nowhere
  <1> QED
    BY <1>3, <1>4, <1>5 DEF Addressed

LEMMA OutsideAddressed ==
  ASSUME TypeOK, Addressed, Outside  PROVE Addressed'
  <1> USE Types, TypesNow, PageFacts
  <1> USE DEF chromeVars, fileVars, linkVars, tabVars, tombVars, readVars, countVars
  <1>1. ASSUME NEW p \in Pages, PageEnds(p) \/ AgentComes(p) \/ AgentLeaves(p)  PROVE Addressed'
    BY <1>1 DEF PageEnds, AgentComes, AgentLeaves, Addressed
  <1>2. ASSUME NEW i \in Pages, HolderChanges(i) \/ CloseForEveryone(i) \/ Restore(i)
        PROVE  Addressed'
    BY <1>2 DEF HolderChanges, CloseForEveryone, Restore, Addressed
  <1>3. ASSUME NEW i \in Pages, WakeTab(i)  PROVE Addressed'
    <2>1. \A m \in wire' : Named(m)
      BY <1>3, RouseNamed DEF WakeTab
    <2> QED
      BY <1>3, <2>1 DEF WakeTab, Addressed
  <1>4. ASSUME NEW v \in Viewers, NEW i \in Pages, NEW b, Attach(v, i, b)  PROVE Addressed'
    <2>1. \A m \in wire' : Named(m)
      BY <1>4, RouseNamed DEF Attach, Addressed
    <2>2. \E k, n : at' = [at EXCEPT ![v] = [kind |-> k, n |-> n, shown |-> b]] /\ n \in Pages
      BY <1>4, TargetType DEF Attach
    <2>3. UNCHANGED reads
      BY <1>4 DEF Attach
    <2> QED
      BY <2>1, <2>2, <2>3 DEF Addressed
  <1>5. ASSUME NEW v \in Viewers, Detach(v)  PROVE Addressed'
    BY <1>5 DEF Detach, Addressed, Nowhere
  <1>6. ASSUME NEW v \in Viewers, Visible(v)  PROVE Addressed'
    <2>1. at' = [at EXCEPT ![v] = [at[v] EXCEPT !.shown = ~at[v].shown]] /\ UNCHANGED reads
      BY <1>6 DEF Visible
    <2>2. \A u \in Viewers : at'[u].kind = at[u].kind /\ at'[u].n = at[u].n
      BY <2>1 DEF Places
    <2>3. \A m \in wire' : Named(m)
      <3>1. wire' = wire \/ (wire' = wire \cup Wakes({at[v].n}) /\ at[v].kind = "tomb")
        BY <1>6 DEF Visible
      <3>2. at[v].kind = "tomb" => {at[v].n} \in SUBSET Pages
        BY DEF Addressed
      <3> QED
        BY <3>1, <3>2, CommandsNamed DEF Addressed
    <2> QED
      BY <2>1, <2>2, <2>3 DEF Addressed
  <1>7. ASSUME NEW p \in Pages, CheckStarts(p)  PROVE Addressed'
    BY <1>7, ReadDirected DEF CheckStarts, Addressed
  <1>8. ASSUME NEW m \in wire, PageObjects(m)  PROVE Addressed'
    BY <1>8 DEF PageObjects, Fell, Addressed
  <1> QED
    BY <1>1, <1>2, <1>3, <1>4, <1>5, <1>6, <1>7, <1>8 DEF Outside

\* A change of the holds that a connection or the watch reports marks reads.
LEMMA StaleDirected ==
  ASSUME TypeOK, Addressed, reads' = {[r EXCEPT !.stale = (r.who = "sleep") \/ @] : r \in reads}
  PROVE  \A r \in reads' : Directed(r)
  <1> SUFFICES ASSUME NEW r \in reads'  PROVE Directed(r)
    OBVIOUS
  <1>1. PICK q \in reads : r = [q EXCEPT !.stale = (q.who = "sleep") \/ @]
    OBVIOUS
  <1>2. q \in Readings
    BY Types
  <1>3. r.who = q.who /\ r.n = q.n
    BY ONLY <1>1, <1>2 DEF Readings
  <1> QED
    BY <1>3 DEF Directed, Addressed

LEMMA LostDirected ==
  ASSUME TypeOK, Addressed, NEW S,
         reads' = {[r EXCEPT !.stale = (r.who = "sleep" /\ r.n \in S) \/ @] : r \in reads}
  PROVE  \A r \in reads' : Directed(r)
  <1> SUFFICES ASSUME NEW r \in reads'  PROVE Directed(r)
    OBVIOUS
  <1>1. PICK q \in reads : r = [q EXCEPT !.stale = (q.who = "sleep" /\ q.n \in S) \/ @]
    OBVIOUS
  <1>2. q \in Readings
    BY Types
  <1>3. r.who = q.who /\ r.n = q.n
    BY ONLY <1>1, <1>2 DEF Readings
  <1> QED
    BY <1>3 DEF Directed, Addressed

LEMMA FilesAddressed ==
  ASSUME TypeOK, Addressed, Files  PROVE Addressed'
  <1> USE DEF chromeVars, fileVars, linkVars, tabVars, tombVars, readVars, countVars
  <1>1. CASE WatchReports
    <2>1. \A r \in reads' : Directed(r)
      BY <1>1, StaleDirected DEF WatchReports
    <2> QED
      BY <1>1, <2>1 DEF WatchReports, Addressed
  <1>2. CASE RefreshStarts
    BY <1>2, ReadDirected DEF RefreshStarts, Addressed
  <1>3. CASE Beat
    BY <1>3 DEF Beat, Addressed
  <1> QED
    BY <1>1, <1>2, <1>3 DEF Files

LEMMA ReadsAddressed ==
  ASSUME TypeOK, Addressed, Reads  PROVE Addressed'
  <1> USE Types, TypesNow, PageFacts
  <1> USE DEF chromeVars, fileVars, linkVars, tabVars, tombVars, readVars, countVars
  <1>1. ASSUME NEW r \in reads, RefreshEnds(r)  PROVE Addressed'
    <2> DEFINE woken == {i \in Called(r.agents) : CanWake(i)}
    <2>1. /\ wire' = wire \cup Wakes(woken) /\ reads' = reads \ {r} /\ at' = at
      BY <1>1 DEF RefreshEnds
    <2>2. woken \in SUBSET Pages
      BY DEF Called
    <2> HIDE DEF woken
    <2> QED
      BY <2>1, <2>2, CommandsNamed DEF Addressed
  <1>2. ASSUME NEW r \in reads, OtherReadEnds(r)  PROVE Addressed'
    BY <1>2 DEF OtherReadEnds, Addressed
  <1>3. ASSUME NEW r \in reads, CloseIfUnused(r)  PROVE Addressed'
    <2>1. r.n \in Pages
      BY <1>3 DEF CloseIfUnused, Addressed, Directed
    <2>2. /\ wire' = wire \/ wire' = wire \cup {Command("end", r.n, 0)}
          /\ reads' = reads \ {r} /\ at' = at
      BY <1>3 DEF CloseIfUnused
    <2> QED
      BY <2>1, <2>2, CommandsNamed DEF Addressed
  <1>4. ASSUME NEW r \in reads, EndSleeperIfUnused(r)  PROVE Addressed'
    <2>1. CASE EndTombs({r.n}, reads \ {r}, wire)
      BY <2>1, EndTombsAddressed
    <2>2. CASE reads' = reads \ {r} /\ UNCHANGED <<wire, at>>
      BY <2>2 DEF Addressed
    <2> QED
      BY <1>4, <2>1, <2>2 DEF EndSleeperIfUnused
  <1>5. ASSUME NEW r \in reads, CheckEnds(r)  PROVE Addressed'
    <2>1. r.n \in Pages
      BY <1>5 DEF CheckEnds, Addressed, Directed
    <2>2. /\ wire' = wire \/ wire' = wire \cup {Command("close", r.n, 0)}
          /\ reads' = reads \ {r} /\ at' = at
      BY <1>5 DEF CheckEnds
    <2> QED
      BY <2>1, <2>2, CommandsNamed DEF Addressed
  <1> QED
    BY <1>1, <1>2, <1>3, <1>4, <1>5 DEF Reads

LEMMA TimersAddressed ==
  ASSUME TypeOK, Addressed, Timers  PROVE Addressed'
  <1> USE Types, TypesNow, PageFacts
  <1> USE DEF chromeVars, fileVars, linkVars, tabVars, tombVars, readVars, countVars
  <1>1. ASSUME NEW p \in Pages, GraceEnds(p) \/ TombGraceEnds(p)  PROVE Addressed'
    BY <1>1, ReadDirected DEF GraceEnds, TombGraceEnds, Addressed
  <1>2. ASSUME NEW i \in Pages, FinishClose(i)  PROVE Addressed'
    <2>1. CASE EndTombs({i}, reads, wire)
      BY <2>1, EndTombsAddressed
    <2>2. CASE /\ wire' = wire \/ wire' = wire \cup {Command("end", Target(i), 0)}
               /\ UNCHANGED <<at, reads>>
      BY <2>2, TargetType, CommandsNamed DEF Addressed
    <2> QED
      BY <1>2, <2>1, <2>2 DEF FinishClose
  <1>3. ASSUME NEW i \in Pages, WakeGivesUp(i) \/ WindowCloses(i)  PROVE Addressed'
    BY <1>3 DEF WakeGivesUp, WindowCloses, Addressed
  <1>4. ASSUME NEW i \in Pages, WakeRetry(i)  PROVE Addressed'
    <2>1. /\ wire' = wire \/ wire' = wire \cup Wakes({i})
          /\ UNCHANGED <<at, reads>>
      BY <1>4 DEF WakeRetry
    <2>2. {i} \in SUBSET Pages
      OBVIOUS
    <2> QED
      BY <2>1, <2>2, CommandsNamed DEF Addressed
  <1>5. ASSUME NEW m \in wire, FallTimeout(m)  PROVE Addressed'
    BY <1>5 DEF FallTimeout, Fell, Addressed
  <1> QED
    BY <1>1, <1>2, <1>3, <1>4, <1>5 DEF Timers

LEMMA FaultsAddressed ==
  ASSUME TypeOK, Addressed, Faults  PROVE Addressed'
  <1> USE DEF chromeVars, fileVars, linkVars, tabVars, tombVars, readVars, countVars
  <1>1. CASE Lost
    <2>1. wire' = {} /\ at' = at /\ \A r \in reads' : Directed(r)
      BY <1>1, LostDirected DEF Lost
    <2> QED
      BY <2>1 DEF Addressed
  <1>2. CASE ReadyBlind
    BY <1>2, ReadiedAddressed DEF ReadyBlind
  <1>3. ASSUME NEW r \in reads, ReadFails(r)  PROVE Addressed'
    BY <1>3 DEF ReadFails, Addressed
  <1>4. ASSUME NEW m \in wire, WakeFails(m)  PROVE Addressed'
    BY <1>4 DEF WakeFails, Addressed
  <1> QED
    BY <1>1, <1>2, <1>3, <1>4 DEF Faults

LEMMA LinkAddressed ==
  ASSUME TypeOK, Addressed, Link  PROVE Addressed'
  <1> USE DEF chromeVars, fileVars, linkVars, tabVars, tombVars, readVars, countVars
  <1>1. CASE Connect
    BY <1>1 DEF Connect, Addressed
  <1>2. CASE Discovered
    <2> DEFINE U == Known \ seen
               F == {i \in Tombs : tomb[i].falling # 0 /\ tomb[i].falling \notin seen}
               D == {i \in Tombs : IF tomb[i].falling # 0 THEN tomb[i].falling \in seen
                                   ELSE Target(i) \in Known \ U}
    <2>1. Settle(U, F, D)
      BY <1>2 DEF Discovered
    <2>2. F \subseteq Pages
      BY DEF Tombs
    <2> HIDE DEF U, F, D
    <2> QED
      BY <2>1, <2>2, SettleAddressed
  <1>3. CASE Ready
    BY <1>3, ReadiedAddressed DEF Ready
  <1>4. ASSUME NEW p \in Pages, Report(p)  PROVE Addressed'
    <2>1. alias[p] \in Pages /\ wire \subseteq wire
      BY TypesNow
    <2>2. CASE Adopt(alias[p], p, wire)
      BY <2>1, <2>2, AdoptAddressed
    <2>3. CASE UNCHANGED <<wire, at, reads>>
      BY <2>3 DEF Addressed
    <2> QED
      BY <1>4, <2>2, <2>3 DEF Report
  <1>5. ASSUME NEW p \in Pages, Gone(p)  PROVE Addressed'
    <2> DEFINE F == {i \in Pages : tomb[i].falling = p}
    <2>1. Settle({p}, F, {}) /\ F \subseteq Pages
      BY <1>5 DEF Gone
    <2> HIDE DEF F
    <2> QED
      BY <2>1, SettleAddressed
  <1> QED
    BY <1>1, <1>2, <1>3, <1>4, <1>5 DEF Link

LEMMA ChromeAddressed ==
  ASSUME TypeOK, Addressed, Chrome  PROVE Addressed'
  <1> USE DEF chromeVars, fileVars, linkVars, tabVars, tombVars, readVars, countVars
  <1>1. ASSUME NEW m \in wire, PageCloses(m)  PROVE Addressed'
    BY <1>1 DEF PageCloses, Addressed
  <1>2. ASSUME NEW m \in wire, NEW p \in Fresh, PageWakes(m, p)  PROVE Addressed'
    <2> DEFINE w == [m EXCEPT !.op = "woken", !.page = p]
    <2>1. m \in Messages /\ p \in Pages /\ m.op = "wake" /\ m.id \in Pages
      BY <1>2, Types DEF Fresh, PageWakes, Addressed, Named, WakeOps
    <2>2. w.id = m.id /\ w.page = p
      BY ONLY <2>1 DEF Messages
    <2>3. Named(w) /\ wire' = (wire \ {m}) \cup {w} /\ UNCHANGED <<at, reads>>
      BY <1>2, <2>1, <2>2 DEF Named, PageWakes
    <2> HIDE DEF w
    <2> QED
      BY <2>3 DEF Addressed
  <1>3. ASSUME NEW m \in wire, Woken(m)  PROVE Addressed'
    <2>1. m.id \in Pages /\ m.page \in Pages /\ wire \ {m} \subseteq wire
      BY <1>3 DEF Woken, Addressed, Named, WakeOps
    <2>2. CASE Adopt(m.id, m.page, wire \ {m})
      BY <2>1, <2>2, AdoptAddressed
    <2>3. CASE wire' = wire \ {m} /\ UNCHANGED <<at, reads>>
      BY <2>3 DEF Addressed
    <2> QED
      BY <1>3, <2>2, <2>3 DEF Woken
  <1>4. ASSUME NEW l \in late, LateClose(l)  PROVE Addressed'
    BY <1>4 DEF LateClose, Addressed
  <1>5. ASSUME NEW l \in late, NEW p \in Fresh, LateOpens(l, p)  PROVE Addressed'
    BY <1>5 DEF LateOpens, Addressed
  <1> QED
    BY <1>1, <1>2, <1>3, <1>4, <1>5 DEF Chrome

\* The variables keep their types and the counters their bounds, however slow
\* Chrome is: every step of the hub, of its timers and of its connection.
THEOREM TypeCorrect == Spec => []TypeOK
  <1>1. Init => TypeOK /\ Addressed
    BY InitType DEF Init, Addressed, Nowhere
  <1>2. TypeOK /\ Addressed /\ [Next]_vars => (TypeOK /\ Addressed)'
    <2>1. ASSUME UNCHANGED vars, Addressed  PROVE Addressed'
      BY <2>1 DEF Addressed, vars, chromeVars, fileVars, linkVars, tabVars, tombVars, readVars
    <2> QED
      BY <2>1, NextType, OutsideAddressed, FilesAddressed, ReadsAddressed, TimersAddressed,
         FaultsAddressed, LinkAddressed, ChromeAddressed
      DEF Next
  <1> QED
    BY <1>1, <1>2, PTL DEF Spec

=============================================================================
