------------------------- MODULE TabHubTabs_proofs -------------------------
(* The tabs of the hub: what its maps say of a tab agrees, a tombstone goes  *)
(* only for what may end it, and that of a falling tab only once its fall is *)
(* answered; for any number of pages, ids, viewers, edits, reads, drops and  *)
(* faults, while Chrome answers in the times the hub and a person wait for   *)
(* it (~SlowChrome).                                                         *)
EXTENDS TabHub_proofs

-----------------------------------------------------------------------------
(* The inductive invariant.                                                  *)

\* The pages there are: in Chrome, still to be reported, or known.
Live == open \cup news \cup Known

\* What the records name, and what a tombstone that is not there does not.
Shapes ==
  /\ \A p \in Pages : tab[p].known => tab[p].id \in Pages
  /\ \A i \in Pages : ~tomb[i].on => tomb[i].falling = 0 /\ ~tomb[i].waking
  /\ \A m \in wire : /\ m.mine
                     /\ m.op \in WakeOps => m.id \in Pages
                     /\ m.op # "wake" => m.page \in Pages
                     /\ m.op \notin WakeOps => m.id = 0
  /\ \A r \in reads : r.who \in {"sleep", "unused", "ended"} => r.n \in Pages
  /\ \A v \in Viewers : at[v].kind # "none" => at[v].n \in Pages

\* What a connection has told: every page there is, once it discovered them.
Connection ==
  /\ cdp = "none" => news = {} /\ wire = {}
  /\ cdp # "reporting" => seen = {}
  /\ seen \cap news = {}
  /\ \A m \in wire : /\ m.op \in WakeOps => cdp = "ready"
                     /\ m.op = "close" => cdp # "reporting" \/ m.page \in seen
  /\ cdp = "reporting" => open \subseteq news \cup seen /\ seen \cap open \subseteq Known
  /\ cdp \in {"settling", "ready"} => open \subseteq Known \cup news
  /\ cdp \in {"settling", "ready"} => news \cap (Known \cup remembered) = {}

\* An id is the alias of one page there is, and of that page's tab.
Identity ==
  /\ OneIdOnePage
  /\ \A i \in Pages : byId[i] # 0 => tab[byId[i]].known /\ tab[byId[i]].id = i
  /\ \A p \in Known : alias[p] = tab[p].id
  /\ \A p, q \in Live : alias[p] = alias[q] => p = q
  /\ \A p \in Live : alias[p] # p => alias[p] \notin Live

\* The page that falls asleep under the id i: no other page there is has the
\* id, and a connection that has reported it knows it.
FallOf(i, p) ==
  /\ alias[p] = i /\ \A q \in Live : alias[q] = i => q = p
  /\ cdp \in {"settling", "ready"} => tab[p].known
  /\ cdp = "reporting" /\ p \in seen => tab[p].known

Tombstones ==
  /\ \A i \in Live : tomb[i].on => tomb[i].falling = i
  /\ \A i \in Pages : Asleep(i) => ~Awake(i)
  /\ \A i \in Pages : tomb[i].falling # 0 => FallOf(i, tomb[i].falling)
  /\ \A i \in tombGrace : Asleep(i)
  /\ \A r \in reads : r.who = "ended" => Asleep(r.n)

\* A wake under way is of a tab that sleeps, and the only one; a page that
\* woke is not about to fall asleep.
Waking ==
  /\ \A m \in wire : m.op \in WakeOps => Asleep(m.id) /\ tomb[m.id].waking
  /\ \A m, n \in wire : m.op \in WakeOps /\ n.op \in WakeOps /\ m.id = n.id => m = n
  /\ cdp \in {"settling", "ready"} => \A p \in news : alias[p] # p =>
        /\ Asleep(alias[p]) /\ tomb[alias[p]].waking
        /\ \A m \in wire : m.op \in WakeOps => m.id # alias[p]
  /\ \A m \in wire : m.op = "woken" =>
        /\ \A r \in reads : r.who = "sleep" => r.n # m.page
        /\ \A i \in Pages : tomb[i].falling # m.page
  /\ \A m \in wire : m.op = "close" => m.page \notin news

HubInv ==
  /\ TypeOK /\ Shapes /\ Connection /\ Identity /\ Tombstones /\ Waking
  /\ ViewersStand

-----------------------------------------------------------------------------
(* Steps that no page, id or fall of a tab is touched by.                    *)

QuietTombs ==
  /\ \A i \in Pages :
       /\ ~tomb'[i].on => tomb'[i].falling = 0 /\ ~tomb'[i].waking
       /\ \/ (tomb'[i].on <=> tomb[i].on) /\ tomb'[i].falling = tomb[i].falling
          \/ Reopens(i) /\ Asleep(i)'
       /\ tomb[i].waking /\ ~tomb'[i].waking =>
            /\ \A m \in wire' : m.op \in WakeOps => m.id # i
            /\ \A p \in news : alias[p] # p => alias[p] # i
  /\ \A i \in tombGrace' : Asleep(i)'
QuietWire ==
  /\ \A m \in wire \ wire' : m.op = "wake"
  /\ \A m \in wire' \ wire :
       \/ cdp # "none" /\ \E p \in Pages : m = Command("end", p, 0)
       \/ \E i \in Pages : /\ m = Command("wake", 0, i) /\ cdp = "ready"
                           /\ Asleep(i)' /\ ~tomb[i].waking /\ tomb'[i].waking
QuietReads ==
  \A r \in reads' :
    /\ r.who \in {"sleep", "unused", "ended"} => r.n \in Pages
    /\ r.who = "ended" => Asleep(r.n)'
    /\ r.who = "sleep" => \/ \E q \in reads : q.who = "sleep" /\ q.n = r.n
                          \/ \A m \in wire : m.op = "woken" => m.page # r.n
QuietViewers ==
  \A v \in Viewers : /\ at'[v].kind # "none" => at'[v].n \in Pages
                     /\ at'[v].kind = "tab" => tab'[at'[v].n].known
                     /\ (at[v].kind = "tomb" => Asleep(at[v].n))'
Quiet ==
  /\ UNCHANGED <<open, news, linkVars, tab, byId, alias, remembered>>
  /\ QuietTombs /\ QuietWire /\ QuietReads /\ QuietViewers

\* An id that reopens: no page there is has it.
LEMMA ReopensNew ==
  ASSUME HubInv, NEW i \in Pages, Reopens(i)
  PROVE  i \notin Live /\ ~Awake(i) /\ ~tomb[i].on /\ cdp = "ready"
  <1>1. i \in Known => Awake(i)
    <2> SUFFICES ASSUME i \in Known  PROVE Awake(i)
      OBVIOUS
    <2>1. CASE byId[i] # 0
      <3>1. tab[byId[i]].known /\ byId[i] \in Pages
        BY <2>1, PageFacts, TypesNow DEF HubInv, Identity
      <3> QED
        BY <2>1, <3>1 DEF Awake, Target, Known
    <2>2. CASE byId[i] = 0
      BY <2>2 DEF Awake, Target
    <2> QED
      BY <2>1, <2>2
  <1>2. i \notin news /\ open \subseteq Known \cup news
    BY DEF Reopens, HubInv, Connection
  <1> QED
    BY <1>1, <1>2 DEF Reopens, Live, HubInv, Shapes

\* A step that touches none of them keeps the invariant.
LEMMA QuietKeeps ==
  ASSUME HubInv, TypeOK', Quiet
  PROVE  HubInv'
  <1> USE Types, TypesNow, PageFacts DEF linkVars
  <1>0. /\ Live' = Live /\ Known' = Known /\ (\A i \in Pages : Awake(i)' <=> Awake(i))
        /\ (\A i \in Pages : tomb'[i].falling # 0 => tomb'[i].falling = tomb[i].falling)
    BY DEF Quiet, QuietTombs, Live, Known, Awake, Target, Asleep
  <1>1. Shapes'
    <2>1. \A m \in wire' : /\ m.mine
                           /\ m.op \in WakeOps => m.id \in Pages
                           /\ m.op # "wake" => m.page \in Pages
                           /\ m.op \notin WakeOps => m.id = 0
      BY DEF HubInv, Shapes, Quiet, QuietWire, Command, WakeOps
    <2>2. \A p \in Pages : tab'[p].known => tab'[p].id \in Pages
      BY DEF HubInv, Shapes, Quiet
    <2>3. \A i \in Pages : ~tomb'[i].on => tomb'[i].falling = 0 /\ ~tomb'[i].waking
      BY DEF Quiet, QuietTombs
    <2>4. \A r \in reads' : r.who \in {"sleep", "unused", "ended"} => r.n \in Pages
      BY DEF Quiet, QuietReads
    <2>5. \A v \in Viewers : at'[v].kind # "none" => at'[v].n \in Pages
      BY DEF Quiet, QuietViewers
    <2> QED
      BY <2>1, <2>2, <2>3, <2>4, <2>5 DEF Shapes
  <1>2. Connection'
    <2>1. \A m \in wire' : m \in wire \/ (m.op = "end" /\ cdp # "none") \/ (m.op = "wake" /\ cdp = "ready")
      BY DEF Quiet, QuietWire, Command
    <2> QED
      BY <1>0, <2>1 DEF HubInv, Connection, Quiet, WakeOps
  <1>3. Identity'
    BY <1>0 DEF HubInv, Identity, Quiet, OneIdOnePage
  <1>4. Tombstones'
    <2>1. ASSUME NEW i \in Live', tomb'[i].on  PROVE tomb'[i].falling = i
      BY <1>0, <2>1, ReopensNew DEF HubInv, Tombstones, Quiet, QuietTombs, Live, Known
    <2>2. ASSUME NEW i \in Pages, Asleep(i)'  PROVE ~Awake(i)'
      BY <1>0, <2>2, ReopensNew DEF HubInv, Tombstones, Quiet, QuietTombs, Asleep
    <2>3. ASSUME NEW i \in Pages, tomb'[i].falling # 0  PROVE FallOf(i, tomb[i].falling)'
      <3>1. PICK q : q = tomb[i].falling /\ q = tomb'[i].falling
        BY ONLY <1>0, <2>3
      <3>2. FallOf(i, q)
        BY <1>0, <2>3, <3>1 DEF HubInv, Tombstones
      <3>3. FallOf(i, q)'
        BY <1>0, <3>2 DEF FallOf, Quiet
      <3> QED
        BY <3>1, <3>3 DEF FallOf
    <2> QED
      BY <1>0, <2>1, <2>2, <2>3 DEF Tombstones, Quiet, QuietTombs, QuietReads
  <1>5. Waking'
    <2> DEFINE new(m) == \E i \in Pages : /\ m = Command("wake", 0, i) /\ cdp = "ready"
                             /\ Asleep(i)' /\ ~tomb[i].waking /\ tomb'[i].waking
    <2>0. \A m \in wire' : m.op # "end" => m \in wire \/ new(m)
      BY DEF Quiet, QuietWire, Command
    <2>1. \A i \in Pages : Asleep(i) => Asleep(i)'
      BY DEF Quiet, QuietTombs, Asleep, Reopens
    <2>2. ASSUME NEW m \in wire', m.op \in WakeOps
          PROVE  Asleep(m.id)' /\ tomb'[m.id].waking
      <3>1. CASE m \in wire
        <4>1. m.id \in Pages /\ Asleep(m.id) /\ tomb[m.id].waking
          BY <2>2, <3>1 DEF HubInv, Shapes, Waking
        <4>2. tomb'[m.id].waking
          BY <2>2, <4>1 DEF Quiet, QuietTombs
        <4> QED
          BY <2>1, <4>1, <4>2
      <3>2. CASE new(m)
        BY <3>2 DEF Command
      <3> QED
        BY <2>0, <2>2, <3>1, <3>2 DEF WakeOps
    <2>3. ASSUME NEW m \in wire', NEW n \in wire', m.op \in WakeOps, n.op \in WakeOps,
                 m.id = n.id
          PROVE  m = n
      <3>1. m.op # "end" /\ n.op # "end"
        BY <2>3 DEF WakeOps
      <3>2. CASE m \in wire /\ n \in wire
        BY <2>3, <3>2 DEF HubInv, Waking
      <3>3. CASE new(m) /\ new(n)
        BY <2>3, <3>3 DEF Command
      <3>4. ASSUME NEW k \in wire, NEW l, new(l), k.op \in WakeOps  PROVE k.id # l.id
        <4>1. tomb[k.id].waking
          BY <3>4 DEF HubInv, Waking
        <4> QED
          BY <3>4, <4>1 DEF Command
      <3> QED
        BY <2>0, <2>3, <3>1, <3>2, <3>3, <3>4
    <2>4. ASSUME cdp' \in {"settling", "ready"}, NEW p \in news', alias'[p] # p
          PROVE  /\ Asleep(alias[p])' /\ tomb'[alias'[p]].waking
                 /\ \A m \in wire' : m.op \in WakeOps => m.id # alias'[p]
      <3> DEFINE i == alias[p]
      <3>1. /\ p \in Pages /\ i \in Pages /\ cdp \in {"settling", "ready"} /\ Asleep(i) /\ tomb[i].waking
            /\ \A m \in wire : m.op \in WakeOps => m.id # i
        BY <2>4 DEF Quiet, HubInv, Waking
      <3>2. tomb'[i].waking
        BY <2>4, <3>1 DEF Quiet, QuietTombs
      <3>3. \A m \in wire' : m.op \in WakeOps => m.id # i
        BY <2>0, <3>1 DEF Command, WakeOps
      <3> QED
        BY <2>1, <3>1, <3>2, <3>3 DEF Quiet
    <2>5. ASSUME NEW m \in wire', m.op = "woken"
          PROVE  /\ \A r \in reads' : r.who = "sleep" => r.n # m.page
                 /\ \A i \in Pages : tomb'[i].falling # m.page
      <3>1. m \in wire
        BY <2>0, <2>5 DEF Command
      <3>2. m.page \in Pages
        BY <2>5, <3>1 DEF HubInv, Shapes
      <3>3. \A r \in reads' : r.who = "sleep" => r.n # m.page
        BY <2>5, <3>1 DEF HubInv, Waking, Quiet, QuietReads
      <3>4. \A i \in Pages : tomb'[i].falling # m.page
        BY <1>0, <2>5, <3>1, <3>2 DEF HubInv, Waking
      <3> QED
        BY <3>3, <3>4
    <2>6. ASSUME NEW m \in wire', m.op = "close"  PROVE m.page \notin news'
      BY <2>0, <2>6 DEF Command, HubInv, Waking, Quiet
    <2> QED
      BY <2>2, <2>3, <2>4, <2>5, <2>6 DEF Waking
  <1>6. ViewersStand'
    BY DEF ViewersStand, Quiet, QuietViewers
  <1> QED
    BY <1>1, <1>2, <1>3, <1>4, <1>5, <1>6 DEF HubInv

\* What counts down after a review sleeps.
LEMMA ReviewedAsleep ==
  ASSUME HubInv, NEW I, ReviewTombs(I), \A i \in Pages : Asleep(i) => Asleep(i)'
  PROVE  \A i \in tombGrace' : Asleep(i)'
  BY DEF HubInv, Tombstones, ReviewTombs, Unwanted, Tombs

LEMMA TombsSame ==
  ASSUME HubInv, UNCHANGED tomb, \A i \in tombGrace' : Asleep(i)
  PROVE  QuietTombs
  BY DEF QuietTombs, Asleep, HubInv, Shapes

LEMMA ReadsLess ==
  ASSUME HubInv, \A i \in Pages : Asleep(i) => Asleep(i)', reads' \subseteq reads
  PROVE  QuietReads
  BY DEF QuietReads, HubInv, Shapes, Tombstones

LEMMA ReadsMore ==
  ASSUME HubInv, \A i \in Pages : Asleep(i) => Asleep(i)',
         NEW who, NEW n, reads' = reads \cup {Read(who, n)},
         who \in {"refresh", "sleep", "unused", "ended", "other"}, n \in 0..MaxPages,
         who \in {"sleep", "unused", "ended"} => n \in Pages,
         who = "ended" => Asleep(n),
         who = "sleep" => \A m \in wire : m.op = "woken" => m.page # n
  PROVE  QuietReads
  <1>1. Read(who, n).who = who /\ Read(who, n).n = n
    BY DEF Read
  <1> QED
    BY <1>1 DEF QuietReads, HubInv, Shapes, Tombstones

LEMMA ViewersSame ==
  ASSUME HubInv, \A i \in Pages : Asleep(i) => Asleep(i)', UNCHANGED <<tab, at>>
  PROVE  QuietViewers
  BY DEF QuietViewers, HubInv, Shapes, ViewersStand

\* A tombstone that wakes.
LEMMA WokeQuiet ==
  ASSUME HubInv, NEW i \in Pages, CanWake(i),
         tomb' = [tomb EXCEPT ![i] = Woke(i)], wire' = wire \cup Wakes({i}),
         \A j \in tombGrace' : j \in tombGrace \/ Asleep(j)'
  PROVE  QuietTombs /\ QuietWire /\ (\A j \in Pages : Asleep(j) => Asleep(j)')
  <1> USE Types, TypesNow DEF HubInv
  <1>1. /\ Woke(i).on = tomb[i].on /\ Woke(i).falling = tomb[i].falling /\ Woke(i).waking
        /\ tomb[i].on /\ tomb[i].falling = 0 /\ ~tomb[i].waking /\ cdp = "ready"
    <2>1. tomb[i] \in TombRecords
      BY TypesNow, Types
    <2> QED
      BY <2>1 DEF Woke, CanWake, Asleep, TombRecords
  <1>2. /\ \A j \in Pages : j # i => tomb'[j] = tomb[j]
        /\ tomb'[i].on /\ tomb'[i].falling = 0 /\ tomb'[i].waking
    BY <1>1
  <1>3. \A j \in Pages : Asleep(j) => Asleep(j)'
    BY <1>2 DEF Asleep
  <1>4. QuietTombs
    BY <1>1, <1>2, <1>3 DEF QuietTombs, Shapes, Tombstones
  <1>5. QuietWire
    BY <1>1, <1>2 DEF QuietWire, Wakes, Asleep
  <1> QED
    BY <1>3, <1>4, <1>5

\* A tombstone, there or made, that wakes or only waits.
LEMMA RouseQuiet ==
  ASSUME HubInv, NEW i \in Pages, Asleep(i) \/ Reopens(i), NEW b, Rouse(i, b)
  PROVE  QuietTombs /\ QuietWire /\ (\A j \in Pages : Asleep(j) => Asleep(j)') /\ Asleep(i)'
  <1> USE Types, TypesNow, PageFacts DEF HubInv
  <1> DEFINE old == IF tomb[i].on THEN tomb[i] ELSE Tombstone(0)
             wakes == b /\ cdp = "ready" /\ ~old.waking
             new == IF wakes THEN [old EXCEPT !.waking = TRUE, !.retry = FALSE] ELSE old
  <1>0. tomb[i] \in TombRecords
    BY Types
  <1>1. old \in TombRecords /\ old.on /\ old.falling = 0 /\ (old.waking <=> tomb[i].waking)
    <2>1. CASE Asleep(i)
      BY <1>0, <2>1 DEF Asleep
    <2>2. CASE ~tomb[i].on
      <3>1. ~tomb[i].waking
        BY <2>2 DEF Shapes
      <3> QED
        BY <2>2, <3>1, RecordTypes DEF Tombstone, NoTomb
    <2> QED
      BY <2>1, <2>2 DEF Reopens
  <1>2. tomb' = [tomb EXCEPT ![i] = new] /\ wire' = (IF wakes THEN wire \cup Wakes({i}) ELSE wire)
    BY DEF Rouse
  <1> HIDE DEF old
  <1>3. new.on /\ new.falling = 0 /\ (old.waking => new.waking) /\ (wakes => new.waking)
    BY <1>1 DEF TombRecords
  <1> HIDE DEF new
  <1>4. /\ \A j \in Pages : j # i => tomb'[j] = tomb[j]
        /\ tomb'[i].on /\ tomb'[i].falling = 0
        /\ tomb[i].waking => tomb'[i].waking
        /\ wakes => ~tomb[i].waking /\ tomb'[i].waking /\ cdp = "ready"
    BY <1>1, <1>2, <1>3
  <1>5. (\A j \in Pages : Asleep(j) => Asleep(j)') /\ Asleep(i)'
    BY <1>4 DEF Asleep
  <1>6. \A j \in tombGrace' : Asleep(j)'
    BY <1>5, ReviewedAsleep DEF Rouse
  <1>7. QuietTombs
    BY <1>4, <1>5, <1>6 DEF QuietTombs, Shapes, Asleep
  <1>8. QuietWire
    <2> HIDE DEF wakes
    <2> QED
      BY <1>2, <1>4, <1>5 DEF QuietWire, Wakes
  <1> QED
    BY <1>5, <1>7, <1>8

\* What people and agents do touches none of them.
LEMMA QuietOutside ==
  ASSUME HubInv
  PROVE  /\ \A p \in Pages : AgentComes(p) => Quiet
         /\ \A p \in Pages : AgentLeaves(p) => Quiet
         /\ \A p \in Pages : CheckStarts(p) => Quiet
         /\ \A i \in Pages : HolderChanges(i) => Quiet
         /\ \A i \in Pages : CloseForEveryone(i) => Quiet
         /\ \A i \in Pages : Restore(i) => Quiet
         /\ \A i \in Pages : WakeTab(i) => Quiet
         /\ \A v \in Viewers, i \in Pages, b \in BOOLEAN : Attach(v, i, b) => Quiet
         /\ \A v \in Viewers : Detach(v) => Quiet
         /\ \A v \in Viewers : Visible(v) => Quiet
  <1> USE Types, TypesNow, PageFacts
  <1> USE DEF chromeVars, fileVars, linkVars, tabVars, tombVars, readVars, countVars
  <1>0. TypeOK /\ (\A i \in tombGrace : Asleep(i))
    BY DEF HubInv, Tombstones
  <1> USE <1>0
  <1>1. ASSUME NEW p \in Pages, AgentComes(p) \/ AgentLeaves(p)  PROVE Quiet
    <2>1. UNCHANGED <<tomb, tombGrace, wire, reads, at, tab, open, news, cdp, seen, byId, alias, remembered>>
      BY <1>1 DEF AgentComes, AgentLeaves
    <2> QED
      BY <2>1, TombsSame, ReadsLess, ViewersSame DEF Quiet, QuietWire, Asleep
  <1>2. ASSUME NEW i \in Pages, HolderChanges(i)  PROVE Quiet
    <2>1. UNCHANGED <<tomb, tombGrace, wire, reads, at, tab, open, news, cdp, seen, byId, alias, remembered>>
      BY <1>2 DEF HolderChanges
    <2> QED
      BY <2>1, TombsSame, ReadsLess, ViewersSame DEF Quiet, QuietWire, Asleep
  <1>3. ASSUME NEW p \in Pages, CheckStarts(p)  PROVE Quiet
    <2>1. UNCHANGED <<tomb, tombGrace, wire, at, tab, open, news, cdp, seen, byId, alias, remembered>>
      BY <1>3 DEF CheckStarts
    <2>2. reads' = reads \cup {Read("sleep", p)} /\ ~\E m \in wire : m.op = "woken" /\ m.page = p
      BY <1>3 DEF CheckStarts
    <2>3. QuietReads
      BY <2>1, <2>2, ReadsMore DEF Asleep
    <2> QED
      BY <2>1, <2>3, TombsSame, ViewersSame DEF Quiet, QuietWire, Asleep
  <1>4. ASSUME NEW i \in Pages, CloseForEveryone(i)  PROVE Quiet
    <2>1. /\ UNCHANGED <<tomb, wire, reads, at, tab, open, news, cdp, seen, byId, alias, remembered>>
          /\ tombGrace' \subseteq tombGrace
      BY <1>4 DEF CloseForEveryone
    <2> QED
      BY <2>1, TombsSame, ReadsLess, ViewersSame DEF Quiet, QuietWire, Asleep
  <1>5. ASSUME NEW i \in Pages, Restore(i)  PROVE Quiet
    <2>1. /\ UNCHANGED <<tomb, wire, reads, at, tab, open, news, cdp, seen, byId, alias, remembered>>
          /\ ReviewTombs({i}) \/ UNCHANGED tombGrace
      BY <1>5 DEF Restore
    <2>2. \A j \in tombGrace' : Asleep(j)
      BY <2>1, ReviewedAsleep DEF Asleep
    <2> QED
      BY <2>1, <2>2, TombsSame, ReadsLess, ViewersSame DEF Quiet, QuietWire, Asleep
  <1>6. ASSUME NEW i \in Pages, WakeTab(i)  PROVE Quiet
    <2>1. Asleep(i) \/ Reopens(i)
      BY <1>6 DEF WakeTab
    <2>2. /\ UNCHANGED <<reads, at, tab, open, news, cdp, seen, byId, alias, remembered>>
          /\ Rouse(i, TRUE)
      BY <1>6 DEF WakeTab
    <2>3. QuietTombs /\ QuietWire /\ (\A j \in Pages : Asleep(j) => Asleep(j)')
      BY <2>1, <2>2, RouseQuiet
    <2> QED
      BY <2>2, <2>3, ReadsLess, ViewersSame DEF Quiet
  <1>7. ASSUME NEW v \in Viewers, NEW i \in Pages, NEW b \in BOOLEAN, Attach(v, i, b)  PROVE Quiet
    <2>1. UNCHANGED <<reads, tab, open, news, cdp, seen, byId, alias, remembered>>
      BY <1>7 DEF Attach
    <2>2. CASE /\ Asleep(i) \/ Reopens(i)
               /\ at' = [at EXCEPT ![v] = [kind |-> "tomb", n |-> i, shown |-> b]]
               /\ Rouse(i, b)
      <3>1. QuietTombs /\ QuietWire /\ (\A j \in Pages : Asleep(j) => Asleep(j)') /\ Asleep(i)'
        BY <2>1, <2>2, RouseQuiet
      <3>2. QuietViewers
        BY <2>1, <2>2, <3>1 DEF QuietViewers, HubInv, Shapes, ViewersStand
      <3> QED
        BY <2>1, <3>1, <3>2, ReadsLess DEF Quiet
    <2>3. CASE /\ Awake(i)
               /\ at' = [at EXCEPT ![v] = [kind |-> "tab", n |-> Target(i), shown |-> b]]
               /\ UNCHANGED <<tombVars, wire>>
      <3>1. Target(i) \in Pages /\ tab[Target(i)].known
        BY <2>3, TargetType DEF Awake, Known
      <3>2. QuietViewers
        BY <2>1, <2>3, <3>1 DEF QuietViewers, HubInv, Shapes, ViewersStand, Asleep
      <3> QED
        BY <2>1, <2>3, <3>2, TombsSame, ReadsLess DEF Quiet, QuietWire, Asleep
    <2> QED
      BY <1>7, <2>2, <2>3 DEF Attach
  <1>8. ASSUME NEW v \in Viewers, Detach(v)  PROVE Quiet
    <2>1. /\ UNCHANGED <<tomb, wire, reads, tab, open, news, cdp, seen, byId, alias, remembered>>
          /\ at' = [at EXCEPT ![v] = Nowhere]
          /\ UNCHANGED tombGrace \/ \E I : ReviewTombs(I)
      BY <1>8 DEF Detach
    <2>2. \A j \in tombGrace' : Asleep(j)
      BY <2>1, ReviewedAsleep DEF Asleep
    <2>3. QuietViewers
      BY <2>1 DEF QuietViewers, HubInv, Shapes, ViewersStand, Asleep, Nowhere
    <2> QED
      BY <2>1, <2>2, <2>3, TombsSame, ReadsLess DEF Quiet, QuietWire, Asleep
  <1>9. ASSUME NEW v \in Viewers, Visible(v)  PROVE Quiet
    <2> DEFINE i == at[v].n
    <2>1. /\ UNCHANGED <<reads, tab, open, news, cdp, seen, byId, alias, remembered>>
          /\ at' = [at EXCEPT ![v].shown = ~@]
      BY <1>9 DEF Visible
    <2>2. QuietTombs /\ QuietWire /\ (\A j \in Pages : Asleep(j) => Asleep(j)')
      <3>1. CASE UNCHANGED <<tombVars, wire>>
        BY <3>1, TombsSame DEF QuietWire, Asleep
      <3>2. CASE /\ CanWake(i) /\ tomb' = [tomb EXCEPT ![i] = Woke(i)]
                 /\ wire' = wire \cup Wakes({i}) /\ tombGrace' = tombGrace \ {i}
                 /\ i \in Pages
        BY <2>1, <3>2, WokeQuiet
      <3>3. at[v].kind = "tomb" => i \in Pages
        BY DEF HubInv, Shapes
      <3> QED
        BY <1>9, <3>1, <3>2, <3>3 DEF Visible
    <2>3. QuietViewers
      BY <2>1, <2>2 DEF QuietViewers, HubInv, Shapes, ViewersStand, Places
    <2> QED
      BY <2>1, <2>2, <2>3, ReadsLess DEF Quiet
  <1> QED
    BY <1>1, <1>2, <1>3, <1>4, <1>5, <1>6, <1>7, <1>8, <1>9

\* What a review, a window or a change does to a tombstone, if no wake of it
\* begins or ends.
LEMMA TombsTouched ==
  ASSUME HubInv,
         \A i \in Pages : /\ tomb'[i].on <=> tomb[i].on
                          /\ tomb'[i].falling = tomb[i].falling
                          /\ tomb[i].waking => tomb'[i].waking
                          /\ tomb'[i].waking => tomb[i].waking \/ tomb[i].on,
         \A i \in tombGrace' : i \in tombGrace \/ Asleep(i)'
  PROVE  QuietTombs /\ (\A i \in Pages : Asleep(i) => Asleep(i)')
  <1>1. \A i \in Pages : Asleep(i) => Asleep(i)'
    BY DEF Asleep
  <1>2. \A i \in tombGrace' : Asleep(i)'
    BY <1>1, TypesNow DEF HubInv, Tombstones
  <1> QED
    BY <1>1, <1>2 DEF QuietTombs, HubInv, Shapes

\* Nor does what the watch reports.
LEMMA QuietFiles ==
  ASSUME HubInv, Files  PROVE Quiet
  <1> USE Types, TypesNow, PageFacts
  <1> USE DEF chromeVars, fileVars, linkVars, tabVars, tombVars, readVars, countVars
  <1>0. TypeOK /\ (\A i \in tombGrace : Asleep(i))
    BY DEF HubInv, Tombstones
  <1> USE <1>0
  <1>1. CASE WatchReports
    <2>1. /\ UNCHANGED <<wire, at, tab, open, news, cdp, seen, byId, alias, remembered, tombGrace>>
          /\ reads' = {[r EXCEPT !.stale = (r.who = "sleep") \/ @] : r \in reads}
          /\ tomb' = [i \in Pages |-> [tomb[i] EXCEPT !.touched = (tomb[i].falling # 0) \/ @]]
      BY <1>1 DEF WatchReports
    <2>2. ASSUME NEW i \in Pages
          PROVE  /\ tomb'[i].on <=> tomb[i].on
                 /\ tomb'[i].falling = tomb[i].falling
                 /\ tomb[i].waking => tomb'[i].waking
                 /\ tomb'[i].waking => tomb[i].waking \/ tomb[i].on
      <3>1. tomb[i] \in TombRecords /\ tomb'[i] = [tomb[i] EXCEPT !.touched = (tomb[i].falling # 0) \/ @]
        BY <2>1
      <3> QED
        BY <3>1 DEF TombRecords
    <2>3. QuietTombs /\ (\A i \in Pages : Asleep(i) => Asleep(i)')
      BY <2>1, <2>2, TombsTouched
    <2>4. \A r \in reads' : \E q \in reads : q.who = r.who /\ q.n = r.n
      BY <2>1 DEF Readings
    <2>5. QuietReads
      <3> SUFFICES ASSUME NEW r \in reads', NEW q \in reads, q.who = r.who, q.n = r.n
                   PROVE  /\ r.who \in {"sleep", "unused", "ended"} => r.n \in Pages
                          /\ r.who = "ended" => Asleep(r.n)'
        BY <2>4 DEF QuietReads
      <3>1. r.who \in {"sleep", "unused", "ended"} => r.n \in Pages
        BY DEF HubInv, Shapes
      <3>2. r.who = "ended" => Asleep(r.n)
        BY DEF HubInv, Tombstones
      <3> QED
        BY <2>3, <3>1, <3>2
    <2> QED
      BY <2>1, <2>3, <2>5, ViewersSame DEF Quiet, QuietWire
  <1>2. CASE RefreshStarts
    <2>1. /\ UNCHANGED <<tomb, wire, at, tab, open, news, cdp, seen, byId, alias, remembered, tombGrace>>
          /\ reads' = reads \cup {Read("refresh", 0)}
      BY <1>2 DEF RefreshStarts
    <2> QED
      BY <2>1, TombsSame, ReadsMore, ViewersSame DEF Quiet, QuietWire, Asleep
  <1>3. CASE Beat
    <2>1. UNCHANGED <<tomb, wire, at, tab, open, news, cdp, seen, byId, alias, remembered, tombGrace, reads>>
      BY <1>3 DEF Beat
    <2> QED
      BY <2>1, TombsSame, ReadsLess, ViewersSame DEF Quiet, QuietWire, Asleep
  <1> QED
    BY <1>1, <1>2, <1>3 DEF Files

\* Nor does a read that returns or fails, unless a tab falls asleep or a
\* tombstone ends with it.
LEMMA QuietReading ==
  ASSUME HubInv, NEW r \in reads
  PROVE  /\ RefreshEnds(r) => Quiet
         /\ OtherReadEnds(r) => Quiet
         /\ CloseIfUnused(r) => Quiet
         /\ ReadFails(r) => Quiet
         /\ EndSleeperIfUnused(r) /\ tomb' = tomb /\ wire' = wire /\ alias' = alias
              /\ at' = at /\ reads' = reads \ {r} /\ tombGrace' \subseteq tombGrace => Quiet
  <1> USE Types, TypesNow, PageFacts
  <1> USE DEF chromeVars, fileVars, linkVars, tabVars, tombVars, readVars, countVars
  <1>0. TypeOK /\ (\A i \in tombGrace : Asleep(i))
    BY DEF HubInv, Tombstones
  <1> USE <1>0
  <1>1. ASSUME RefreshEnds(r)  PROVE Quiet
    <2> DEFINE called == Called(r.agents)
               woken == {i \in called : CanWake(i)}
    <2>1. /\ UNCHANGED <<at, tab, open, news, cdp, seen, byId, alias, remembered>>
          /\ reads' = reads \ {r} /\ wire' = wire \cup Wakes(woken)
          /\ ReviewTombs(Pages)
      BY <1>1 DEF RefreshEnds
    <2>2. ASSUME NEW i \in Pages
          PROVE  /\ tomb'[i].on <=> tomb[i].on
                 /\ tomb'[i].falling = tomb[i].falling
                 /\ tomb[i].waking => tomb'[i].waking
                 /\ tomb'[i].waking => tomb[i].waking \/ tomb[i].on
                 /\ i \in woken => tomb'[i].waking
      <3>1. tomb[i] \in TombRecords
        OBVIOUS
      <3>2. CASE i \in woken
        <4>1. tomb'[i] = [Woke(i) EXCEPT !.window = FALSE] /\ tomb[i].on
          BY <1>1, <3>2 DEF RefreshEnds, CanWake, Asleep
        <4> QED
          BY <3>1, <4>1 DEF Woke, TombRecords
      <3>3. CASE i \notin woken
        <4>1. tomb'[i] = [tomb[i] EXCEPT !.window = @ /\ i \notin called]
          BY <1>1, <3>3 DEF RefreshEnds
        <4> QED
          BY <3>1, <3>3, <4>1 DEF TombRecords
      <3> QED
        BY <3>2, <3>3
    <2>3. \A i \in Pages : Asleep(i) => Asleep(i)'
      BY <2>2 DEF Asleep
    <2>4. \A i \in tombGrace' : Asleep(i)'
      BY <2>1, <2>3, ReviewedAsleep
    <2>5. QuietTombs
      BY <2>2, <2>4, TombsTouched
    <2>6. QuietWire
      <3>1. \A i \in woken : i \in Pages /\ cdp = "ready" /\ Asleep(i) /\ ~tomb[i].waking
        BY DEF Called, CanWake
      <3> HIDE DEF woken
      <3> QED
        BY <2>1, <2>2, <2>3, <3>1 DEF QuietWire, Wakes
    <2> QED
      BY <2>1, <2>3, <2>5, <2>6, ReadsLess, ViewersSame DEF Quiet
  <1>2. ASSUME OtherReadEnds(r)  PROVE Quiet
    <2>1. /\ UNCHANGED <<tomb, wire, at, tab, open, news, cdp, seen, byId, alias, remembered, tombGrace>>
          /\ reads' = reads \ {r}
      BY <1>2 DEF OtherReadEnds
    <2> QED
      BY <2>1, TombsSame, ReadsLess, ViewersSame DEF Quiet, QuietWire, Asleep
  <1>3. ASSUME CloseIfUnused(r)  PROVE Quiet
    <2>1. /\ UNCHANGED <<tomb, at, tab, open, news, cdp, seen, byId, alias, remembered, tombGrace>>
          /\ reads' = reads \ {r}
          /\ wire' = wire \/ (wire' = wire \cup {Command("end", r.n, 0)} /\ cdp # "none")
      BY <1>3 DEF CloseIfUnused
    <2>2. r.n \in Pages
      BY <1>3 DEF CloseIfUnused, HubInv, Shapes
    <2>3. QuietWire
      BY <2>1, <2>2 DEF QuietWire
    <2> QED
      BY <2>1, <2>3, TombsSame, ReadsLess, ViewersSame DEF Quiet, Asleep
  <1>4. ASSUME ReadFails(r)  PROVE Quiet
    <2>1. /\ UNCHANGED <<tomb, wire, at, tab, open, news, cdp, seen, byId, alias, remembered, tombGrace>>
          /\ reads' = reads \ {r}
      BY <1>4 DEF ReadFails
    <2> QED
      BY <2>1, TombsSame, ReadsLess, ViewersSame DEF Quiet, QuietWire, Asleep
  <1>5. ASSUME EndSleeperIfUnused(r), tomb' = tomb, wire' = wire, alias' = alias,
               at' = at, reads' = reads \ {r}, tombGrace' \subseteq tombGrace
        PROVE  Quiet
    <2>1. /\ UNCHANGED <<tomb, wire, at, tab, open, news, cdp, seen, byId, alias, remembered>>
          /\ reads' = reads \ {r}
      BY <1>5 DEF EndSleeperIfUnused
    <2> QED
      BY <1>5, <2>1, TombsSame, ReadsLess, ViewersSame DEF Quiet, QuietWire, Asleep
  <1> QED
    BY <1>1, <1>2, <1>3, <1>4, <1>5

\* Nor does a timer, unless a close or a fall ends with it.
LEMMA QuietTimers ==
  ASSUME HubInv
  PROVE  /\ \A p \in Pages : GraceEnds(p) => Quiet
         /\ \A i \in Pages : TombGraceEnds(i) => Quiet
         /\ \A i \in Pages : WakeGivesUp(i) => Quiet
         /\ \A i \in Pages : WakeRetry(i) => Quiet
         /\ \A i \in Pages : WindowCloses(i) => Quiet
         /\ \A m \in wire : WakeFails(m) => Quiet
  <1> USE Types, TypesNow, PageFacts
  <1> USE DEF chromeVars, fileVars, linkVars, tabVars, tombVars, readVars, countVars
  <1>0. TypeOK /\ (\A i \in tombGrace : Asleep(i))
    BY DEF HubInv, Tombstones
  <1> USE <1>0
  <1>1. ASSUME NEW p \in Pages, GraceEnds(p)  PROVE Quiet
    <2>1. /\ UNCHANGED <<tomb, wire, at, tab, open, news, cdp, seen, byId, alias, remembered, tombGrace>>
          /\ reads' = reads \cup {Read("unused", p)}
      BY <1>1 DEF GraceEnds
    <2> QED
      BY <2>1, TombsSame, ReadsMore, ViewersSame DEF Quiet, QuietWire, Asleep
  <1>2. ASSUME NEW i \in Pages, TombGraceEnds(i)  PROVE Quiet
    <2>1. /\ UNCHANGED <<tomb, wire, at, tab, open, news, cdp, seen, byId, alias, remembered, tombGrace>>
          /\ reads' = reads \cup {Read("ended", i)} /\ Asleep(i)
      BY <1>2 DEF TombGraceEnds
    <2> QED
      BY <2>1, TombsSame, ReadsMore, ViewersSame DEF Quiet, QuietWire, Asleep
  <1>3. ASSUME NEW i \in Pages, WakeGivesUp(i)  PROVE Quiet
    <2>1. /\ UNCHANGED <<wire, at, tab, open, news, cdp, seen, byId, alias, remembered, tombGrace, reads>>
          /\ tomb[i].waking /\ tomb' = [tomb EXCEPT ![i].waking = FALSE]
          /\ \A m \in wire : m.op \in WakeOps => m.id # i
          /\ \A p \in news : alias[p] # i
      BY <1>3 DEF WakeGivesUp, WakeOps, HubInv, Shapes
    <2>2. /\ tomb[i].on /\ tomb'[i].on /\ tomb'[i].falling = tomb[i].falling
          /\ \A j \in Pages : j # i => tomb'[j] = tomb[j]
      <3>1. tomb[i] \in TombRecords /\ tomb[i].on
        BY <2>1 DEF HubInv, Shapes
      <3> QED
        BY <2>1, <3>1 DEF TombRecords
    <2>3. \A j \in Pages : Asleep(j) => Asleep(j)'
      BY <2>2 DEF Asleep
    <2>4. QuietTombs
      BY <2>1, <2>2, <2>3 DEF QuietTombs, HubInv, Shapes
    <2> QED
      BY <2>1, <2>3, <2>4, ReadsLess, ViewersSame DEF Quiet, QuietWire
  <1>4. ASSUME NEW i \in Pages, WakeRetry(i)  PROVE Quiet
    <2>1. UNCHANGED <<at, tab, open, news, cdp, seen, byId, alias, remembered, reads>>
      BY <1>4 DEF WakeRetry
    <2>2. CASE CanWake(i)
      <3>1. /\ tomb' = [tomb EXCEPT ![i] = Woke(i)] /\ wire' = wire \cup Wakes({i})
            /\ tombGrace' \subseteq tombGrace
        BY <1>4, <2>2 DEF WakeRetry
      <3> QED
        BY <2>1, <2>2, <3>1, WokeQuiet, ReadsLess, ViewersSame DEF Quiet
    <2>3. CASE ~CanWake(i)
      <3>1. /\ tomb' = [tomb EXCEPT ![i] = [@ EXCEPT !.retry = FALSE]] /\ wire' = wire
            /\ tombGrace' = tombGrace
        BY <1>4, <2>3 DEF WakeRetry
      <3>2. \A j \in Pages : /\ tomb'[j].on <=> tomb[j].on
                             /\ tomb'[j].falling = tomb[j].falling
                             /\ tomb[j].waking => tomb'[j].waking
                             /\ tomb'[j].waking => tomb[j].waking
        <4>1. tomb[i] \in TombRecords
          OBVIOUS
        <4>2. tomb'[i] = [tomb[i] EXCEPT !.retry = FALSE] /\ \A j \in Pages : j # i => tomb'[j] = tomb[j]
          BY <3>1
        <4> QED
          BY <4>1, <4>2 DEF TombRecords
      <3> QED
        BY <2>1, <3>1, <3>2, TombsTouched, ReadsLess, ViewersSame DEF Quiet, QuietWire
    <2> QED
      BY <2>2, <2>3
  <1>5. ASSUME NEW i \in Pages, WindowCloses(i)  PROVE Quiet
    <2>1. /\ UNCHANGED <<wire, at, tab, open, news, cdp, seen, byId, alias, remembered, tombGrace, reads>>
          /\ tomb' = [tomb EXCEPT ![i].window = FALSE, ![i].from = 0]
      BY <1>5 DEF WindowCloses
    <2>2. \A j \in Pages : /\ tomb'[j].on <=> tomb[j].on
                           /\ tomb'[j].falling = tomb[j].falling
                           /\ tomb[j].waking => tomb'[j].waking
                           /\ tomb'[j].waking => tomb[j].waking
      <3>1. tomb[i] \in TombRecords
        OBVIOUS
      <3>2. tomb'[i] = [tomb[i] EXCEPT !.window = FALSE, !.from = 0] /\ \A j \in Pages : j # i => tomb'[j] = tomb[j]
        BY <2>1, <3>1 DEF TombRecords
      <3> QED
        BY <3>1, <3>2 DEF TombRecords
    <2> QED
      BY <2>1, <2>2, TombsTouched, ReadsLess, ViewersSame DEF Quiet, QuietWire
  <1>6. ASSUME NEW m \in wire, WakeFails(m)  PROVE Quiet
    <2> DEFINE i == m.id
               b == Waiting(i) # {}
    <2>1. /\ UNCHANGED <<at, tab, open, news, cdp, seen, byId, alias, remembered, reads>>
          /\ m.op = "wake" /\ m.mine /\ i \in Pages /\ wire' = wire \ {m}
          /\ tomb' = [tomb EXCEPT ![i].waking = FALSE, ![i].retry = b]
          /\ ReviewTombs({i})
      BY <1>6 DEF WakeFails, HubInv, Shapes, WakeOps
    <2>2. Asleep(i) /\ tomb[i].on /\ cdp = "ready"
      BY <2>1 DEF HubInv, Waking, Connection, WakeOps, Asleep
    <2>3. /\ \A n \in wire' : n.op \in WakeOps => n.id # i
          /\ \A p \in news : alias[p] # p => alias[p] # i
      BY <2>1, <2>2 DEF HubInv, Waking, WakeOps
    <2> HIDE DEF i, b
    <2>4. /\ tomb'[i].on /\ tomb'[i].falling = tomb[i].falling
          /\ \A j \in Pages : j # i => tomb'[j] = tomb[j]
      <3>1. tomb[i] \in TombRecords
        BY <2>1
      <3> QED
        BY <2>1, <2>2, <3>1 DEF TombRecords
    <2>5. \A j \in Pages : Asleep(j) => Asleep(j)'
      BY <2>2, <2>4 DEF Asleep
    <2>6. \A j \in tombGrace' : Asleep(j)'
      BY <2>1, <2>5, ReviewedAsleep
    <2>7. QuietTombs
      BY <2>2, <2>3, <2>4, <2>6 DEF QuietTombs, HubInv, Shapes
    <2>8. QuietWire
      BY <2>1 DEF QuietWire
    <2> QED
      BY <2>1, <2>5, <2>7, <2>8, ReadsLess, ViewersSame DEF Quiet
  <1> QED
    BY <1>1, <1>2, <1>3, <1>4, <1>5, <1>6

\* Pages that leave and aliases that go keep the identities.
LEMMA IdentityLess ==
  ASSUME HubInv, TypeOK', Live' \subseteq Live, Known' \subseteq Known,
         \A p \in Pages : p \in Known' => tab'[p].id = tab[p].id,
         \A p \in Pages : alias'[p] = alias[p] \/ (alias'[p] = p /\ p \notin Known'),
         \A i \in Pages : byId'[i] = IF byId[i] \in Known \ Known' THEN 0 ELSE byId[i]
  PROVE  Identity'
  <1> USE TypesNow, Types, PageFacts DEF HubInv
  <1>0. Known' \subseteq Live' /\ Live \subseteq Pages
    BY DEF Live, Known
  <1>1. OneIdOnePage'
    <2> SUFFICES ASSUME NEW p \in Known'  PROVE byId'[tab'[p].id] = p
      BY DEF OneIdOnePage
    <2>1. /\ p \in Pages /\ p \in Known /\ byId[tab[p].id] = p /\ tab[p].id \in Pages
          /\ tab'[p].id = tab[p].id /\ p \notin Known \ Known'
      BY DEF Identity, OneIdOnePage, Shapes, Known
    <2> DEFINE i == tab[p].id
    <2>2. byId'[i] = IF byId[i] \in Known \ Known' THEN 0 ELSE byId[i]
      BY <2>1
    <2> QED
      BY <2>1, <2>2
  <1>2. ASSUME NEW i \in Pages, byId'[i] # 0
        PROVE  tab'[byId'[i]].known /\ tab'[byId'[i]].id = i
    <2>1. byId'[i] = byId[i] /\ byId[i] \notin Known \ Known' /\ byId[i] \in Pages
      BY <1>2
    <2>2. byId[i] \in Known /\ tab[byId[i]].id = i
      BY <2>1, <1>2 DEF Identity, Known
    <2> QED
      BY <2>1, <2>2 DEF Known
  <1>3. ASSUME NEW p \in Known'  PROVE alias'[p] = tab'[p].id
    <2>1. p \in Pages /\ p \in Known /\ alias'[p] = alias[p]
      BY <1>0
    <2> QED
      BY <2>1 DEF Identity
  <1>4. ASSUME NEW p \in Live', NEW q \in Live', alias'[p] = alias'[q]  PROVE p = q
    BY <1>0, <1>4 DEF Identity
  <1>5. ASSUME NEW p \in Live', alias'[p] # p  PROVE alias'[p] \notin Live'
    BY <1>0, <1>5 DEF Identity
  <1> QED
    BY <1>1, <1>2, <1>3, <1>4, <1>5 DEF Identity

\* A page leaves Chrome, and with it commands about it.
LEMMA LeavesKeeps ==
  ASSUME HubInv, TypeOK', open' \subseteq open, wire' \subseteq wire,
         UNCHANGED <<news, linkVars, tab, byId, alias, tombVars, at, reads, remembered>>
  PROVE  HubInv'
  <1> TypeOK
    BY DEF HubInv
  <1> USE Types, TypesNow, PageFacts DEF linkVars, tombVars
  <1>0. /\ Live' \subseteq Live /\ Known' = Known /\ (\A i \in Pages : Awake(i)' <=> Awake(i))
        /\ \A i \in Pages : Asleep(i)' <=> Asleep(i)
    BY DEF Live, Known, Awake, Target, Asleep
  <1>1. Shapes'
    BY DEF HubInv, Shapes
  <1>2. Connection'
    BY <1>0 DEF HubInv, Connection
  <1>3. Identity'
    BY <1>0, IdentityLess
  <1>4. Tombstones'
    <2>1. \A i \in Pages : tomb'[i].falling # 0 => FallOf(i, tomb[i].falling)'
      BY <1>0 DEF HubInv, Tombstones, FallOf
    <2> QED
      BY <1>0, <2>1 DEF HubInv, Tombstones, Asleep
  <1>5. Waking'
    BY <1>0 DEF HubInv, Waking, Asleep
  <1>6. ViewersStand'
    BY DEF HubInv, ViewersStand, Asleep
  <1> QED
    BY <1>1, <1>2, <1>3, <1>4, <1>5, <1>6 DEF HubInv

LEMMA PageEndsKeeps ==
  ASSUME HubInv, TypeOK', NEW p \in Pages, PageEnds(p)  PROVE HubInv'
  BY LeavesKeeps DEF PageEnds, linkVars, tabVars, tombVars, readVars

LEMMA PageClosesKeeps ==
  ASSUME HubInv, TypeOK', NEW m \in wire, PageCloses(m)  PROVE HubInv'
  BY LeavesKeeps DEF PageCloses, linkVars, tabVars, tombVars, readVars

LEMMA LateCloseKeeps ==
  ASSUME HubInv, TypeOK', NEW l, LateClose(l)  PROVE HubInv'
  BY LeavesKeeps DEF LateClose, linkVars, tabVars, tombVars, readVars

\* Every page is still to be reported: the falls keep their names.
LEMMA ConnectKeeps ==
  ASSUME HubInv, TypeOK', Connect  PROVE HubInv'
  <1> TypeOK
    BY DEF HubInv
  <1> USE Types, TypesNow, PageFacts DEF linkVars, tombVars, tabVars, readVars
  <1>0. /\ UNCHANGED <<open, wire, seen, tab, byId, alias, tomb, tombGrace, at, reads, remembered>>
        /\ cdp = "none" /\ cdp' = "reporting" /\ news' = open
        /\ news = {} /\ wire = {} /\ seen = {}
    BY DEF Connect, HubInv, Connection
  <1>1. /\ Live' = Live /\ Known' = Known /\ (\A i \in Pages : Awake(i)' <=> Awake(i))
        /\ \A i \in Pages : Asleep(i)' <=> Asleep(i)
    BY <1>0 DEF Live, Known, Awake, Target, Asleep
  <1>2. Shapes'
    BY <1>0 DEF HubInv, Shapes
  <1>3. Connection'
    BY <1>0, <1>1 DEF HubInv, Connection
  <1>4. Identity'
    BY <1>0, <1>1, IdentityLess
  <1>5. Tombstones'
    <2>1. \A i \in Pages : tomb'[i].falling # 0 => FallOf(i, tomb[i].falling)'
      BY <1>0, <1>1 DEF HubInv, Tombstones, FallOf
    <2> QED
      BY <1>0, <1>1, <2>1 DEF HubInv, Tombstones, Asleep
  <1>6. Waking'
    BY <1>0 DEF Waking
  <1>7. ViewersStand'
    BY <1>0 DEF HubInv, ViewersStand, Asleep
  <1> QED
    BY <1>2, <1>3, <1>4, <1>5, <1>6, <1>7 DEF HubInv

-----------------------------------------------------------------------------
(* Tombstones that end.                                                      *)

\* A tombstone ends that no command is about.
LEMMA EndTombsKeeps ==
  ASSUME HubInv, TypeOK', NEW i \in Pages, Asleep(i), \A m \in wire : m.id # i,
         NEW R, R \subseteq reads, EndTombs({i}, R, wire),
         UNCHANGED <<open, news, linkVars, tab, byId, remembered>>
  PROVE  HubInv'
  <1> TypeOK
    BY DEF HubInv
  <1> USE Types, TypesNow, PageFacts DEF linkVars
  <1>0. /\ wire' = wire /\ tombGrace' = tombGrace \ {i} /\ reads' = Orphaned({i}, R)
        /\ tomb' = [j \in Pages |-> IF j \in {i} THEN NoTomb ELSE tomb[j]]
        /\ alias' = [p \in Pages |-> IF alias[p] \in {i} /\ p \notin Known THEN p ELSE alias[p]]
        /\ at' = [v \in Viewers |-> IF at[v].kind = "tomb" /\ at[v].n \in {i} THEN Nowhere ELSE at[v]]
    BY DisownedNone DEF EndTombs
  <1>1. /\ \A j \in Pages : j # i => tomb'[j] = tomb[j]
        /\ ~tomb'[i].on /\ tomb'[i].falling = 0 /\ ~tomb'[i].waking
    <2>1. tomb'[i] = NoTomb /\ \A j \in Pages : j # i => tomb'[j] = tomb[j]
      BY <1>0
    <2> QED
      BY <2>1 DEF NoTomb
  <1>2. /\ Live' = Live /\ Known' = Known /\ (\A j \in Pages : Awake(j)' <=> Awake(j))
        /\ \A j \in Pages : Asleep(j)' <=> Asleep(j) /\ j # i
    BY <1>1 DEF Live, Known, Awake, Target, Asleep
  <1>3. \A r \in reads' : \/ r \in reads /\ ~(r.who = "ended" /\ r.n = i)
                          \/ r.who = "other"
    BY <1>0, OrphanedReads
  <1>4. tomb[i].on /\ tomb[i].falling = 0 /\ i \notin Live
    BY DEF Asleep, HubInv, Tombstones
  <1>5. Shapes'
    BY <1>0, <1>1, <1>3 DEF HubInv, Shapes, Nowhere
  <1>6. Connection'
    BY <1>0, <1>2 DEF HubInv, Connection
  <1>7. Identity'
    BY <1>0, <1>2, IdentityLess
  <1>8. Tombstones'
    <2>1. \A j \in Live' : tomb'[j].on => tomb'[j].falling = j
      BY <1>1, <1>2, <1>4 DEF HubInv, Tombstones, Live, Known
    <2>2. ASSUME NEW j \in Pages, tomb'[j].falling # 0  PROVE FallOf(j, tomb[j].falling)'
      <3> DEFINE q == tomb[j].falling
      <3>0. j # i /\ tomb'[j] = tomb[j] /\ q # 0
        BY <1>1, <2>2
      <3>1. q \in Pages /\ FallOf(j, q) /\ tomb[j].on
        BY <3>0 DEF HubInv, Tombstones, Shapes, TombRecords
      <3>2. alias'[q] = j
        BY <1>0, <3>0, <3>1 DEF FallOf
      <3>3. ASSUME NEW x \in Live, alias'[x] = j  PROVE x = q
        <4>1. CASE alias'[x] = alias[x]
          BY <3>1, <3>3, <4>1 DEF FallOf
        <4>2. CASE x = j
          BY <3>1, <4>2 DEF HubInv, Tombstones
        <4> QED
          BY <1>0, <3>3, <4>1, <4>2 DEF Live, Known
      <3> QED
        BY <1>2, <3>0, <3>1, <3>2, <3>3 DEF FallOf
    <2>3. \A j \in Pages : Asleep(j)' => ~Awake(j)'
      BY <1>2 DEF HubInv, Tombstones
    <2>4. \A j \in tombGrace' : Asleep(j)'
      BY <1>0, <1>2 DEF HubInv, Tombstones
    <2>5. \A r \in reads' : r.who = "ended" => Asleep(r.n)'
      BY <1>2, <1>3 DEF HubInv, Tombstones, Shapes
    <2> QED
      BY <1>1, <2>1, <2>2, <2>3, <2>4, <2>5 DEF Tombstones
  <1>9. Waking'
    <2>1. \A m \in wire' : m.op \in WakeOps => Asleep(m.id)' /\ tomb'[m.id].waking
      BY <1>0, <1>1, <1>2 DEF HubInv, Waking, Shapes
    <2>2. cdp' \in {"settling", "ready"} => \A p \in news' : alias'[p] # p =>
              /\ Asleep(alias[p])' /\ tomb'[alias'[p]].waking
              /\ \A m \in wire' : m.op \in WakeOps => m.id # alias'[p]
      <3> SUFFICES ASSUME cdp' \in {"settling", "ready"}, NEW p \in news', alias'[p] # p
                   PROVE  /\ Asleep(alias[p])' /\ tomb'[alias'[p]].waking
                          /\ \A m \in wire' : m.op \in WakeOps => m.id # alias'[p]
        OBVIOUS
      <3>1. p \in news /\ p \in Pages /\ alias'[p] = alias[p] /\ cdp \in {"settling", "ready"}
        BY <1>0
      <3>2. p \notin Known
        BY <3>1 DEF HubInv, Connection
      <3>3. alias[p] # i
        BY <1>0, <3>1, <3>2
      <3> QED
        BY <1>0, <1>1, <1>2, <3>1, <3>3 DEF HubInv, Waking
    <2>3. \A m \in wire' : m.op = "woken" =>
            /\ \A r \in reads' : r.who = "sleep" => r.n # m.page
            /\ \A j \in Pages : tomb'[j].falling # m.page
      <3> SUFFICES ASSUME NEW m \in wire, m.op = "woken"
                   PROVE  /\ \A r \in reads' : r.who = "sleep" => r.n # m.page
                          /\ \A j \in Pages : tomb'[j].falling # m.page
        BY <1>0
      <3>1. m.page \in Pages
        BY DEF HubInv, Shapes
      <3>2. \A r \in reads' : r.who = "sleep" => r.n # m.page
        BY <1>3 DEF HubInv, Waking
      <3>3. \A j \in Pages : tomb'[j].falling # m.page
        BY <1>1, <3>1 DEF HubInv, Waking
      <3> QED
        BY <3>2, <3>3
    <2> QED
      BY <1>0, <2>1, <2>2, <2>3 DEF HubInv, Waking
  <1>10. ViewersStand'
    BY <1>0, <1>2 DEF HubInv, ViewersStand, Shapes, Nowhere
  <1> QED
    BY <1>5, <1>6, <1>7, <1>8, <1>9, <1>10 DEF HubInv

\* endSleeperIfUnused: its tombstone is the one that counted down.
LEMMA EndSleeperKeeps ==
  ASSUME HubInv, TypeOK', NEW r \in reads, EndSleeperIfUnused(r)  PROVE HubInv'
  <1>0. r.n \in Pages /\ Asleep(r.n)
    BY DEF EndSleeperIfUnused, HubInv, Shapes, Tombstones
  <1>1. CASE UNCHANGED <<wire, tomb, alias, closing, at>> /\ reads' = reads \ {r}
             /\ tombGrace' = tombGrace \ {r.n}
    BY <1>1, QuietReading, QuietKeeps
  <1>2. CASE ~tomb[r.n].waking /\ EndTombs({r.n}, reads \ {r}, wire)
    <2>1. \A m \in wire : m.id # r.n
      BY <1>0, <1>2, PageFacts DEF HubInv, Waking, Shapes
    <2> QED
      BY <1>0, <1>2, <2>1, EndTombsKeeps DEF EndSleeperIfUnused, linkVars
  <1> QED
    BY <1>1, <1>2 DEF EndSleeperIfUnused

\* The close for everyone finds no page of the tab on its way: here Chrome
\* has to be in time.
LEMMA FinishCloseKeeps ==
  ASSUME HubInv, TypeOK', ~SlowChrome, NEW i \in Pages, FinishClose(i)  PROVE HubInv'
  <1> TypeOK
    BY DEF HubInv
  <1> USE Types, TypesNow, PageFacts DEF linkVars
  <1>0. /\ UNCHANGED <<open, news, linkVars, tab, byId, remembered>>
        /\ ~Opening(i)
    BY DEF FinishClose
  <1>1. CASE Asleep(i)
    BY <1>0, <1>1, EndTombsKeeps DEF FinishClose, Opening
  <1>2. CASE ~Asleep(i) /\ cdp # "ready"
    <2>1. UNCHANGED <<alias, at, reads, tombGrace, tomb, wire>>
      BY <1>2 DEF FinishClose
    <2>2. Quiet
      BY <1>0, <2>1, TombsSame, ReadsLess, ViewersSame
      DEF Quiet, QuietWire, Asleep, HubInv, Tombstones
    <2> QED
      BY <2>2, QuietKeeps
  <1>3. CASE ~Asleep(i) /\ cdp = "ready"
    <2>0. /\ UNCHANGED <<alias, at, reads, tombGrace>>
          /\ tomb' = [tomb EXCEPT ![i] = NoTomb]
          /\ wire' = IF Awake(i) THEN wire \cup {Command("end", Target(i), 0)} ELSE wire
      BY <1>3 DEF FinishClose
    <2>1. /\ \A j \in Pages : j # i => tomb'[j] = tomb[j]
          /\ ~tomb'[i].on /\ tomb'[i].falling = 0 /\ ~tomb'[i].waking
      <3>1. tomb'[i] = NoTomb /\ \A j \in Pages : j # i => tomb'[j] = tomb[j]
        BY <2>0
      <3> QED
        BY <3>1 DEF NoTomb
    <2>2. /\ Live' = Live /\ Known' = Known /\ (\A j \in Pages : Awake(j)' <=> Awake(j))
          /\ \A j \in Pages : Asleep(j)' <=> Asleep(j)
      BY <1>0, <1>3, <2>0, <2>1 DEF Live, Known, Awake, Target, Asleep
    <2>3. /\ wire \subseteq wire' /\ Target(i) \in Pages
          /\ \A m \in wire' : m \in wire \/ m = Command("end", Target(i), 0)
          /\ \A m \in wire' : m.op # "end" => m \in wire
      BY <2>0, TargetType DEF HubInv, Command
    <2>4. Shapes'
      BY <1>0, <2>0, <2>1, <2>3 DEF HubInv, Shapes, Command, WakeOps
    <2>5. Connection'
      BY <1>0, <1>3, <2>2, <2>3 DEF HubInv, Connection
    <2>6. Identity'
      BY <1>0, <2>0, <2>2, IdentityLess
    <2>7. Tombstones'
      <3>1. \A j \in Pages : tomb'[j].falling # 0 => FallOf(j, tomb[j].falling)'
        BY <1>0, <2>0, <2>1, <2>2 DEF HubInv, Tombstones, FallOf
      <3>2. \A j \in Live' : tomb'[j].on => tomb'[j].falling = j
        <4> SUFFICES ASSUME NEW j \in Live', tomb'[j].on  PROVE tomb'[j].falling = j
          OBVIOUS
        <4>1. j \in Pages /\ j \in Live /\ j # i
          BY <2>1, <2>2 DEF Live, Known
        <4> QED
          BY <2>1, <4>1 DEF HubInv, Tombstones
      <3> QED
        BY <1>0, <2>0, <2>2, <3>1, <3>2 DEF HubInv, Tombstones, Shapes
    <2>8. Waking'
      <3>1. \A m \in wire' : m.op \in WakeOps \cup {"close"} => m \in wire
        BY <2>3 DEF WakeOps
      <3>2. \A m \in wire' : m.op \in WakeOps => Asleep(m.id)' /\ tomb'[m.id].waking
        <4> SUFFICES ASSUME NEW m \in wire', m.op \in WakeOps
                     PROVE  Asleep(m.id)' /\ tomb'[m.id].waking
          OBVIOUS
        <4>1. m.id \in Pages /\ Asleep(m.id) /\ tomb[m.id].waking
          BY <3>1 DEF HubInv, Waking, Shapes
        <4> QED
          BY <1>3, <2>1, <2>2, <4>1
      <3>3. cdp' \in {"settling", "ready"} => \A p \in news' : alias'[p] # p =>
              /\ Asleep(alias[p])' /\ tomb'[alias'[p]].waking
              /\ \A m \in wire' : m.op \in WakeOps => m.id # alias'[p]
        <4> SUFFICES ASSUME cdp' \in {"settling", "ready"}, NEW p \in news', alias'[p] # p
                     PROVE  /\ Asleep(alias[p])' /\ tomb'[alias'[p]].waking
                            /\ \A m \in wire' : m.op \in WakeOps => m.id # alias'[p]
          OBVIOUS
        <4>1. /\ p \in Pages /\ alias[p] \in Pages /\ Asleep(alias[p]) /\ tomb[alias[p]].waking
              /\ \A m \in wire : m.op \in WakeOps => m.id # alias[p]
          BY <1>0, <1>3, <2>0 DEF HubInv, Waking
        <4> QED
          BY <1>3, <2>0, <2>1, <2>2, <3>1, <4>1
      <3>4. \A m \in wire' : m.op = "woken" =>
            /\ \A r \in reads' : r.who = "sleep" => r.n # m.page
            /\ \A j \in Pages : tomb'[j].falling # m.page
        BY <2>0, <2>1, <3>1 DEF HubInv, Waking, Shapes, WakeOps
      <3> QED
        BY <1>0, <3>1, <3>2, <3>3, <3>4 DEF HubInv, Waking
    <2>9. ViewersStand'
      BY <1>0, <2>0, <2>2 DEF HubInv, ViewersStand, Shapes
    <2> QED
      BY <2>4, <2>5, <2>6, <2>7, <2>8, <2>9 DEF HubInv
  <1> QED
    BY <1>1, <1>2, <1>3

-----------------------------------------------------------------------------
(* Falling asleep.                                                           *)

\* closeToSleep: the tombstone is there when the page is asked to close.
LEMMA CheckEndsKeeps ==
  ASSUME HubInv, TypeOK', NEW r \in reads, CheckEnds(r)  PROVE HubInv'
  <1> DEFINE p == r.n
             i == tab[p].id
  <1> TypeOK
    BY DEF HubInv
  <1> USE Types, TypesNow, PageFacts DEF linkVars
  <1>0. /\ UNCHANGED <<open, news, linkVars, byId, alias, tombGrace, at, remembered>>
        /\ reads' = reads \ {r} /\ r.who = "sleep" /\ p \in Pages
    BY DEF CheckEnds, HubInv, Shapes
  <1>1. CASE UNCHANGED <<tab, tomb, wire, grace>>
    <2>1. Quiet
      BY <1>0, <1>1, TombsSame, ReadsLess, ViewersSame
      DEF Quiet, QuietWire, Asleep, HubInv, Tombstones
    <2> QED
      BY <2>1, QuietKeeps
  <1>2. CASE /\ Sleepable(p)
             /\ tab' = [tab EXCEPT ![p].fall = TRUE]
             /\ tomb' = [tomb EXCEPT ![i] = Tombstone(p)]
             /\ wire' = wire \cup {Command("close", p, 0)}
    <2>0. /\ tab[p].known /\ p \in Known /\ i \in Pages /\ ~tomb[i].on
          /\ alias[p] = i /\ p \in Live
          /\ cdp \in {"settling", "ready"} \/ (cdp = "reporting" /\ p \in seen)
          /\ p \notin news
      <3>1. tab[p].known /\ p \in Known /\ ~tomb[i].on /\ Attached(p)
        BY <1>0, <1>2 DEF Sleepable, Known
      <3>2. i \in Pages /\ alias[p] = i /\ p \in Live
        BY <1>0, <3>1 DEF HubInv, Shapes, Identity, Known, Live
      <3>3. cdp \in {"settling", "ready"} \/ (cdp = "reporting" /\ p \in seen)
        BY <3>1 DEF Attached, HubInv, Connection
      <3>4. p \notin news
        BY <3>1, <3>3 DEF HubInv, Connection
      <3> QED
        BY <3>1, <3>2, <3>3, <3>4
    <2>1. /\ \A j \in Pages : j # i => tomb'[j] = tomb[j]
          /\ tomb'[i].on /\ tomb'[i].falling = p /\ ~tomb'[i].waking
      <3>1. tomb'[i] = Tombstone(p) /\ \A j \in Pages : j # i => tomb'[j] = tomb[j]
        BY <1>2, <2>0
      <3> QED
        BY <3>1 DEF Tombstone, NoTomb
    <2>2. \A q \in Pages : (tab'[q].known <=> tab[q].known) /\ tab'[q].id = tab[q].id
      <3>1. tab'[p] = [tab[p] EXCEPT !.fall = TRUE] /\ \A q \in Pages : q # p => tab'[q] = tab[q]
        BY <1>0, <1>2 DEF TabRecords
      <3> QED
        BY <1>0, <3>1 DEF TabRecords
    <2>3. /\ Live' = Live /\ Known' = Known /\ (\A j \in Pages : Awake(j)' <=> Awake(j))
          /\ \A j \in Pages : Asleep(j)' <=> Asleep(j)
      BY <1>0, <2>0, <2>1, <2>2 DEF Live, Known, Awake, Target, Asleep
    <2> HIDE DEF p, i
    <2>4. \A m \in wire' : m \in wire \/ (m = Command("close", p, 0))
      BY <1>2
    <2>5. \A m \in wire' : m.op # "close" => m \in wire
      BY <2>4 DEF Command
    <2>6. Shapes'
      BY <1>0, <2>0, <2>1, <2>2, <2>4 DEF HubInv, Shapes, Command, WakeOps
    <2>7. Connection'
      <3>1. Command("close", p, 0).op = "close" /\ Command("close", p, 0).page = p
        BY DEF Command
      <3> QED
        BY <1>0, <2>0, <2>3, <2>4, <3>1 DEF HubInv, Connection, WakeOps
    <2>8. Identity'
      BY <1>0, <2>2, <2>3, IdentityLess
    <2>9. Tombstones'
      <3>1. \A j \in Live' : tomb'[j].on => tomb'[j].falling = j
        <4> SUFFICES ASSUME NEW j \in Live', tomb'[j].on  PROVE tomb'[j].falling = j
          OBVIOUS
        <4>1. j \in Pages /\ j \in Live
          BY <2>3 DEF Live, Known
        <4>2. CASE j = i
          BY <1>0, <2>0, <2>1, <4>1, <4>2 DEF HubInv, Identity
        <4>3. CASE j # i
          BY <2>1, <4>1, <4>3 DEF HubInv, Tombstones
        <4> QED
          BY <4>2, <4>3
      <3>2. \A j \in Pages : tomb'[j].falling # 0 => FallOf(j, tomb[j].falling)'
        <4> SUFFICES ASSUME NEW j \in Pages, tomb'[j].falling # 0
                     PROVE  FallOf(j, tomb[j].falling)'
          OBVIOUS
        <4>1. CASE j = i
          <5>1. \A q \in Live : alias[q] = i => q = p
            BY <2>0 DEF HubInv, Identity
          <5> QED
            BY <1>0, <2>0, <2>1, <2>2, <2>3, <4>1, <5>1 DEF FallOf
        <4>2. CASE j # i
          <5>1. tomb'[j] = tomb[j] /\ FallOf(j, tomb[j].falling) /\ tomb[j].falling \in Pages
            BY <2>1, <4>2 DEF HubInv, Tombstones, TombRecords
          <5> QED
            BY <1>0, <2>2, <2>3, <5>1 DEF FallOf
        <4> QED
          BY <4>1, <4>2
      <3> QED
        BY <1>0, <2>3, <3>1, <3>2 DEF HubInv, Tombstones, Shapes
    <2>10. Waking'
      <3>1. ASSUME NEW m \in wire', m.op \in WakeOps
            PROVE  Asleep(m.id)' /\ tomb'[m.id].waking
        <4>1. m \in wire /\ m.id \in Pages /\ Asleep(m.id) /\ tomb[m.id].waking
          BY <2>5, <3>1 DEF HubInv, Waking, Shapes, WakeOps
        <4> QED
          BY <2>0, <2>1, <2>3, <4>1 DEF Asleep
      <3>2. ASSUME cdp' \in {"settling", "ready"}, NEW q \in news', alias'[q] # q
            PROVE  /\ Asleep(alias[q])' /\ tomb'[alias'[q]].waking
                   /\ \A m \in wire' : m.op \in WakeOps => m.id # alias'[q]
        <4>1. /\ q \in Pages /\ alias[q] \in Pages /\ Asleep(alias[q]) /\ tomb[alias[q]].waking
              /\ \A m \in wire : m.op \in WakeOps => m.id # alias[q]
          BY <1>0, <2>0, <3>2 DEF HubInv, Waking
        <4> QED
          BY <1>0, <2>0, <2>1, <2>3, <2>5, <4>1 DEF WakeOps, Asleep
      <3>3. ASSUME NEW m \in wire', m.op = "woken"
            PROVE  /\ \A q \in reads' : q.who = "sleep" => q.n # m.page
                   /\ \A j \in Pages : tomb'[j].falling # m.page
        <4>1. m \in wire /\ m.page # p
          BY <1>0, <2>5, <3>3 DEF HubInv, Waking, p
        <4> QED
          BY <1>0, <2>1, <3>3, <4>1 DEF HubInv, Waking
      <3>4. ASSUME NEW m \in wire', m.op = "close"  PROVE m.page \notin news'
        BY <1>0, <2>0, <2>4, <3>4 DEF HubInv, Waking, Connection, Command
      <3>5. ASSUME NEW m \in wire', NEW n \in wire', m.op \in WakeOps, n.op \in WakeOps,
                   m.id = n.id
            PROVE  m = n
        BY <2>5, <3>5 DEF HubInv, Waking, WakeOps
      <3> QED
        BY <3>1, <3>2, <3>3, <3>4, <3>5 DEF Waking
    <2>11. ViewersStand'
      BY <1>0, <2>2, <2>3 DEF HubInv, ViewersStand, Shapes
    <2> QED
      BY <2>6, <2>7, <2>8, <2>9, <2>10, <2>11 DEF HubInv
  <1> QED
    BY <1>1, <1>2 DEF CheckEnds

\* The page objected or hung: the tab stays, the tombstone goes.
LEMMA FellKeeps ==
  ASSUME HubInv, TypeOK', NEW m \in wire, m.op = "close", Fell(m.page, wire \ {m})
  PROVE  HubInv'
  <1> DEFINE p == m.page
             i == tab[p].id
  <1> TypeOK
    BY DEF HubInv
  <1> USE Types, TypesNow, PageFacts DEF linkVars, readVars
  <1>0. /\ UNCHANGED <<open, news, linkVars, byId, alias, tombGrace, at, reads, remembered>>
        /\ wire' = wire \ {m} /\ p \in Pages
    BY DEF Fell, HubInv, Shapes
  <1>1. \A q \in Pages : (tab'[q].known <=> tab[q].known) /\ tab'[q].id = tab[q].id
    <2>1. tab'[p] = [tab[p] EXCEPT !.fall = FALSE] /\ \A q \in Pages : q # p => tab'[q] = tab[q]
      BY <1>0 DEF Fell, TabRecords
    <2> QED
      BY <1>0, <2>1 DEF TabRecords
  <1>2. \A j \in Pages : \/ tomb'[j] = tomb[j]
                         \/ /\ j = i /\ tomb[j].falling = p
                            /\ ~tomb'[j].on /\ tomb'[j].falling = 0 /\ ~tomb'[j].waking
    <2>1. tomb' = tomb \/ (tomb[i].falling = p /\ tomb' = [tomb EXCEPT ![i] = NoTomb])
      BY DEF Fell
    <2>2. ~NoTomb.on /\ NoTomb.falling = 0 /\ ~NoTomb.waking
      BY DEF NoTomb
    <2> QED
      BY <2>1, <2>2
  <1>3. /\ Live' = Live /\ Known' = Known /\ (\A j \in Pages : Awake(j)' <=> Awake(j))
        /\ \A j \in Pages : Asleep(j)' <=> Asleep(j)
    BY <1>0, <1>1, <1>2 DEF Live, Known, Awake, Target, Asleep
  <1> HIDE DEF p, i
  <1>4. Shapes'
    BY <1>0, <1>1, <1>2 DEF HubInv, Shapes
  <1>5. Connection'
    BY <1>0, <1>3 DEF HubInv, Connection
  <1>6. Identity'
    BY <1>0, <1>1, <1>3, IdentityLess
  <1>7. Tombstones'
    <2>1. \A j \in Live' : tomb'[j].on => tomb'[j].falling = j
      BY <1>2, <1>3 DEF HubInv, Tombstones, Live, Known
    <2>2. \A j \in Pages : tomb'[j].falling # 0 => FallOf(j, tomb[j].falling)'
      <3> SUFFICES ASSUME NEW j \in Pages, tomb'[j].falling # 0
                   PROVE  FallOf(j, tomb[j].falling)'
        OBVIOUS
      <3>1. tomb'[j] = tomb[j] /\ FallOf(j, tomb[j].falling) /\ tomb[j].falling \in Pages
        BY <1>2 DEF HubInv, Tombstones, TombRecords
      <3> QED
        BY <1>0, <1>1, <1>3, <3>1 DEF FallOf
    <2> QED
      BY <1>0, <1>3, <2>1, <2>2 DEF HubInv, Tombstones, Shapes
  <1>8. Waking'
    <2>1. ASSUME NEW n \in wire', n.op \in WakeOps
          PROVE  Asleep(n.id)' /\ tomb'[n.id].waking
      <3>1. n \in wire /\ n.id \in Pages /\ Asleep(n.id) /\ tomb[n.id].waking
        BY <1>0, <2>1 DEF HubInv, Waking, Shapes
      <3> QED
        BY <1>0, <1>2, <1>3, <3>1 DEF Asleep
    <2>2. ASSUME cdp' \in {"settling", "ready"}, NEW q \in news', alias'[q] # q
          PROVE  /\ Asleep(alias[q])' /\ tomb'[alias'[q]].waking
                 /\ \A n \in wire' : n.op \in WakeOps => n.id # alias'[q]
      <3>1. /\ q \in Pages /\ alias[q] \in Pages /\ Asleep(alias[q]) /\ tomb[alias[q]].waking
            /\ \A n \in wire : n.op \in WakeOps => n.id # alias[q]
        BY <1>0, <2>2 DEF HubInv, Waking
      <3> QED
        BY <1>0, <1>2, <1>3, <3>1 DEF Asleep
    <2>3. ASSUME NEW n \in wire', n.op = "woken"
          PROVE  /\ \A r \in reads' : r.who = "sleep" => r.n # n.page
                 /\ \A j \in Pages : tomb'[j].falling # n.page
      <3>1. n.page \in Pages
        BY <1>0, <2>3 DEF HubInv, Shapes
      <3> QED
        BY <1>0, <1>2, <2>3, <3>1 DEF HubInv, Waking
    <2> QED
      BY <1>0, <2>1, <2>2, <2>3 DEF HubInv, Waking
  <1>9. ViewersStand'
    BY <1>0, <1>1, <1>3 DEF HubInv, ViewersStand, Shapes
  <1> QED
    BY <1>4, <1>5, <1>6, <1>7, <1>8, <1>9 DEF HubInv

-----------------------------------------------------------------------------
(* Waking.                                                                   *)

\* The page of a wake takes a number nothing names.
LEMMA PageWakesKeeps ==
  ASSUME HubInv, TypeOK', NEW m \in wire, NEW p \in Fresh, PageWakes(m, p)
  PROVE  HubInv'
  <1> DEFINE w == [m EXCEPT !.op = "woken", !.page = p]
  <1> TypeOK
    BY DEF HubInv
  <1> USE Types, TypesNow, PageFacts DEF linkVars, readVars, tabVars, tombVars
  <1>0. /\ UNCHANGED <<linkVars, tab, byId, alias, tomb, tombGrace, at, reads>>
        /\ m.op = "wake" /\ wire' = (wire \ {m}) \cup {w}
        /\ open' = open \cup {p} /\ news' = news \cup {p} /\ remembered' = remembered \ {p}
        /\ m.id \in Pages /\ cdp = "ready" /\ m.mine
    BY DEF PageWakes, HubInv, Shapes, Connection, WakeOps
  <1>1. /\ p \in Pages /\ p \notin Live /\ ~tomb[p].on /\ alias[p] = p
        /\ \A q \in Pages : q # p => alias[q] # p
        /\ \A n \in wire : n.page # p
        /\ \A r \in reads : r.n # p
    BY DEF Fresh, Live, Tombs
  <1>2. w.op = "woken" /\ w.page = p /\ w.id = m.id /\ w.mine
    BY <1>0 DEF Messages
  <1> HIDE DEF w
  <1>3. /\ Live' = Live \cup {p} /\ Known' = Known /\ (\A j \in Pages : Awake(j)' <=> Awake(j))
        /\ \A j \in Pages : Asleep(j)' <=> Asleep(j)
    BY <1>0 DEF Live, Known, Awake, Target, Asleep
  <1>4. Shapes'
    BY <1>0, <1>1, <1>2 DEF HubInv, Shapes, WakeOps
  <1>5. Connection'
    BY <1>0, <1>1, <1>3 DEF HubInv, Connection, Live
  <1>6. Identity'
    <2>1. OneIdOnePage'
      BY <1>0, <1>3 DEF HubInv, Identity, OneIdOnePage
    <2>2. \A q \in Live : q # p /\ alias[q] # p /\ q \in Pages
      BY <1>1 DEF Live, Known
    <2>3. \A q, s \in Live' : alias'[q] = alias'[s] => q = s
      BY <1>0, <1>1, <1>3, <2>2 DEF HubInv, Identity
    <2>4. \A q \in Live' : alias'[q] # q => alias'[q] \notin Live'
      BY <1>0, <1>1, <1>3, <2>2 DEF HubInv, Identity
    <2> QED
      BY <1>0, <1>3, <2>1, <2>3, <2>4 DEF HubInv, Identity
  <1>7. Tombstones'
    <2>1. \A j \in Live' : tomb'[j].on => tomb'[j].falling = j
      BY <1>0, <1>1, <1>3 DEF HubInv, Tombstones
    <2>2. \A j \in Pages : tomb'[j].falling # 0 => FallOf(j, tomb[j].falling)'
      <3> SUFFICES ASSUME NEW j \in Pages, tomb'[j].falling # 0
                   PROVE  FallOf(j, tomb[j].falling)'
        OBVIOUS
      <3>1. tomb'[j] = tomb[j] /\ FallOf(j, tomb[j].falling) /\ tomb[j].falling \in Pages /\ j # p
        BY <1>0, <1>1 DEF HubInv, Tombstones, TombRecords, Shapes
      <3> QED
        BY <1>0, <1>1, <1>3, <3>1 DEF FallOf
    <2> QED
      BY <1>0, <1>3, <2>1, <2>2 DEF HubInv, Tombstones, Shapes
  <1>8. Waking'
    <2>1. \A n \in wire' : \/ n = w /\ n.id = m.id /\ n.op = "woken"
                           \/ n \in wire /\ n # m
      BY <1>0, <1>2
    <2>2. ASSUME NEW n \in wire', n.op \in WakeOps
          PROVE  Asleep(n.id)' /\ tomb'[n.id].waking
      BY <1>0, <1>3, <2>1, <2>2 DEF HubInv, Waking, Shapes, WakeOps
    <2>3. ASSUME NEW k \in wire', NEW n \in wire', k.op \in WakeOps, n.op \in WakeOps,
                 k.id = n.id
          PROVE  k = n
      BY <1>0, <2>1, <2>3 DEF HubInv, Waking, WakeOps
    <2>4. ASSUME cdp' \in {"settling", "ready"}, NEW q \in news', alias'[q] # q
          PROVE  /\ Asleep(alias[q])' /\ tomb'[alias'[q]].waking
                 /\ \A n \in wire' : n.op \in WakeOps => n.id # alias'[q]
      <3>1. /\ q \in Pages /\ q \in news /\ alias[q] \in Pages /\ Asleep(alias[q]) /\ tomb[alias[q]].waking
            /\ \A n \in wire : n.op \in WakeOps => n.id # alias[q]
        BY <1>0, <1>1, <2>4 DEF HubInv, Waking
      <3> QED
        BY <1>0, <1>3, <2>1, <3>1 DEF WakeOps
    <2>5. ASSUME NEW n \in wire', n.op = "woken"
          PROVE  /\ \A r \in reads' : r.who = "sleep" => r.n # n.page
                 /\ \A j \in Pages : tomb'[j].falling # n.page
      <3>1. CASE n = w
        <4>1. ASSUME NEW j \in Pages, tomb[j].falling = p  PROVE FALSE
          <5>1. FallOf(j, p)
            BY <1>1, <4>1 DEF HubInv, Tombstones
          <5>2. j = p
            BY <1>1, <5>1 DEF FallOf
          <5> QED
            BY <1>1, <4>1, <5>2 DEF HubInv, Shapes
        <4> QED
          BY <1>0, <1>1, <1>2, <3>1, <4>1
      <3>2. CASE n \in wire
        BY <1>0, <2>5, <3>2 DEF HubInv, Waking
      <3> QED
        BY <2>1, <3>1, <3>2
    <2>6. ASSUME NEW n \in wire', n.op = "close"  PROVE n.page \notin news'
      BY <1>0, <1>1, <2>1, <2>6 DEF HubInv, Waking
    <2> QED
      BY <2>2, <2>3, <2>4, <2>5, <2>6 DEF Waking
  <1>9. ViewersStand'
    BY <1>0, <1>3 DEF HubInv, ViewersStand, Shapes
  <1> QED
    BY <1>4, <1>5, <1>6, <1>7, <1>8, <1>9 DEF HubInv

\* The page of a wake a dropped connection asked for is one more tab.
LEMMA LateOpensKeeps ==
  ASSUME HubInv, TypeOK', NEW l, NEW p \in Fresh, LateOpens(l, p)
  PROVE  HubInv'
  <1> TypeOK
    BY DEF HubInv
  <1> USE Types, TypesNow, PageFacts DEF linkVars, readVars, tabVars, tombVars
  <1>0. /\ UNCHANGED <<wire, linkVars, tab, byId, alias, tomb, tombGrace, at, reads>>
        /\ open' = open \cup {p} /\ remembered' = remembered \ {p}
        /\ news' = IF cdp = "none" THEN news ELSE news \cup {p}
    BY DEF LateOpens
  <1>1. /\ p \in Pages /\ p \notin Live /\ ~tomb[p].on /\ alias[p] = p /\ p \notin seen
        /\ \A q \in Pages : q # p => alias[q] # p
        /\ \A n \in wire : n.page # p
    BY DEF Fresh, Live, Tombs
  <1>2. /\ Live' = Live \cup {p} /\ Known' = Known /\ (\A j \in Pages : Awake(j)' <=> Awake(j))
        /\ \A j \in Pages : Asleep(j)' <=> Asleep(j)
    BY <1>0 DEF Live, Known, Awake, Target, Asleep
  <1>3. Shapes'
    BY <1>0 DEF HubInv, Shapes
  <1>4. Connection'
    BY <1>0, <1>1, <1>2 DEF HubInv, Connection, Live
  <1>5. Identity'
    <2>1. OneIdOnePage'
      BY <1>0, <1>2 DEF HubInv, Identity, OneIdOnePage
    <2>2. \A q \in Live : q # p /\ alias[q] # p /\ q \in Pages
      BY <1>1 DEF Live, Known
    <2>3. \A q, s \in Live' : alias'[q] = alias'[s] => q = s
      BY <1>0, <1>1, <1>2, <2>2 DEF HubInv, Identity
    <2>4. \A q \in Live' : alias'[q] # q => alias'[q] \notin Live'
      BY <1>0, <1>1, <1>2, <2>2 DEF HubInv, Identity
    <2> QED
      BY <1>0, <1>2, <2>1, <2>3, <2>4 DEF HubInv, Identity
  <1>6. Tombstones'
    <2>1. \A j \in Live' : tomb'[j].on => tomb'[j].falling = j
      BY <1>0, <1>1, <1>2 DEF HubInv, Tombstones
    <2>2. \A j \in Pages : tomb'[j].falling # 0 => FallOf(j, tomb[j].falling)'
      <3> SUFFICES ASSUME NEW j \in Pages, tomb'[j].falling # 0
                   PROVE  FallOf(j, tomb[j].falling)'
        OBVIOUS
      <3>1. tomb'[j] = tomb[j] /\ FallOf(j, tomb[j].falling) /\ tomb[j].falling \in Pages /\ j # p
        BY <1>0, <1>1 DEF HubInv, Tombstones, TombRecords, Shapes
      <3> QED
        BY <1>0, <1>1, <1>2, <3>1 DEF FallOf
    <2> QED
      BY <1>0, <1>2, <2>1, <2>2 DEF HubInv, Tombstones, Shapes
  <1>7. Waking'
    <2>1. \A m \in wire : m.op \in WakeOps => Asleep(m.id)' /\ tomb'[m.id].waking
      BY <1>0, <1>2 DEF HubInv, Waking, Shapes
    <2>2. ASSUME cdp' \in {"settling", "ready"}, NEW q \in news', alias'[q] # q
          PROVE  /\ Asleep(alias[q])' /\ tomb'[alias'[q]].waking
                 /\ \A m \in wire' : m.op \in WakeOps => m.id # alias'[q]
      <3>1. /\ q \in Pages /\ alias[q] \in Pages /\ Asleep(alias[q]) /\ tomb[alias[q]].waking
            /\ \A m \in wire : m.op \in WakeOps => m.id # alias[q]
        BY <1>0, <1>1, <2>2 DEF HubInv, Waking
      <3> QED
        BY <1>0, <1>2, <3>1
    <2>3. \A m \in wire : m.op = "close" => m.page \notin news'
      BY <1>0, <1>1 DEF HubInv, Waking
    <2> QED
      BY <1>0, <2>1, <2>2, <2>3 DEF HubInv, Waking
  <1>8. ViewersStand'
    BY <1>0, <1>2 DEF HubInv, ViewersStand, Shapes
  <1> QED
    BY <1>3, <1>4, <1>5, <1>6, <1>7, <1>8 DEF HubInv

\* The step of a tombstone into the tab it woke into, as seen from outside.
LEMMA AdoptEffect ==
  ASSUME TypeOK, Shapes, NEW i \in Pages, NEW p \in Pages, NEW W, W \subseteq wire,
         \A m \in W : m.id # i, Adopt(i, p, W)
  PROVE  /\ wire' = W /\ tombGrace' = tombGrace \ {i}
         /\ \A j \in Pages : j # i => tomb'[j] = tomb[j]
         /\ ~tomb'[i].on /\ tomb'[i].falling = 0 /\ ~tomb'[i].waking
         /\ \A q \in Pages : q # p => tab'[q] = tab[q]
         /\ tab'[p].known /\ tab'[p].id = i
         /\ byId' = [j \in Pages |-> IF j = i THEN p
                       ELSE IF j = tab[p].id /\ byId[j] = p THEN 0 ELSE byId[j]]
         /\ alias'[p] = i /\ \A q \in Pages : q # p => alias'[q] = alias[q]
         /\ \A v \in Viewers : \/ at'[v].kind = "tab" /\ at'[v].n = p
                               \/ at'[v] = at[v] /\ ~(at[v].kind = "tomb" /\ at[v].n = i)
         /\ \A r \in reads' : \/ r \in reads /\ ~(r.who = "ended" /\ r.n = i)
                              \/ r.who = "other"
  <1> USE Types, TypesNow, PageFacts
  <1>1. wire' = W /\ tombGrace' = tombGrace \ {i}
    <2>1. Disowned({i}, W) = W
      BY DisownedNone
    <2> QED
      BY <2>1 DEF Adopt
  <1>2. /\ \A j \in Pages : j # i => tomb'[j] = tomb[j]
        /\ ~tomb'[i].on /\ tomb'[i].falling = 0 /\ ~tomb'[i].waking
    <2>1. tomb'[i] = NoTomb /\ \A j \in Pages : j # i => tomb'[j] = tomb[j]
      BY DEF Adopt
    <2>2. ~NoTomb.on /\ NoTomb.falling = 0 /\ ~NoTomb.waking
      BY ONLY DEF NoTomb
    <2> QED
      BY ONLY <2>1, <2>2
  <1>3. /\ \A q \in Pages : q # p => tab'[q] = tab[q]
        /\ tab'[p].known /\ tab'[p].id = i
    <2>1. tab[p] \in TabRecords
      OBVIOUS
    <2>2. /\ tab'[p] = [tab[p] EXCEPT !.known = TRUE, !.id = i]
          /\ \A q \in Pages : q # p => tab'[q] = tab[q]
      BY <2>1 DEF Adopt, TabRecords
    <2> QED
      BY <2>1, <2>2 DEF TabRecords
  <1>4. alias'[p] = i /\ \A q \in Pages : q # p => alias'[q] = alias[q]
    BY DEF Adopt
  <1>5. at' = [v \in Viewers |-> IF at[v].kind = "tomb" /\ at[v].n = i
                                 THEN [at[v] EXCEPT !.kind = "tab", !.n = p] ELSE at[v]]
    BY DEF Adopt
  <1>6. \A v \in Viewers : \/ at'[v].kind = "tab" /\ at'[v].n = p
                           \/ at'[v] = at[v] /\ ~(at[v].kind = "tomb" /\ at[v].n = i)
    BY <1>5 DEF Places
  <1>7. \A r \in reads' : \/ r \in reads /\ ~(r.who = "ended" /\ r.n = i)
                          \/ r.who = "other"
    BY OrphanedReads DEF Adopt
  <1> QED
    BY <1>1, <1>2, <1>3, <1>4, <1>5, <1>6, <1>7 DEF Adopt

\* No page there is has the id of a tombstone that sleeps, but one whose wake
\* the hub has been answered.
LEMMA AsleepAlone ==
  ASSUME HubInv, NEW i \in Pages, Asleep(i)
  PROVE  /\ i \notin Live /\ byId[i] = 0
         /\ \A p \in Known : alias[p] # i /\ tab[p].id # i
  <1> TypeOK
    BY DEF HubInv
  <1> USE Types, TypesNow, PageFacts
  <1>1. i \notin Live /\ ~Awake(i)
    BY DEF HubInv, Tombstones, Asleep
  <1>2. byId[i] = 0
    <2> SUFFICES ASSUME byId[i] # 0  PROVE FALSE
      OBVIOUS
    <2>1. byId[i] \in Pages /\ tab[byId[i]].known
      BY DEF HubInv, Identity
    <2> QED
      BY <1>1, <2>1 DEF Awake, Target, Known
  <1>3. ASSUME NEW p \in Known, tab[p].id = i  PROVE FALSE
    <2>1. byId[i] = p /\ p \in Pages
      BY <1>3 DEF HubInv, Identity, OneIdOnePage, Known
    <2> QED
      BY <1>2, <2>1
  <1>4. \A p \in Known : alias[p] = tab[p].id
    BY DEF HubInv, Identity
  <1> QED
    BY <1>1, <1>2, <1>3, <1>4

\* The answer to a wake finds no other page there is with the id.
LEMMA WokenAlone ==
  ASSUME HubInv, NEW m \in wire, m.op = "woken"
  PROVE  /\ cdp = "ready" /\ m.id \in Pages /\ m.page \in Pages /\ m.mine
         /\ Asleep(m.id) /\ tomb[m.id].waking
         /\ \A q \in Live : alias[q] # m.id
         /\ \A n \in wire \ {m} : n.id # m.id
         /\ \A j \in Pages : tomb[j].falling # m.page
         /\ \A r \in reads : r.who = "sleep" => r.n # m.page
  <1> TypeOK
    BY DEF HubInv
  <1> USE Types, TypesNow, PageFacts
  <1>1. /\ cdp = "ready" /\ m.id \in Pages /\ m.page \in Pages /\ m.mine
        /\ Asleep(m.id) /\ tomb[m.id].waking
        /\ \A j \in Pages : tomb[j].falling # m.page
        /\ \A r \in reads : r.who = "sleep" => r.n # m.page
    BY DEF HubInv, Shapes, Connection, Waking, WakeOps, Asleep
  <1>2. \A n \in wire \ {m} : n.id # m.id
    BY <1>1 DEF HubInv, Shapes, Waking, WakeOps
  <1>3. ASSUME NEW q \in Live, alias[q] = m.id  PROVE FALSE
    <2>1. q \in Pages /\ (q \in Known \/ q \in news)
      BY <1>1 DEF Live, Known, HubInv, Connection
    <2>2. q \notin Known /\ q # m.id
      BY <1>1, <1>3, AsleepAlone
    <2> QED
      BY <1>1, <1>3, <2>1, <2>2 DEF HubInv, Waking, WakeOps
  <1> QED
    BY <1>1, <1>2, <1>3

\* The answer to a wake, its page reported before it.
LEMMA WokenKnownKeeps ==
  ASSUME HubInv, TypeOK', NEW m \in wire, Woken(m), tab[m.page].known
  PROVE  HubInv'
  <1> DEFINE p == m.page
             i == m.id
             k == tab[p].id
  <1> TypeOK
    BY DEF HubInv
  <1> USE Types, TypesNow, PageFacts DEF linkVars
  <1>0. /\ UNCHANGED <<open, news, linkVars, remembered>>
        /\ m.op = "woken" /\ cdp = "ready" /\ i \in Pages /\ p \in Pages
        /\ Asleep(i) /\ tomb[i].on /\ tomb[i].falling = 0
        /\ (\A q \in Live : alias[q] # i)
        /\ (\A j \in Pages : tomb[j].falling # p)
        /\ \A r \in reads : r.who = "sleep" => r.n # p
    BY WokenAlone DEF Woken, Asleep
  <1>1. /\ wire' = wire \ {m} /\ tombGrace' = tombGrace \ {i}
        /\ \A j \in Pages : j # i => tomb'[j] = tomb[j]
        /\ ~tomb'[i].on /\ tomb'[i].falling = 0 /\ ~tomb'[i].waking
        /\ \A q \in Pages : q # p => tab'[q] = tab[q]
        /\ tab'[p].known /\ tab'[p].id = i
        /\ byId' = [j \in Pages |-> IF j = i THEN p
                      ELSE IF j = k /\ byId[j] = p THEN 0 ELSE byId[j]]
        /\ alias'[p] = i /\ \A q \in Pages : q # p => alias'[q] = alias[q]
        /\ \A v \in Viewers : \/ at'[v].kind = "tab" /\ at'[v].n = p
                              \/ at'[v] = at[v] /\ ~(at[v].kind = "tomb" /\ at[v].n = i)
        /\ \A r \in reads' : \/ r \in reads /\ ~(r.who = "ended" /\ r.n = i)
                             \/ r.who = "other"
    <2> DEFINE W == wire \ {m}
    <2>1. Adopt(i, p, W) /\ \A n \in W : n.id # i
      BY <1>0, WokenAlone DEF Woken
    <2>2. Shapes /\ W \subseteq wire /\ i \in Pages /\ p \in Pages
      BY <1>0 DEF HubInv
    <2> HIDE DEF p, i, W
    <2>3. wire' = W
      BY <2>1, <2>2, AdoptEffect
    <2> QED
      BY <2>1, <2>2, <2>3, AdoptEffect DEF W
  <1>2. /\ p \in Known /\ k \in Pages /\ byId[k] = p /\ k # i /\ p \in Live /\ p # i
        /\ Awake(k) /\ ~Asleep(k) /\ alias[p] = k
    <2>1. p \in Known /\ k \in Pages /\ p \in Live
      BY <1>0 DEF Known, Live, HubInv, Shapes
    <2>2. byId[k] = p /\ alias[p] = k
      BY <2>1 DEF HubInv, Identity, OneIdOnePage
    <2>3. k # i /\ p # i
      BY <1>0, <2>1, AsleepAlone
    <2>4. Awake(k)
      BY <1>0, <2>1, <2>2 DEF Awake, Target
    <2> QED
      BY <2>1, <2>2, <2>3, <2>4 DEF HubInv, Tombstones
  <1> HIDE DEF p, i, k
  <1>3. Live' = Live /\ Known' = Known
    <2>1. \A q \in Pages : tab'[q].known <=> tab[q].known
      BY <1>0, <1>1, <1>2 DEF Known
    <2> QED
      BY <1>0, <2>1 DEF Live, Known
  <1>4. \A j \in Pages : Asleep(j)' <=> Asleep(j) /\ j # i
    BY <1>1 DEF Asleep
  <1>5. \A j \in Pages : j # k /\ j # i => (Awake(j)' <=> Awake(j))
    BY <1>1, <1>3 DEF Awake, Target
  <1>6. Shapes'
    <2>1. \A n \in wire' : n \in wire
      BY <1>1
    <2> QED
      BY <1>0, <1>1, <2>1 DEF HubInv, Shapes
  <1>7. Connection'
    BY <1>0, <1>1, <1>3 DEF HubInv, Connection
  <1>8. Identity'
    <2>1. ASSUME NEW q \in Pages, q \in Known'  PROVE byId'[tab'[q].id] = q
      <3>1. CASE q = p
        BY <1>0, <1>1, <3>1
      <3>2. CASE q # p
        <4>1. q \in Known /\ tab[q].id \in Pages /\ byId[tab[q].id] = q
          BY <1>3, <2>1 DEF HubInv, Identity, OneIdOnePage, Shapes, Known
        <4>2. tab[q].id # i
          BY <1>0, <4>1, AsleepAlone
        <4> QED
          BY <1>1, <3>2, <4>1, <4>2
      <3> QED
        BY <3>1, <3>2
    <2>2. ASSUME NEW j \in Pages, byId'[j] # 0
          PROVE  tab'[byId'[j]].known /\ tab'[byId'[j]].id = j
      <3>1. CASE j = i
        BY <1>0, <1>1, <3>1
      <3>2. CASE j # i
        <4>1. byId'[j] = byId[j] /\ byId[j] \in Pages /\ tab[byId[j]].known /\ tab[byId[j]].id = j
          BY <1>1, <2>2, <3>2 DEF HubInv, Identity
        <4>2. byId[j] # p
          BY <1>1, <2>2, <3>2, <4>1 DEF k
        <4> QED
          BY <1>1, <4>1, <4>2
      <3> QED
        BY <3>1, <3>2
    <2>3. ASSUME NEW q \in Pages, q \in Known'  PROVE alias'[q] = tab'[q].id
      BY <1>0, <1>1, <1>3, <2>3 DEF HubInv, Identity
    <2>4. \A q \in Live : q \in Pages
      BY DEF Live, Known
    <2>5. ASSUME NEW q \in Live', NEW s \in Live', alias'[q] = alias'[s]  PROVE q = s
      <3>1. q \in Pages /\ s \in Pages /\ q \in Live /\ s \in Live
        BY <1>3, <2>4
      <3>2. alias[q] # i /\ alias[s] # i
        BY <1>0, <3>1
      <3>3. q # p /\ s # p => alias[q] = alias[s]
        BY <1>1, <2>5, <3>1
      <3>4. q = p /\ s # p => alias'[s] = alias[s] /\ alias'[q] = i
        BY <1>1, <3>1
      <3>5. q # p /\ s = p => alias'[q] = alias[q] /\ alias'[s] = i
        BY <1>1, <3>1
      <3> QED
        BY <2>5, <3>1, <3>2, <3>3, <3>4, <3>5 DEF HubInv, Identity
    <2>6. ASSUME NEW q \in Live', alias'[q] # q  PROVE alias'[q] \notin Live'
      <3>1. q \in Pages /\ q \in Live
        BY <1>3, <2>4
      <3>2. CASE q = p
        BY <1>0, <1>1, <1>3, <3>2, AsleepAlone
      <3>3. CASE q # p
        BY <1>1, <1>3, <2>6, <3>1, <3>3 DEF HubInv, Identity
      <3> QED
        BY <3>2, <3>3
    <2>7. OneIdOnePage' /\ \A q \in Known' : alias'[q] = tab'[q].id
      BY <2>1, <2>3 DEF OneIdOnePage, Known
    <2> QED
      BY <2>2, <2>5, <2>6, <2>7 DEF Identity
  <1>9. Tombstones'
    <2>1. \A j \in Live' : tomb'[j].on => tomb'[j].falling = j
      BY <1>1, <1>3 DEF HubInv, Tombstones, Live, Known
    <2>2. ASSUME NEW j \in Pages, Asleep(j)'  PROVE ~Awake(j)'
      BY <1>2, <1>4, <1>5, <2>2 DEF HubInv, Tombstones
    <2>3. ASSUME NEW j \in Pages, tomb'[j].falling # 0  PROVE FallOf(j, tomb[j].falling)'
      <3> DEFINE q == tomb[j].falling
      <3>1. tomb'[j] = tomb[j] /\ FallOf(j, q) /\ q \in Pages /\ q # p /\ j # i
        BY <1>0, <1>1, <2>3 DEF HubInv, Tombstones, TombRecords
      <3>2. alias'[q] = alias[q] /\ tab'[q] = tab[q]
        BY <1>1, <3>1
      <3>3. ASSUME NEW x \in Live', alias'[x] = j  PROVE x = q
        <4>1. x \in Pages /\ x \in Live
          BY <1>3 DEF Live, Known
        <4>2. alias'[x] = alias[x]
          BY <1>1, <3>1, <3>3, <4>1
        <4> QED
          BY <3>1, <3>3, <4>1, <4>2 DEF FallOf
      <3> QED
        BY <1>0, <3>1, <3>2, <3>3 DEF FallOf
    <2>4. \A j \in tombGrace' : Asleep(j)'
      BY <1>1, <1>4 DEF HubInv, Tombstones
    <2>5. \A r \in reads' : r.who = "ended" => Asleep(r.n)'
      BY <1>1, <1>4 DEF HubInv, Tombstones, Shapes
    <2> QED
      BY <2>1, <2>2, <2>3, <2>4, <2>5 DEF Tombstones
  <1>10. Waking'
    <2>0. \A n \in wire' : n \in wire /\ n.id # i
      BY <1>0, <1>1, WokenAlone DEF i
    <2>1. ASSUME NEW n \in wire', n.op \in WakeOps
          PROVE  Asleep(n.id)' /\ tomb'[n.id].waking
      <3>1. n.id \in Pages /\ Asleep(n.id) /\ tomb[n.id].waking
        BY <2>0, <2>1 DEF HubInv, Waking, Shapes
      <3> QED
        BY <1>1, <1>4, <2>0, <3>1
    <2>2. ASSUME cdp' \in {"settling", "ready"}, NEW q \in news', alias'[q] # q
          PROVE  /\ Asleep(alias[q])' /\ tomb'[alias'[q]].waking
                 /\ \A n \in wire' : n.op \in WakeOps => n.id # alias'[q]
      <3>1. q \in Pages /\ q \in news /\ q # p /\ alias'[q] = alias[q] /\ alias[q] # i /\ alias[q] \in Pages
        <4>1. q \in Pages /\ q \in news /\ q \in Live /\ q \notin Known
          BY <1>0, <2>2 DEF HubInv, Connection, Live
        <4> QED
          BY <1>0, <1>1, <1>2, <4>1
      <3>2. /\ Asleep(alias[q]) /\ tomb[alias[q]].waking
            /\ \A n \in wire : n.op \in WakeOps => n.id # alias[q]
        BY <1>0, <2>2, <3>1 DEF HubInv, Waking
      <3> QED
        <4>1. alias'[q] = alias[q] /\ Asleep(alias[q])'
          BY <1>4, <3>1, <3>2
        <4>2. tomb'[alias'[q]].waking
          <5>1. tomb'[alias[q]] = tomb[alias[q]]
            BY <1>1, <3>1
          <5> QED
            BY ONLY <3>2, <4>1, <5>1
        <4>3. Asleep(alias[q])'
          BY <4>1 DEF Asleep
        <4>4. \A n \in wire' : n.op \in WakeOps => n.id # alias'[q]
          BY <2>0, <3>1, <3>2
        <4> QED
          BY <4>2, <4>3, <4>4 DEF Asleep
    <2>3. ASSUME NEW n \in wire', n.op = "woken"
          PROVE  /\ \A r \in reads' : r.who = "sleep" => r.n # n.page
                 /\ \A j \in Pages : tomb'[j].falling # n.page
      <3>1. n \in wire /\ n.page \in Pages
        BY <2>0, <2>3 DEF HubInv, Shapes
      <3> QED
        BY <1>1, <2>3, <3>1 DEF HubInv, Waking
    <2> QED
      BY <1>0, <2>0, <2>1, <2>2, <2>3 DEF HubInv, Waking
  <1>11. ViewersStand'
    <2> SUFFICES ASSUME NEW v \in Viewers
                 PROVE  /\ at'[v].kind = "tab" => tab'[at'[v].n].known
                        /\ (at[v].kind = "tomb" => Asleep(at[v].n))'
      BY DEF ViewersStand
    <2>1. CASE at'[v].kind = "tab" /\ at'[v].n = p
      BY <1>1, <2>1
    <2>2. CASE at'[v] = at[v] /\ ~(at[v].kind = "tomb" /\ at[v].n = i)
      <3>1. /\ at[v].kind = "tab" => at[v].n \in Pages /\ tab[at[v].n].known
            /\ at[v].kind = "tomb" => at[v].n \in Pages /\ at[v].n # i /\ Asleep(at[v].n)
        BY <2>2 DEF HubInv, Shapes, ViewersStand
      <3>2. at'[v].kind = "tab" => tab'[at'[v].n].known
        <4>1. \A q \in Pages : tab[q].known => tab'[q].known
          BY <1>0, <1>1
        <4> QED
          BY <2>2, <3>1, <4>1
      <3>3. (at[v].kind = "tomb" => Asleep(at[v].n))'
        BY <1>4, <2>2, <3>1
      <3> QED
        BY <3>2, <3>3
    <2> QED
      BY <1>1, <2>1, <2>2
  <1> QED
    BY <1>6, <1>7, <1>8, <1>9, <1>10, <1>11 DEF HubInv

\* The answer to a wake, its page not reported yet.
LEMMA WokenNewKeeps ==
  ASSUME HubInv, TypeOK', NEW m \in wire, Woken(m), ~tab[m.page].known
  PROVE  HubInv'
  <1> DEFINE p == m.page
             i == m.id
  <1> TypeOK
    BY DEF HubInv
  <1> USE Types, TypesNow, PageFacts DEF linkVars, tombVars
  <1>0. /\ UNCHANGED <<open, news, linkVars, remembered, tab, byId, tomb, tombGrace, at, reads>>
        /\ m.op = "woken" /\ cdp = "ready" /\ i \in Pages /\ p \in Pages
        /\ Asleep(i) /\ tomb[i].waking /\ tomb[i].falling = 0
        /\ (\A q \in Live : alias[q] # i)
        /\ (\A n \in wire \ {m} : n.id # i)
        /\ (\A j \in Pages : tomb[j].falling # p)
        /\ wire' = wire \ {m}
        /\ alias' = [alias EXCEPT ![p] = i]
    BY WokenAlone DEF Woken, Asleep
  <1>1. i \notin Live /\ p \notin Known
    BY <1>0, AsleepAlone DEF Known
  <1> HIDE DEF p, i
  <1>2. /\ Live' = Live /\ Known' = Known /\ (\A j \in Pages : Awake(j)' <=> Awake(j))
        /\ \A j \in Pages : Asleep(j)' <=> Asleep(j)
    BY <1>0 DEF Live, Known, Awake, Target, Asleep
  <1>3. Shapes'
    BY <1>0 DEF HubInv, Shapes
  <1>4. Connection'
    BY <1>0, <1>2 DEF HubInv, Connection
  <1>5. Identity'
    <2>0. \A q \in Live : q \in Pages
      BY DEF Live, Known
    <2>1. \A q \in Known' : alias'[q] = tab'[q].id
      BY <1>0, <1>1, <1>2, <2>0 DEF HubInv, Identity, Live
    <2>2. \A q, s \in Live' : alias'[q] = alias'[s] => q = s
      BY <1>0, <1>2, <2>0 DEF HubInv, Identity
    <2>3. \A q \in Live' : alias'[q] # q => alias'[q] \notin Live'
      BY <1>0, <1>1, <1>2, <2>0 DEF HubInv, Identity
    <2> QED
      BY <1>0, <1>2, <2>1, <2>2, <2>3 DEF HubInv, Identity, OneIdOnePage
  <1>6. Tombstones'
    <2>1. \A j \in Live' : tomb'[j].on => tomb'[j].falling = j
      BY <1>0, <1>2 DEF HubInv, Tombstones
    <2>2. ASSUME NEW j \in Pages, tomb'[j].falling # 0  PROVE FallOf(j, tomb[j].falling)'
      <3> DEFINE q == tomb[j].falling
      <3>1. tomb'[j] = tomb[j] /\ FallOf(j, q) /\ q \in Pages /\ q # p /\ j # i
        BY <1>0, <2>2 DEF HubInv, Tombstones, TombRecords
      <3>2. \A x \in Live' : alias'[x] = j => x = q
        BY <1>0, <1>2, <3>1 DEF FallOf, Live, Known
      <3> QED
        BY <1>0, <3>1, <3>2 DEF FallOf
    <2> QED
      BY <1>0, <1>2, <2>1, <2>2 DEF HubInv, Tombstones, Shapes
  <1>7. Waking'
    <2>1. ASSUME NEW n \in wire', n.op \in WakeOps
          PROVE  Asleep(n.id)' /\ tomb'[n.id].waking
      BY <1>0, <1>2, <2>1 DEF HubInv, Waking, Shapes
    <2>2. ASSUME cdp' \in {"settling", "ready"}, NEW q \in news', alias'[q] # q
          PROVE  /\ Asleep(alias[q])' /\ tomb'[alias'[q]].waking
                 /\ \A n \in wire' : n.op \in WakeOps => n.id # alias'[q]
      <3>1. CASE q = p
        BY <1>0, <1>2, <3>1
      <3>2. CASE q # p
        <4>1. q \in Pages /\ q \in news /\ alias'[q] = alias[q] /\ alias[q] \in Pages
          BY <1>0, <2>2, <3>2
        <4>2. /\ Asleep(alias[q]) /\ tomb[alias[q]].waking
              /\ \A n \in wire : n.op \in WakeOps => n.id # alias[q]
          BY <1>0, <2>2, <4>1 DEF HubInv, Waking
        <4> QED
          BY <1>0, <1>2, <4>1, <4>2
      <3> QED
        BY <3>1, <3>2
    <2> QED
      BY <1>0, <2>1, <2>2 DEF HubInv, Waking
  <1>8. ViewersStand'
    BY <1>0, <1>2 DEF HubInv, ViewersStand, Shapes
  <1> QED
    BY <1>3, <1>4, <1>5, <1>6, <1>7, <1>8 DEF HubInv

\* A page the hub knew before the drop is there again.
LEMMA ReportKnownKeeps ==
  ASSUME HubInv, TypeOK', NEW p \in Pages, Report(p), tab[p].known
  PROVE  HubInv'
  <1> TypeOK
    BY DEF HubInv
  <1> USE Types, TypesNow, PageFacts DEF tombVars
  <1>0. /\ UNCHANGED <<open, cdp, wire, tab, byId, alias, tomb, tombGrace, at, reads>>
        /\ p \in Known /\ p \in news /\ cdp = "reporting"
        /\ news' = news \ {p} /\ seen' = seen \cup {p}
    BY DEF Report, Known, HubInv, Connection
  <1>1. /\ Live' = Live /\ Known' = Known /\ (\A i \in Pages : Awake(i)' <=> Awake(i))
        /\ \A i \in Pages : Asleep(i)' <=> Asleep(i)
    BY <1>0 DEF Live, Known, Awake, Target, Asleep
  <1>2. Shapes'
    BY <1>0 DEF HubInv, Shapes
  <1>3. Connection'
    BY <1>0, <1>1 DEF HubInv, Connection
  <1>4. Identity'
    BY <1>0, <1>1, IdentityLess
  <1>5. Tombstones'
    <2>1. \A i \in Pages : tomb'[i].falling # 0 => FallOf(i, tomb[i].falling)'
      BY <1>0, <1>1 DEF HubInv, Tombstones, FallOf
    <2> QED
      BY <1>0, <1>1, <2>1 DEF HubInv, Tombstones, Asleep
  <1>6. Waking'
    BY <1>0 DEF HubInv, Waking, Asleep
  <1>7. ViewersStand'
    BY <1>0 DEF HubInv, ViewersStand, Asleep
  <1> QED
    BY <1>2, <1>3, <1>4, <1>5, <1>6, <1>7 DEF HubInv

\* What is there for a page the hub does not know, when it is reported.
LEMMA UnknownReported ==
  ASSUME HubInv, NEW p \in news, cdp # "none", ~tab[p].known
  PROVE  /\ p \in Pages /\ alias[p] \in Pages /\ p \in Live /\ p \notin Known
         /\ cdp \in {"reporting", "settling", "ready"}
         /\ \A m \in wire : m.id # alias[p]
         /\ byId[alias[p]] = 0 /\ \A j \in Pages : byId[j] # p
         /\ \A q \in Live : alias[q] = alias[p] => q = p
         /\ alias[p] # p => alias[p] \notin Live
         /\ ~Asleep(p)
  <1> TypeOK
    BY DEF HubInv
  <1> USE Types, TypesNow, PageFacts
  <1>1. /\ p \in Pages /\ alias[p] \in Pages /\ p \in Live /\ p \notin Known
        /\ cdp \in {"reporting", "settling", "ready"}
    BY DEF Live, Known, HubInv, Connection
  <1>2. ~Asleep(p)
    BY <1>1 DEF HubInv, Tombstones, Asleep
  <1>3. ASSUME NEW m \in wire, m.id = alias[p]  PROVE FALSE
    <2>1. m.op \in WakeOps /\ cdp = "ready"
      BY <1>1, <1>3 DEF HubInv, Shapes, Connection, WakeOps
    <2>2. alias[p] # p
      BY <1>2, <1>3, <2>1 DEF HubInv, Waking
    <2> QED
      BY <1>3, <2>1, <2>2 DEF HubInv, Waking
  <1>4. \A j \in Pages : byId[j] # p
    BY <1>1 DEF HubInv, Identity, Known
  <1>5. /\ \A q \in Live : alias[q] = alias[p] => q = p
        /\ alias[p] # p => alias[p] \notin Live
    BY <1>1 DEF HubInv, Identity
  <1>6. byId[alias[p]] = 0
    <2> SUFFICES ASSUME byId[alias[p]] # 0  PROVE FALSE
      OBVIOUS
    <2> DEFINE q == byId[alias[p]]
    <2>1. q \in Pages /\ tab[q].known /\ tab[q].id = alias[p]
      BY <1>1 DEF HubInv, Identity
    <2>2. q \in Known /\ q \in Live /\ alias[q] = alias[p]
      BY <2>1 DEF HubInv, Identity, Known, Live
    <2> QED
      BY <1>1, <1>5, <2>2
  <1> QED
    BY <1>1, <1>2, <1>3, <1>4, <1>5, <1>6

\* A page the hub comes to know under its alias.
LEMMA ReportedKeeps ==
  ASSUME HubInv, TypeOK', NEW p \in news, cdp # "none", ~tab[p].known,
         NEW i, i = alias[p],
         UNCHANGED <<open, cdp, alias, wire>>,
         news' = news \ {p}, seen' = IF cdp = "reporting" THEN seen \cup {p} ELSE seen,
         remembered' \subseteq remembered \cup {i},
         tab'[p].known, tab'[p].id = i, \A q \in Pages : q # p => tab'[q] = tab[q],
         byId'[i] = p, \A j \in Pages : j # i => byId'[j] = byId[j],
         \A j \in Pages : tomb'[j] = tomb[j]
                          \/ (~tomb'[j].on /\ tomb'[j].falling = 0 /\ ~tomb'[j].waking /\ j = i),
         ~Asleep(i)', \A j \in tombGrace' : Asleep(j)',
         \A r \in reads' : \/ r \in reads /\ (r.who = "ended" => Asleep(r.n)')
                           \/ r.who = "other",
         \A v \in Viewers : \/ at'[v].kind = "tab" /\ at'[v].n = p
                            \/ at'[v] = at[v] /\ (at[v].kind = "tomb" => at[v].n # i)
  PROVE  HubInv'
  <1> TypeOK
    BY DEF HubInv
  <1> USE Types, TypesNow, PageFacts
  <1>0. /\ p \in Pages /\ i \in Pages /\ p \in Live /\ p \notin Known
        /\ cdp \in {"reporting", "settling", "ready"}
        /\ \A m \in wire : m.id # i
        /\ byId[i] = 0 /\ \A j \in Pages : byId[j] # p
        /\ \A q \in Live : alias[q] = i => q = p
        /\ i # p => i \notin Live
        /\ ~Asleep(p)
    BY UnknownReported
  <1>1. /\ Live' = Live /\ Known' = Known \cup {p} /\ Live \subseteq Pages
    <2>1. \A q \in Pages : tab'[q].known <=> tab[q].known \/ q = p
      BY <1>0
    <2>2. Known' = Known \cup {p}
      <3>1. \A q \in Pages : q \in Known' <=> q \in Known \/ q = p
        BY <2>1 DEF Known
      <3>2. Known \subseteq Pages /\ Known' \subseteq Pages
        BY DEF Known
      <3>3. p \in Pages
        BY <1>0
      <3> QED
        BY ONLY <3>1, <3>2, <3>3
    <2>3. Known \subseteq Pages /\ p \in news
      BY DEF Known
    <2>4. Live' = open \cup (news \ {p}) \cup (Known \cup {p})
      BY <2>2 DEF Live
    <2> QED
      BY <1>0, <2>2, <2>3, <2>4 DEF Live
  <1>2. \A j \in Pages : Asleep(j)' => Asleep(j) /\ j # i /\ tomb'[j] = tomb[j]
    BY DEF Asleep
  <1>3. \A j \in Pages : Asleep(j) /\ j # i => Asleep(j)' /\ tomb'[j] = tomb[j]
    BY DEF Asleep
  <1>4. Shapes'
    <2>1. \A r \in reads' : r.who \in {"sleep", "unused", "ended"} => r.n \in Pages
      BY DEF HubInv, Shapes
    <2>2. \A v \in Viewers : at'[v].kind # "none" => at'[v].n \in Pages
      BY <1>0 DEF HubInv, Shapes
    <2>3. \A q \in Pages : tab'[q].known => tab'[q].id \in Pages
      BY <1>0 DEF HubInv, Shapes
    <2>4. \A j \in Pages : ~tomb'[j].on => tomb'[j].falling = 0 /\ ~tomb'[j].waking
      BY DEF HubInv, Shapes
    <2> QED
      BY <2>1, <2>2, <2>3, <2>4 DEF HubInv, Shapes
  <1>5. Connection'
    <2>1. news' \cap (Known' \cup remembered') \subseteq news \cap (Known \cup remembered)
      BY <1>0, <1>1 DEF Live
    <2> QED
      BY <1>0, <1>1, <2>1 DEF HubInv, Connection
  <1>6. Identity'
    <2>1. ASSUME NEW q \in Pages, q \in Known'
          PROVE  byId'[tab'[q].id] = q /\ alias'[q] = tab'[q].id
      <3>1. CASE q = p
        BY <1>0, <3>1
      <3>2. CASE q # p
        <4>1. /\ q \in Known /\ q \in Live /\ tab[q].id \in Pages /\ byId[tab[q].id] = q
              /\ alias[q] = tab[q].id
          BY <1>1, <2>1, <3>2 DEF HubInv, Identity, OneIdOnePage, Shapes, Known, Live
        <4> DEFINE k == tab[q].id
        <4>2. k # i /\ tab'[q] = tab[q] /\ k \in Pages /\ byId[k] = q /\ alias[q] = k
          BY <1>0, <3>2, <4>1
        <4>3. tab'[q].id = k /\ byId'[k] = byId[k]
          BY <1>0, <4>2
        <4> HIDE DEF k
        <4> QED
          BY <4>2, <4>3
      <3> QED
        BY <3>1, <3>2
    <2>2. ASSUME NEW j \in Pages, byId'[j] # 0
          PROVE  tab'[byId'[j]].known /\ tab'[byId'[j]].id = j
      <3>1. CASE j = i
        BY <1>0, <3>1
      <3>2. CASE j # i
        <4>1. byId'[j] = byId[j] /\ byId[j] \in Pages /\ tab[byId[j]].known /\ tab[byId[j]].id = j
          BY <2>2, <3>2 DEF HubInv, Identity
        <4> QED
          BY <1>0, <4>1
      <3> QED
        BY <3>1, <3>2
    <2>3. OneIdOnePage' /\ \A q \in Known' : alias'[q] = tab'[q].id
      BY <2>1 DEF OneIdOnePage, Known
    <2> QED
      BY <1>1, <2>2, <2>3 DEF HubInv, Identity
  <1>7. Tombstones'
    <2>1. \A j \in Live' : tomb'[j].on => tomb'[j].falling = j
      BY <1>1 DEF HubInv, Tombstones
    <2>2. ASSUME NEW j \in Pages, Asleep(j)'  PROVE ~Awake(j)'
      <3>1. Asleep(j) /\ j # i
        BY <1>2, <2>2
      <3>2. byId[j] = 0 /\ j \notin Live
        BY <3>1, AsleepAlone
      <3>3. byId'[j] = 0 /\ j \notin Known'
        BY <1>0, <1>1, <3>1, <3>2 DEF Live
      <3> QED
        BY <3>3 DEF Awake, Target
    <2>3. ASSUME NEW j \in Pages, tomb'[j].falling # 0  PROVE FallOf(j, tomb[j].falling)'
      <3> DEFINE q == tomb[j].falling
      <3>1. tomb'[j] = tomb[j] /\ FallOf(j, q) /\ q \in Pages
        BY <2>3 DEF HubInv, Tombstones, TombRecords
      <3>2. tab[q].known \/ q = p => tab'[q].known
        BY <1>0, <3>1
      <3> QED
        BY <1>0, <1>1, <3>1, <3>2 DEF FallOf
    <2>4. \A r \in reads' : r.who = "ended" => Asleep(r.n)'
      BY <1>0
    <2> QED
      BY <2>1, <2>2, <2>3, <2>4 DEF Tombstones
  <1>8. Waking'
    <2>1. ASSUME NEW m \in wire', m.op \in WakeOps
          PROVE  Asleep(m.id)' /\ tomb'[m.id].waking
      <3>1. m.id \in Pages /\ m.id # i /\ Asleep(m.id) /\ tomb[m.id].waking
        BY <1>0, <2>1 DEF HubInv, Waking, Shapes
      <3> QED
        BY <1>3, <3>1
    <2>2. ASSUME cdp' \in {"settling", "ready"}, NEW q \in news', alias'[q] # q
          PROVE  /\ Asleep(alias[q])' /\ tomb'[alias'[q]].waking
                 /\ \A n \in wire' : n.op \in WakeOps => n.id # alias'[q]
      <3>1. q \in Pages /\ q \in news /\ q # p /\ q \in Live /\ alias[q] # i /\ alias[q] \in Pages
        BY <1>0, <2>2 DEF Live
      <3>2. /\ Asleep(alias[q]) /\ tomb[alias[q]].waking
            /\ \A n \in wire : n.op \in WakeOps => n.id # alias[q]
        BY <1>0, <2>2, <3>1 DEF HubInv, Waking
      <3> QED
        BY <1>3, <3>1, <3>2
    <2>3. ASSUME NEW n \in wire', n.op = "woken"
          PROVE  /\ \A r \in reads' : r.who = "sleep" => r.n # n.page
                 /\ \A j \in Pages : tomb'[j].falling # n.page
      <3>1. n \in wire /\ n.page \in Pages
        BY <2>3 DEF HubInv, Shapes
      <3> QED
        BY <2>3, <3>1 DEF HubInv, Waking
    <2> QED
      BY <2>1, <2>2, <2>3 DEF HubInv, Waking
  <1>9. ViewersStand'
    <2> SUFFICES ASSUME NEW v \in Viewers
                 PROVE  /\ at'[v].kind = "tab" => tab'[at'[v].n].known
                        /\ (at[v].kind = "tomb" => Asleep(at[v].n))'
      BY DEF ViewersStand
    <2>1. CASE at'[v].kind = "tab" /\ at'[v].n = p
      BY <2>1
    <2>2. CASE at'[v] = at[v] /\ (at[v].kind = "tomb" => at[v].n # i)
      <3>1. /\ at[v].kind = "tab" => at[v].n \in Pages /\ tab[at[v].n].known
            /\ at[v].kind = "tomb" => at[v].n \in Pages /\ at[v].n # i /\ Asleep(at[v].n)
        BY <2>2 DEF HubInv, Shapes, ViewersStand
      <3>2. at'[v].kind = "tab" => tab'[at'[v].n].known
        <4>1. \A q \in Pages : tab[q].known => tab'[q].known
          BY <1>0
        <4> QED
          BY <2>2, <3>1, <4>1
      <3>3. (at[v].kind = "tomb" => Asleep(at[v].n))'
        BY <1>3, <2>2, <3>1
      <3> QED
        BY <3>2, <3>3
    <2> QED
      BY <2>1, <2>2
  <1> QED
    BY <1>4, <1>5, <1>6, <1>7, <1>8, <1>9 DEF HubInv

\* Chrome reports a page: known, woken or new.
LEMMA ReportKeeps ==
  ASSUME HubInv, TypeOK', NEW p \in Pages, Report(p)  PROVE HubInv'
  <1> TypeOK
    BY DEF HubInv
  <1> USE Types, TypesNow, PageFacts DEF tombVars
  <1>0. PICK i \in Pages : i = alias[p]
    OBVIOUS
  <1>1. CASE tab[p].known
    BY <1>1, ReportKnownKeeps
  <1>2. ASSUME ~tab[p].known
        PROVE  /\ p \in news /\ cdp # "none" /\ UNCHANGED <<open, cdp>>
               /\ news' = news \ {p} /\ seen' = IF cdp = "reporting" THEN seen \cup {p} ELSE seen
               /\ remembered' \subseteq remembered \cup {i}
               /\ i \in Pages /\ byId[i] = 0 /\ \A j \in Pages : byId[j] # p
               /\ \A m \in wire : m.id # i
               /\ ~Asleep(p)
    BY <1>0, <1>2, UnknownReported DEF Report
  <1>3. CASE ~tab[p].known /\ i # p /\ tomb[i].on
    <2>1. Adopt(i, p, wire)
      BY <1>0, <1>3 DEF Report
    <2>2. /\ wire' = wire /\ tombGrace' = tombGrace \ {i}
          /\ \A j \in Pages : j # i => tomb'[j] = tomb[j]
          /\ ~tomb'[i].on /\ tomb'[i].falling = 0 /\ ~tomb'[i].waking
          /\ \A q \in Pages : q # p => tab'[q] = tab[q]
          /\ tab'[p].known /\ tab'[p].id = i
          /\ byId' = [j \in Pages |-> IF j = i THEN p
                        ELSE IF j = tab[p].id /\ byId[j] = p THEN 0 ELSE byId[j]]
          /\ alias'[p] = i /\ \A q \in Pages : q # p => alias'[q] = alias[q]
          /\ \A v \in Viewers : \/ at'[v].kind = "tab" /\ at'[v].n = p
                                \/ at'[v] = at[v] /\ ~(at[v].kind = "tomb" /\ at[v].n = i)
          /\ \A r \in reads' : \/ r \in reads /\ ~(r.who = "ended" /\ r.n = i)
                               \/ r.who = "other"
      <3>1. Shapes /\ i \in Pages /\ \A m \in wire : m.id # i
        BY <1>0, <1>2, <1>3 DEF HubInv
      <3> QED
        BY <2>1, <3>1, AdoptEffect
    <2>3. alias' = alias
      BY <1>0, <2>1 DEF Adopt
    <2>4. \A j \in Pages : Asleep(j) /\ j # i => Asleep(j)'
      BY <2>2 DEF Asleep
    <2>5. /\ \A j \in tombGrace' : Asleep(j)'
          /\ ~Asleep(i)'
          /\ \A r \in reads' : \/ r \in reads /\ (r.who = "ended" => Asleep(r.n)')
                               \/ r.who = "other"
      <3>1. \A j \in tombGrace' : Asleep(j)'
        BY <2>2, <2>4 DEF HubInv, Tombstones
      <3>2. ~Asleep(i)'
        BY <2>2 DEF Asleep
      <3>3. \A r \in reads : r.who = "ended" => r.n \in Pages /\ Asleep(r.n)
        BY DEF HubInv, Tombstones, Shapes
      <3>4. \A r \in reads' : \/ r \in reads /\ (r.who = "ended" => Asleep(r.n)')
                              \/ r.who = "other"
        BY <2>2, <2>4, <3>3
      <3> QED
        BY <3>1, <3>2, <3>4
    <2>6. byId'[i] = p /\ \A j \in Pages : j # i => byId'[j] = byId[j]
      BY <1>0, <1>2, <1>3, <2>2
    <2>7. /\ i = alias[p] /\ tab'[p].known /\ tab'[p].id = i
          /\ \A q \in Pages : q # p => tab'[q] = tab[q]
      BY <2>2, <1>0
    <2>8. /\ p \in news /\ cdp # "none" /\ UNCHANGED <<open, cdp, alias, wire>>
          /\ news' = news \ {p} /\ seen' = IF cdp = "reporting" THEN seen \cup {p} ELSE seen
          /\ remembered' \subseteq remembered \cup {i}
      BY <1>0, <1>2, <1>3, <2>2, <2>3
    <2>9. \A j \in Pages : tomb'[j] = tomb[j]
                          \/ (~tomb'[j].on /\ tomb'[j].falling = 0 /\ ~tomb'[j].waking /\ j = i)
      BY <2>2
    <2>10. \A v \in Viewers : \/ at'[v].kind = "tab" /\ at'[v].n = p
                              \/ at'[v] = at[v] /\ (at[v].kind = "tomb" => at[v].n # i)
      BY <2>2
    <2> QED
      BY ONLY HubInv, TypeOK', <1>3, <2>5, <2>6, <2>7, <2>8, <2>9, <2>10, ReportedKeeps
  <1>4. CASE ~tab[p].known /\ ~(i # p /\ tomb[i].on)
    <2>1. /\ tab' = [tab EXCEPT ![p] = [NoTab EXCEPT !.known = TRUE, !.id = i]]
          /\ byId' = [byId EXCEPT ![i] = p]
          /\ UNCHANGED <<wire, alias, tomb, tombGrace, at, reads>>
      BY <1>0, <1>4 DEF Report
    <2>2. tab'[p].known /\ tab'[p].id = i /\ \A q \in Pages : q # p => tab'[q] = tab[q]
      BY <2>1 DEF NoTab
    <2>3. byId'[i] = p /\ \A j \in Pages : j # i => byId'[j] = byId[j]
      BY <1>0, <1>2, <1>4, <2>1
    <2>4. ~Asleep(i)
      BY <1>0, <1>2, <1>4 DEF Asleep
    <2>5. \A j \in Pages : Asleep(j)' <=> Asleep(j)
      BY <2>1 DEF Asleep
    <2>6. /\ \A j \in tombGrace' : Asleep(j)'
          /\ ~Asleep(i)'
          /\ \A r \in reads' : r \in reads /\ (r.who = "ended" => Asleep(r.n)')
      <3>1. i \in Pages /\ (\A j \in tombGrace : Asleep(j))
        BY <1>0, <1>2, <1>4 DEF HubInv, Tombstones
      <3>2. \A j \in tombGrace' : Asleep(j)'
        BY <2>1, <2>5, <3>1
      <3>3. \A r \in reads : r.who = "ended" => r.n \in Pages /\ Asleep(r.n)
        BY DEF HubInv, Tombstones, Shapes
      <3>4. \A r \in reads' : r \in reads /\ (r.who = "ended" => Asleep(r.n)')
        BY <2>1, <2>5, <3>3
      <3> QED
        BY <2>4, <2>5, <3>1, <3>2, <3>4
    <2>7. \A v \in Viewers : at'[v] = at[v] /\ (at[v].kind = "tomb" => at[v].n # i)
      <3> QED
        BY <2>1, <2>4 DEF HubInv, ViewersStand
    <2>8. i = alias[p]
      BY <1>0
    <2>9. /\ p \in news /\ cdp # "none" /\ UNCHANGED <<open, cdp, alias, wire, tomb>>
          /\ news' = news \ {p} /\ seen' = IF cdp = "reporting" THEN seen \cup {p} ELSE seen
          /\ remembered' \subseteq remembered \cup {i}
      BY <1>0, <1>2, <1>4, <2>1
    <2> QED
      BY <1>4, <2>2, <2>3, <2>6, <2>7, <2>8, <2>9, ReportedKeeps
  <1> QED
    BY <1>1, <1>3, <1>4

-----------------------------------------------------------------------------
(* Pages that are gone.                                                      *)

\* What the hub makes of pages that are gone, seen from outside.  The
\* tombstones of F fell asleep with their pages, those of D were falling and
\* go: neither is the tombstone of a wake under way.
Settled(U, F, D, woken) ==
  /\ woken \subseteq F /\ (cdp # "ready" => woken = {})
  /\ wire' = wire \cup Wakes(woken)
  /\ \A p \in Pages : p \notin U => tab'[p] = tab[p]
  /\ \A p \in U : ~tab'[p].known
  /\ byId' = [i \in Pages |-> IF byId[i] \in U THEN 0 ELSE byId[i]]
  /\ alias' = [p \in Pages |-> IF p \in U THEN p ELSE alias[p]]
  /\ \A i \in Pages : i \notin F \cup D => tomb'[i] = tomb[i]
  /\ \A i \in D \cap Pages : ~tomb'[i].on /\ tomb'[i].falling = 0 /\ ~tomb'[i].waking
  /\ \A i \in F : /\ tomb'[i].on /\ tomb'[i].falling = 0
                  /\ tomb'[i].waking <=> i \in woken
  /\ \A v \in Viewers :
       \/ at'[v].kind = "tomb" /\ at'[v].n \in F
       \/ at'[v].kind = "none"
       \/ at'[v] = at[v] /\ (at[v].kind = "tab" => at[v].n \notin U)
  /\ \A r \in reads' : r \in reads \/ r.who = "other"
  /\ \A i \in tombGrace' : i \in F \/ i \in tombGrace
  /\ \A i \in tombGrace' : tomb'[i].on

\* Nothing else is touched by pages that are gone.
LEMMA SettleEffect ==
  ASSUME TypeOK, Shapes, NEW U, U \subseteq Known, NEW F, F \subseteq Pages, NEW D,
         F \cap D = {}, \A i \in F : tomb[i].on,
         \A m \in wire : m.id \notin D, Settle(U, F, D)
  PROVE  \E woken : Settled(U, F, D, woken)
  <1> USE Types, TypesNow, PageFacts
  <1> DEFINE fell == {p \in U : tab[p].id \in F /\ tomb[tab[p].id].falling = p}
             there(v) == CASE at[v].kind = "tab" /\ at[v].n \in fell ->
                                [at[v] EXCEPT !.kind = "tomb", !.n = tab[at[v].n].id]
                           [] at[v].kind = "tab" /\ at[v].n \in U \ fell -> Nowhere
                           [] at[v].kind = "tomb" /\ at[v].n \in D -> Nowhere
                           [] OTHER -> at[v]
             viewed == {i \in F : \E v \in Viewers :
                                there(v).kind = "tomb" /\ there(v).n = i /\ there(v).shown}
             woken == IF cdp = "ready" THEN viewed ELSE {}
  <1>1. /\ tab' = [p \in Pages |-> IF p \in U THEN NoTab ELSE tab[p]]
        /\ byId' = [i \in Pages |-> IF byId[i] \in U THEN 0 ELSE byId[i]]
        /\ alias' = [p \in Pages |-> IF p \in U THEN p ELSE alias[p]]
        /\ at' = [v \in Viewers |-> there(v)]
        /\ tomb' = [i \in Pages |->
                      IF i \in D THEN NoTomb
                      ELSE IF i \in F
                      THEN [tomb[i] EXCEPT !.falling = 0, !.window = TRUE, !.touched = FALSE,
                                           !.waking = i \in woken]
                      ELSE tomb[i]]
        /\ wire' = Disowned(D, wire) \cup Wakes(woken)
        /\ reads' = Orphaned(D, reads)
        /\ ReviewTombs(F)
    BY DEF Settle
  <1>2. woken \subseteq F /\ (cdp # "ready" => woken = {})
    OBVIOUS
  <1>3. \A v \in Viewers :
              \/ at'[v].kind = "tomb" /\ at'[v].n \in F
              \/ at'[v].kind = "none"
              \/ at'[v] = at[v] /\ (at[v].kind = "tab" => at[v].n \notin U)
    <2> SUFFICES ASSUME NEW v \in Viewers
                 PROVE  \/ at'[v].kind = "tomb" /\ at'[v].n \in F
                        \/ at'[v].kind = "none"
                        \/ at'[v] = at[v] /\ (at[v].kind = "tab" => at[v].n \notin U)
      OBVIOUS
    <2>0. at'[v] = there(v) /\ at[v] \in Places
      BY <1>1
    <2>1. CASE at[v].kind = "tab" /\ at[v].n \in fell
      <3>1. at'[v] = [at[v] EXCEPT !.kind = "tomb", !.n = tab[at[v].n].id]
        BY <2>0, <2>1
      <3> QED
        BY <2>0, <2>1, <3>1 DEF Places
    <2>2. CASE at[v].kind = "tab" /\ at[v].n \in U \ fell
      <3>1. at[v].n \notin fell
        BY <2>2
      <3>2. at'[v] = Nowhere
        BY <2>0, <2>2, <3>1
      <3> QED
        BY <3>2 DEF Nowhere
    <2>3. CASE at[v].kind = "tomb" /\ at[v].n \in D
      BY <2>0, <2>3 DEF Nowhere
    <2>4. CASE /\ ~(at[v].kind = "tab" /\ at[v].n \in fell)
               /\ ~(at[v].kind = "tab" /\ at[v].n \in U \ fell)
               /\ ~(at[v].kind = "tomb" /\ at[v].n \in D)
      <3>1. at'[v] = at[v]
        BY <2>0, <2>4
      <3> QED
        BY <2>4, <3>1
    <2> QED
      BY <2>1, <2>2, <2>3, <2>4
  <1> HIDE DEF woken, there, fell
  <1>4. wire' = wire \cup Wakes(woken)
    BY <1>1, DisownedNone
  <1>5. /\ \A p \in Pages : p \notin U => tab'[p] = tab[p]
        /\ \A p \in U : ~tab'[p].known
    BY <1>1 DEF NoTab, Known
  <1>6. /\ \A i \in Pages : i \notin F \cup D => tomb'[i] = tomb[i]
        /\ \A i \in D \cap Pages : ~tomb'[i].on /\ tomb'[i].falling = 0 /\ ~tomb'[i].waking
    <2>1. \A i \in D \cap Pages : tomb'[i] = NoTomb
      BY <1>1
    <2> QED
      BY <1>1, <2>1 DEF NoTomb
  <1>7. ASSUME NEW i \in F
        PROVE  tomb'[i].on /\ tomb'[i].falling = 0 /\ (tomb'[i].waking <=> i \in woken)
    <2>1. tomb[i] \in TombRecords /\ i \in Pages /\ i \notin D
      OBVIOUS
    <2> DEFINE b == i \in woken
    <2>2. tomb'[i] = [tomb[i] EXCEPT !.falling = 0, !.window = TRUE, !.touched = FALSE,
                                     !.waking = b]
      BY <1>1, <2>1
    <2>3. b \in BOOLEAN
      BY SMT
    <2> HIDE DEF b
    <2>4. tomb'[i].on = tomb[i].on /\ tomb'[i].falling = 0 /\ tomb'[i].waking = b
      BY <2>1, <2>2, <2>3 DEF TombRecords
    <2> QED
      BY <2>4 DEF b
  <1>8. \A r \in reads' : r \in reads \/ r.who = "other"
    BY <1>1, OrphanedReads
  <1>9. /\ \A i \in tombGrace' : i \in F \/ i \in tombGrace
        /\ \A i \in tombGrace' : tomb'[i].on
    BY <1>1 DEF ReviewTombs, Tombs
  <1>10. Settled(U, F, D, woken)
    BY <1>1, <1>2, <1>3, <1>4, <1>5, <1>6, <1>7, <1>8, <1>9 DEF Settled
  <1> QED
    BY ONLY <1>10

\* Pages that are gone take their ids with them, or leave them to the
\* tombstones that fell asleep.
LEMMA SettleKeeps ==
  ASSUME HubInv, TypeOK', NEW U, U \subseteq Known, U \cap (open \cup news) = {},
         NEW F, F \subseteq Pages,
         \A i \in F : tomb[i].falling # 0 /\ tomb[i].falling \notin Live \ U,
         \A i \in Pages : tomb[i].falling \in U => i \in F,
         NEW D, \A i \in D : i \in Pages /\ tomb[i].falling # 0, F \cap D = {},
         Settle(U, F, D), UNCHANGED <<open, news, remembered>>,
         \/ UNCHANGED linkVars /\ D = {}
         \/ /\ cdp = "reporting" /\ news = {} /\ cdp' = "settling" /\ seen' = {}
            /\ \A i \in Pages : tomb[i].falling # 0 => i \in F \cup D
  PROVE  HubInv'
  <1> TypeOK
    BY DEF HubInv
  <1> USE Types, TypesNow, PageFacts DEF linkVars
  <1>0. /\ \A i \in F : tomb[i].on /\ tomb[i].falling # 0 /\ ~Asleep(i)
        /\ \A i \in D : tomb[i].on /\ ~Asleep(i)
    BY DEF HubInv, Shapes, Asleep
  <1>a. \A m \in wire : m.id \notin D
    <2> SUFFICES ASSUME NEW m \in wire, m.id \in D  PROVE FALSE
      OBVIOUS
    <2>1. m.id \in Pages
      OBVIOUS
    <2>2. m.op \in WakeOps
      BY <2>1 DEF HubInv, Shapes
    <2> QED
      BY <1>0, <2>2 DEF HubInv, Waking
  <1>1. PICK woken : Settled(U, F, D, woken)
    <2>1. Shapes
      BY DEF HubInv
    <2>2. \A i \in F : tomb[i].on
      BY <1>0
    <2> QED
      BY ONLY TypeOK, <2>1, <2>2, <1>a, U \subseteq Known, F \subseteq Pages,
         F \cap D = {}, Settle(U, F, D), SettleEffect
  <1> USE DEF Settled
  <1>2. \A p \in Pages : p \in Known' <=> p \in Known /\ p \notin U
    <2>1. \A p \in Pages : tab'[p].known <=> tab[p].known /\ p \notin U
      BY <1>1
    <2> QED
      BY <2>1 DEF Known
  <1>3. /\ Known' = Known \ U /\ Known \subseteq Pages
        /\ Live' = Live \ U /\ Live \subseteq Pages
    <2>1. Known \subseteq Pages /\ Known' \subseteq Pages
      BY DEF Known
    <2>2. Known' = Known \ U
      BY ONLY <1>2, <2>1
    <2> QED
      BY <2>1, <2>2 DEF Live
  <1>4. \A i \in Pages : Asleep(i)' <=> Asleep(i) \/ i \in F
    BY <1>0, <1>1 DEF Asleep
  <1>5. /\ wire \subseteq wire'
        /\ \A m \in wire' : m \in wire \/ \E i \in woken : m = Command("wake", 0, i)
    BY <1>1 DEF Wakes
  <1>6. \A m \in wire' : m \in wire \/ (m.op = "wake" /\ m.id \in woken /\ m.mine /\ cdp = "ready")
    BY <1>1, <1>5 DEF Command
  <1>7. Shapes'
    <2>1. \A r \in reads' : r.who \in {"sleep", "unused", "ended"} => r.n \in Pages
      BY <1>1 DEF HubInv, Shapes
    <2>2. \A v \in Viewers : at'[v].kind # "none" => at'[v].n \in Pages
      BY <1>1 DEF HubInv, Shapes
    <2>3. \A p \in Pages : tab'[p].known => tab'[p].id \in Pages
      BY <1>1 DEF HubInv, Shapes
    <2>4. \A i \in Pages : ~tomb'[i].on => tomb'[i].falling = 0 /\ ~tomb'[i].waking
      BY <1>1 DEF HubInv, Shapes
    <2>5. \A m \in wire' : /\ m.mine
                           /\ m.op \in WakeOps => m.id \in Pages
                           /\ m.op # "wake" => m.page \in Pages
                           /\ m.op \notin WakeOps => m.id = 0
      BY <1>1, <1>6 DEF HubInv, Shapes, WakeOps
    <2> QED
      BY <2>1, <2>2, <2>3, <2>4, <2>5 DEF Shapes
  <1>8. Connection'
    <2>1. CASE UNCHANGED linkVars
      BY <1>1, <1>3, <1>6, <2>1 DEF HubInv, Connection
    <2>2. CASE cdp = "reporting" /\ news = {} /\ cdp' = "settling" /\ seen' = {}
      BY <1>1, <1>3, <1>6, <2>2 DEF HubInv, Connection
    <2> QED
      BY <2>1, <2>2
  <1>9. Identity'
    <2>1. \A p \in Pages : p \in Known' => tab'[p].id = tab[p].id
      BY <1>1, <1>3
    <2>2. \A p \in Pages : alias'[p] = alias[p] \/ (alias'[p] = p /\ p \notin Known')
      BY <1>1, <1>3
    <2>3. Known \ Known' = U
      BY <1>3
    <2>4. \A i \in Pages : byId'[i] = IF byId[i] \in Known \ Known' THEN 0 ELSE byId[i]
      BY <1>1, <2>3
    <2> QED
      BY ONLY HubInv, TypeOK', <1>3, <2>1, <2>2, <2>4, IdentityLess
  <1>10. Tombstones'
    <2>1. ASSUME NEW j \in Live', tomb'[j].on  PROVE tomb'[j].falling = j
      <3>1. j \in Pages /\ j \in Live /\ j \notin U /\ j \notin D
        BY <1>1, <1>3, <2>1
      <3>2. j \notin F
        BY <1>0, <3>1 DEF HubInv, Tombstones
      <3>3. tomb'[j] = tomb[j]
        BY <1>1, <3>1, <3>2
      <3> QED
        BY <2>1, <3>1, <3>3 DEF HubInv, Tombstones
    <2>2. ASSUME NEW j \in Pages, Asleep(j)'  PROVE ~Awake(j)'
      <3>1. CASE j \in F
        <4> DEFINE p == tomb[j].falling
        <4>1. /\ p \in Pages /\ p \notin Live \ U /\ alias[p] = j
              /\ \A q \in Live : alias[q] = j => q = p
          BY <3>1 DEF HubInv, Tombstones, FallOf, TombRecords
        <4>2. byId[j] # 0 => byId[j] \in Live /\ byId[j] = p
          <5> SUFFICES ASSUME byId[j] # 0  PROVE byId[j] \in Live /\ byId[j] = p
            OBVIOUS
          <5>1. byId[j] \in Known /\ tab[byId[j]].id = j
            BY DEF HubInv, Identity, Known
          <5> QED
            BY <4>1, <5>1 DEF HubInv, Identity, Live
        <4>3. byId'[j] = 0
          BY <1>1, <4>1, <4>2
        <4>4. j \notin Known'
          <5>1. j \in Live => p = j
            BY <1>0, <3>1 DEF HubInv, Tombstones
          <5> QED
            BY <1>3, <4>1, <5>1 DEF Live
        <4> QED
          BY <4>3, <4>4 DEF Awake, Target
      <3>2. CASE j \notin F
        <4>1. byId[j] = 0 /\ j \notin Live
          BY <1>4, <2>2, <3>2, AsleepAlone
        <4>2. byId'[j] = 0 /\ j \notin Known'
          BY <1>1, <1>3, <4>1 DEF Live
        <4> QED
          BY <4>2 DEF Awake, Target
      <3> QED
        BY <3>1, <3>2
    <2>3. ASSUME NEW j \in Pages, tomb'[j].falling # 0  PROVE FallOf(j, tomb[j].falling)'
      <3> DEFINE q == tomb[j].falling
      <3>1. tomb'[j] = tomb[j] /\ j \notin F \cup D
        BY <1>1, <2>3
      <3>2. FallOf(j, q) /\ q \in Pages /\ q \notin U /\ UNCHANGED linkVars
        BY <2>3, <3>1 DEF HubInv, Tombstones, TombRecords
      <3>3. alias'[q] = alias[q] /\ tab'[q] = tab[q]
        BY <1>1, <3>2
      <3>4. \A x \in Live' : alias'[x] = j => x = q
        BY <1>1, <1>3, <3>2 DEF FallOf
      <3> QED
        BY <3>1, <3>2, <3>3, <3>4 DEF FallOf
    <2>4. \A j \in tombGrace' : Asleep(j)'
      BY <1>1, <1>4 DEF HubInv, Tombstones
    <2>5. \A r \in reads' : r.who = "ended" => Asleep(r.n)'
      BY <1>1, <1>4 DEF HubInv, Tombstones, Shapes
    <2> QED
      BY <2>1, <2>2, <2>3, <2>4, <2>5 DEF Tombstones
  <1>11. Waking'
    <2>1. ASSUME NEW m \in wire', m.op \in WakeOps
          PROVE  Asleep(m.id)' /\ tomb'[m.id].waking
      <3>1. CASE m \in wire
        <4>1. m.id \in Pages /\ Asleep(m.id) /\ tomb[m.id].waking
          BY <2>1, <3>1 DEF HubInv, Waking, Shapes
        <4> QED
          BY <1>0, <1>1, <1>4, <4>1
      <3>2. CASE m.id \in woken
        BY <1>1, <1>4, <3>2
      <3> QED
        BY <1>6, <3>1, <3>2
    <2>2. ASSUME NEW m \in wire', NEW n \in wire', m.op \in WakeOps, n.op \in WakeOps,
                 m.id = n.id
          PROVE  m = n
      <3>1. CASE m \in wire /\ n \in wire
        BY <2>2, <3>1 DEF HubInv, Waking
      <3>2. \A k \in wire : k.op \in WakeOps => k.id \notin woken
        BY <1>0, <1>1 DEF HubInv, Waking
      <3>3. CASE m \notin wire /\ n \notin wire
        <4>1. PICK i \in woken : m = Command("wake", 0, i)
          BY <1>5, <3>3
        <4>2. PICK j \in woken : n = Command("wake", 0, j)
          BY <1>5, <3>3
        <4>3. m.id = i /\ n.id = j
          BY <4>1, <4>2 DEF Command
        <4> QED
          BY <2>2, <4>1, <4>2, <4>3
      <3> QED
        BY <1>6, <2>2, <3>1, <3>2, <3>3
    <2>3. ASSUME cdp' \in {"settling", "ready"}, NEW q \in news', alias'[q] # q
          PROVE  /\ Asleep(alias[q])' /\ tomb'[alias'[q]].waking
                 /\ \A n \in wire' : n.op \in WakeOps => n.id # alias'[q]
      <3>1. /\ q \in Pages /\ q \in news /\ q \notin U /\ alias'[q] = alias[q]
            /\ alias[q] \in Pages /\ cdp \in {"settling", "ready"}
        BY <1>1, <2>3
      <3>2. /\ Asleep(alias[q]) /\ tomb[alias[q]].waking
            /\ \A n \in wire : n.op \in WakeOps => n.id # alias[q]
        BY <2>3, <3>1 DEF HubInv, Waking
      <3>3. alias[q] \notin F \cup D
        BY <1>0, <3>2
      <3>4. Asleep(alias[q])' /\ tomb'[alias'[q]].waking
        BY <1>1, <1>4, <3>1, <3>2, <3>3
      <3> QED
        BY <1>1, <1>6, <3>1, <3>2, <3>3, <3>4
    <2>4. ASSUME NEW n \in wire', n.op = "woken"
          PROVE  /\ \A r \in reads' : r.who = "sleep" => r.n # n.page
                 /\ \A j \in Pages : tomb'[j].falling # n.page
      <3>1. n \in wire /\ n.page \in Pages
        BY <1>6, <2>4 DEF HubInv, Shapes
      <3>2. \A r \in reads' : r.who = "sleep" => r.n # n.page
        BY <1>1, <2>4, <3>1 DEF HubInv, Waking
      <3>3. \A j \in Pages : tomb'[j].falling # n.page
        BY <1>1, <2>4, <3>1 DEF HubInv, Waking
      <3> QED
        BY <3>2, <3>3
    <2>5. \A m \in wire' : m.op = "close" => m.page \notin news'
      BY <1>6 DEF HubInv, Waking
    <2> QED
      BY <2>1, <2>2, <2>3, <2>4, <2>5 DEF Waking
  <1>12. ViewersStand'
    <2> SUFFICES ASSUME NEW v \in Viewers
                 PROVE  /\ at'[v].kind = "tab" => tab'[at'[v].n].known
                        /\ (at[v].kind = "tomb" => Asleep(at[v].n))'
      BY DEF ViewersStand
    <2>1. CASE at'[v].kind = "tomb" /\ at'[v].n \in F
      BY <1>4, <2>1
    <2>2. CASE at'[v] = at[v] /\ (at[v].kind = "tab" => at[v].n \notin U)
      <3>1. /\ at[v].kind = "tab" => at[v].n \in Pages /\ tab[at[v].n].known
            /\ at[v].kind = "tomb" => at[v].n \in Pages /\ Asleep(at[v].n)
        BY DEF HubInv, Shapes, ViewersStand
      <3>2. at'[v].kind = "tab" => tab'[at'[v].n].known
        <4>1. \A p \in Pages : p \notin U => tab'[p] = tab[p]
          BY <1>1
        <4> QED
          BY <2>2, <3>1, <4>1
      <3>3. (at[v].kind = "tomb" => Asleep(at[v].n))'
        BY <1>4, <2>2, <3>1
      <3> QED
        BY <3>2, <3>3
    <2>3. CASE at'[v].kind = "none"
      BY <2>3
    <2> QED
      BY <1>1, <2>1, <2>2, <2>3
  <1> QED
    BY <1>7, <1>8, <1>9, <1>10, <1>11, <1>12 DEF HubInv

\* Chrome reports that a page ended.
LEMMA GoneKeeps ==
  ASSUME HubInv, TypeOK', NEW p \in Pages, Gone(p)  PROVE HubInv'
  <1> DEFINE F == {i \in Pages : tomb[i].falling = p}
  <1>1. /\ p \in Known \ (open \cup news) /\ UNCHANGED <<open, news, remembered>>
        /\ UNCHANGED linkVars /\ Settle({p}, F, {})
    BY DEF Gone
  <1>2. \A i \in F : tomb[i].falling # 0 /\ tomb[i].falling \notin Live \ {p}
    BY PageFacts
  <1>3. \A i \in Pages : tomb[i].falling \in {p} => i \in F
    OBVIOUS
  <1>4. F \subseteq Pages /\ {p} \subseteq Known /\ {p} \cap (open \cup news) = {} /\ F \cap {} = {}
    BY <1>1
  <1> HIDE DEF F
  <1> QED
    BY ONLY HubInv, TypeOK', <1>1, <1>2, <1>3, <1>4, SettleKeeps

\* Every page is reported: what did not come back is gone.
LEMMA DiscoveredKeeps ==
  ASSUME HubInv, TypeOK', Discovered  PROVE HubInv'
  <1> TypeOK
    BY DEF HubInv
  <1> USE Types, TypesNow, PageFacts
  <1> DEFINE U == Known \ seen
             F == {i \in Tombs : tomb[i].falling # 0 /\ tomb[i].falling \notin seen}
             D == {i \in Tombs : IF tomb[i].falling # 0 THEN tomb[i].falling \in seen
                                 ELSE Target(i) \in Known \ U}
  <1>1. /\ UNCHANGED <<open, news, remembered>> /\ Settle(U, F, D)
        /\ cdp = "reporting" /\ news = {} /\ cdp' = "settling" /\ seen' = {}
    BY DEF Discovered
  <1>2. open \subseteq seen /\ U \cap (open \cup news) = {}
    BY <1>1 DEF HubInv, Connection
  <1>3. ASSUME NEW i \in F  PROVE tomb[i].falling # 0 /\ tomb[i].falling \notin Live \ U
    BY <1>1, <1>2 DEF Tombs, Live
  <1>4. ASSUME NEW i \in Pages, tomb[i].falling \in U  PROVE i \in F
    BY <1>4 DEF Tombs, Known, HubInv, Shapes
  <1>5. ASSUME NEW i \in D  PROVE i \in Pages /\ tomb[i].falling # 0
    BY DEF Tombs, HubInv, Tombstones, Asleep, Awake
  <1>6. F \cap D = {} /\ F \subseteq Pages /\ U \subseteq Known
    BY DEF Tombs
  <1>7. \A i \in Pages : tomb[i].falling # 0 => i \in F \cup D
    BY DEF Tombs, HubInv, Shapes
  <1> HIDE DEF U, F, D
  <1> QED
    BY ONLY HubInv, TypeOK', <1>1, <1>2, <1>3, <1>4, <1>5, <1>6, <1>7, SettleKeeps

-----------------------------------------------------------------------------
(* The connection that drops and is ready again.                             *)

\* The connection drops: the tabs no viewer is on are forgotten, and every
\* command and answer with it; the tombstones stay.
LEMMA LostKeeps ==
  ASSUME HubInv, TypeOK', Lost  PROVE HubInv'
  <1> TypeOK
    BY DEF HubInv
  <1> USE Types, TypesNow, PageFacts
  <1> DEFINE left == {p \in Known : Watching(p) = {}}
             broken == {m.id : m \in {w \in wire : w.op \in {"wake", "woken"} /\ w.mine}}
  <1>1. /\ UNCHANGED <<open, alias, at, remembered>>
        /\ cdp' = "none" /\ seen' = {} /\ news' = {} /\ wire' = {}
        /\ tab' = [p \in Pages |->
                     IF p \in left THEN NoTab ELSE [tab[p] EXCEPT !.fall = FALSE]]
        /\ byId' = [i \in Pages |-> IF byId[i] \in left THEN 0 ELSE byId[i]]
        /\ tomb' = [i \in Pages |->
                      IF i \in broken
                      THEN [tomb[i] EXCEPT !.waking = FALSE, !.retry = Waiting(i) # {}]
                      ELSE tomb[i]]
        /\ reads' = {[r EXCEPT !.stale = (r.who = "sleep" /\ r.n \in left) \/ @] : r \in reads}
        /\ ReviewTombs(broken)
    BY DEF Lost
  <1>2. \A v \in Viewers : at[v].kind = "tab" => at[v].n \notin left
    BY DEF Watching
  <1> HIDE DEF left, broken
  <1>3. left \subseteq Known /\ Known \subseteq Pages
    BY DEF left, Known
  <1>4. \A p \in Pages : /\ p \in left => ~tab'[p].known
                         /\ p \notin left => tab'[p].known = tab[p].known /\ tab'[p].id = tab[p].id
    <2> SUFFICES ASSUME NEW p \in Pages
                 PROVE  /\ p \in left => ~tab'[p].known
                        /\ p \notin left => tab'[p].known = tab[p].known /\ tab'[p].id = tab[p].id
      OBVIOUS
    <2>1. tab[p] \in TabRecords
      OBVIOUS
    <2> QED
      BY <1>1, <2>1 DEF NoTab, TabRecords
  <1>5. Known' = Known \ left /\ Live' \subseteq Live
    <2>1. \A p \in Pages : p \in Known' <=> p \in Known /\ p \notin left
      BY <1>4 DEF Known
    <2>2. Known' \subseteq Pages
      BY DEF Known
    <2>3. Known' = Known \ left
      BY ONLY <1>3, <2>1, <2>2
    <2> QED
      BY <1>1, <2>3 DEF Live
  <1>6. \A i \in Pages : /\ tomb'[i].on = tomb[i].on /\ tomb'[i].falling = tomb[i].falling
                         /\ tomb'[i].waking => tomb[i].waking
    <2> SUFFICES ASSUME NEW i \in Pages
                 PROVE  /\ tomb'[i].on = tomb[i].on /\ tomb'[i].falling = tomb[i].falling
                        /\ tomb'[i].waking => tomb[i].waking
      OBVIOUS
    <2>1. tomb[i] \in TombRecords
      OBVIOUS
    <2>2. CASE i \in broken
      <3>1. tomb'[i] = [tomb[i] EXCEPT !.waking = FALSE, !.retry = Waiting(i) # {}]
        BY <1>1, <2>2
      <3> QED
        BY <2>1, <3>1 DEF TombRecords
    <2>3. CASE i \notin broken
      BY <1>1, <2>3
    <2> QED
      BY <2>2, <2>3
  <1>7. \A i \in Pages : Asleep(i)' <=> Asleep(i)
    BY <1>6 DEF Asleep
  <1>8. \A r \in reads' : \E q \in reads : r.who = q.who /\ r.n = q.n
    <2> SUFFICES ASSUME NEW r \in reads'  PROVE \E q \in reads : r.who = q.who /\ r.n = q.n
      OBVIOUS
    <2>1. PICK q \in reads : r = [q EXCEPT !.stale = (q.who = "sleep" /\ q.n \in left) \/ @]
      BY <1>1
    <2>2. q \in Readings
      OBVIOUS
    <2>3. r.who = q.who /\ r.n = q.n
      BY ONLY <2>1, <2>2 DEF Readings
    <2> QED
      BY <2>3
  <1>9. Shapes'
    <2>1. \A r \in reads' : r.who \in {"sleep", "unused", "ended"} => r.n \in Pages
      BY <1>8 DEF HubInv, Shapes
    <2>2. \A p \in Pages : tab'[p].known => tab'[p].id \in Pages
      BY <1>4 DEF HubInv, Shapes
    <2>3. \A i \in Pages : ~tomb'[i].on => tomb'[i].falling = 0 /\ ~tomb'[i].waking
      BY <1>6 DEF HubInv, Shapes
    <2> QED
      BY <1>1, <2>1, <2>2, <2>3 DEF HubInv, Shapes
  <1>10. Connection'
    BY <1>1 DEF Connection
  <1>11. Identity'
    <2>1. \A p \in Pages : p \in Known' => tab'[p].id = tab[p].id
      BY <1>4, <1>5
    <2>2. Known \ Known' = left /\ Known' \subseteq Known
      BY <1>3, <1>5
    <2>3. \A i \in Pages : byId'[i] = IF byId[i] \in Known \ Known' THEN 0 ELSE byId[i]
      BY <1>1, <2>2
    <2>4. \A p \in Pages : alias'[p] = alias[p]
      BY <1>1
    <2> QED
      BY ONLY HubInv, TypeOK', <1>5, <2>1, <2>2, <2>3, <2>4, IdentityLess
  <1>12. Tombstones'
    <2>1. \A j \in Live' : tomb'[j].on => tomb'[j].falling = j
      BY <1>5, <1>6 DEF HubInv, Tombstones, Live, Known
    <2>2. ASSUME NEW j \in Pages, Asleep(j)'  PROVE ~Awake(j)'
      <3>1. byId[j] = 0 /\ j \notin Live
        BY <1>7, <2>2, AsleepAlone
      <3>2. byId'[j] = 0 /\ j \notin Known'
        BY <1>1, <1>3, <1>5, <3>1 DEF Live
      <3> QED
        BY <3>2 DEF Awake, Target
    <2>3. ASSUME NEW j \in Pages, tomb'[j].falling # 0  PROVE FallOf(j, tomb[j].falling)'
      <3> DEFINE q == tomb[j].falling
      <3>1. tomb'[j].falling = q /\ FallOf(j, q)
        BY <1>6, <2>3 DEF HubInv, Tombstones
      <3> HIDE DEF q
      <3>2. \A x \in Live' : alias'[x] = j => x = q
        BY <1>1, <1>5, <3>1 DEF FallOf
      <3> QED
        BY <1>1, <3>1, <3>2 DEF FallOf
    <2>4. \A j \in tombGrace' : Asleep(j)'
      BY <1>1, <1>7, ReviewedAsleep
    <2>5. \A r \in reads' : r.who = "ended" => Asleep(r.n)'
      BY <1>7, <1>8 DEF HubInv, Tombstones, Shapes
    <2> QED
      BY <2>1, <2>2, <2>3, <2>4, <2>5 DEF Tombstones
  <1>13. Waking'
    BY <1>1 DEF Waking
  <1>14. ViewersStand'
    <2> SUFFICES ASSUME NEW v \in Viewers
                 PROVE  /\ at'[v].kind = "tab" => tab'[at'[v].n].known
                        /\ (at[v].kind = "tomb" => Asleep(at[v].n))'
      BY DEF ViewersStand
    <2>1. /\ at[v].kind = "tab" => at[v].n \in Pages /\ tab[at[v].n].known
          /\ at[v].kind = "tomb" => at[v].n \in Pages /\ Asleep(at[v].n)
      BY DEF HubInv, Shapes, ViewersStand
    <2>2. at'[v] = at[v]
      BY <1>1
    <2>3. (at[v].kind = "tomb" => Asleep(at[v].n))'
      BY <1>7, <2>1, <2>2
    <2>4. at'[v].kind = "tab" => tab'[at'[v].n].known
      BY <1>2, <1>4, <2>1, <2>2
    <2> QED
      BY <2>3, <2>4
  <1> QED
    BY <1>9, <1>10, <1>11, <1>12, <1>13, <1>14 DEF HubInv

\* The hub is ready: no wake is under way, and every page it was told of is
\* known.
LEMMA ReadiedKeeps ==
  ASSUME HubInv, TypeOK', NEW called, Readied(called), NEW I, ReviewTombs(I)
  PROVE  HubInv'
  <1> TypeOK
    BY DEF HubInv
  <1> USE Types, TypesNow, PageFacts
  <1> DEFINE ending == {i \in Pages : closing[i] = "due" /\ Asleep(i)}
             ended == {i \in Pages : closing[i] = "due" /\ ~Asleep(i) /\ Awake(i)}
             woken == {i \in Pages \ ending : Asleep(i) /\ ~tomb[i].waking /\ Shown(Waiting(i))}
  <1>1. /\ cdp = "settling" /\ cdp' = "ready"
        /\ tomb' = [i \in Pages |->
                      IF closing[i] = "due" THEN NoTomb
                      ELSE IF i \in woken THEN [Woke(i) EXCEPT !.window = @ /\ i \notin called]
                      ELSE [tomb[i] EXCEPT !.window = @ /\ i \notin called]]
        /\ alias' = [p \in Pages |->
                       IF alias[p] \in ending /\ p \notin Known THEN p ELSE alias[p]]
        /\ at' = [v \in Viewers |->
                    IF at[v].kind = "tomb" /\ at[v].n \in ending THEN Nowhere ELSE at[v]]
        /\ reads' = Orphaned(ending, reads)
        /\ wire' = Disowned(ending, wire) \cup Wakes(woken)
                     \cup {Command("end", Target(i), 0) : i \in ended}
        /\ UNCHANGED <<open, news, seen, tab, byId, remembered>>
    BY DEF Readied
  <1>2. /\ \A i \in ending : Asleep(i) /\ i \in Pages
        /\ \A i \in woken : Asleep(i) /\ ~tomb[i].waking /\ i \in Pages /\ i \notin ending
        /\ \A i \in Pages : i \in ending <=> closing[i] = "due" /\ Asleep(i)
        /\ ended \subseteq Pages
    OBVIOUS
  <1> HIDE DEF ending, ended, woken
  <1>3. /\ seen = {} /\ open \subseteq Known \cup news /\ Known \subseteq Pages
        /\ news \cap (Known \cup remembered) = {}
        /\ \A m \in wire : m.op \notin WakeOps /\ m.id = 0
        /\ \A i \in Pages : tomb[i].falling # 0 =>
             tomb[i].on /\ tomb[i].falling \in Known /\ FallOf(i, tomb[i].falling)
    <2>1. ASSUME NEW i \in Pages, tomb[i].falling # 0
          PROVE  tomb[i].on /\ tomb[i].falling \in Known /\ FallOf(i, tomb[i].falling)
      <3>1. tomb[i].falling \in Pages
        BY <2>1 DEF TombRecords
      <3> QED
        BY <1>1, <2>1, <3>1 DEF HubInv, Shapes, Tombstones, FallOf, Known
    <2> QED
      BY <1>1, <2>1 DEF HubInv, Connection, Shapes, Known
  <1>4. wire' = wire \cup Wakes(woken) \cup {Command("end", Target(i), 0) : i \in ended}
    <2>1. \A m \in wire : m.id \notin ending
      BY <1>2, <1>3
    <2> QED
      BY <1>1, <2>1, DisownedNone
  <1>5. \A m \in wire' : \/ m \in wire
                         \/ \E i \in woken : m = Command("wake", 0, i)
                         \/ \E p \in Pages : m = Command("end", p, 0)
    BY <1>2, <1>4, TargetType DEF Wakes
  <1>6. \A m \in wire' : /\ m.op \in WakeOps => \E i \in woken : m = Command("wake", 0, i)
                         /\ m.op = "close" => m \in wire
    BY <1>3, <1>5 DEF Command, WakeOps
  <1>7. /\ Known' = Known /\ Live' = Live
        /\ \A i \in Pages : Awake(i)' <=> Awake(i)
    BY <1>1 DEF Known, Live, Awake, Target
  <1>8. \A i \in Pages :
          /\ closing[i] = "due" => ~tomb'[i].on /\ ~tomb'[i].waking /\ tomb'[i].falling = 0
          /\ closing[i] # "due" => /\ tomb'[i].on <=> tomb[i].on
                                  /\ tomb'[i].falling = tomb[i].falling
                                  /\ (tomb'[i].waking <=> tomb[i].waking \/ i \in woken)
          /\ i \in woken => closing[i] # "due"
    <2> SUFFICES ASSUME NEW i \in Pages
        PROVE  /\ closing[i] = "due" => ~tomb'[i].on /\ ~tomb'[i].waking /\ tomb'[i].falling = 0
               /\ closing[i] # "due" => /\ tomb'[i].on <=> tomb[i].on
                                       /\ tomb'[i].falling = tomb[i].falling
                                       /\ (tomb'[i].waking <=> tomb[i].waking \/ i \in woken)
               /\ i \in woken => closing[i] # "due"
      OBVIOUS
    <2>1. tomb[i] \in TombRecords /\ (i \in woken => closing[i] # "due")
      BY <1>2
    <2> DEFINE b == tomb[i].window /\ i \notin called
    <2>2. b \in BOOLEAN
      BY <2>1, SMT DEF TombRecords
    <2>3. CASE closing[i] = "due"
      <3>1. tomb'[i] = NoTomb
        BY <1>1, <2>3
      <3>2. ~NoTomb.on /\ ~NoTomb.waking /\ NoTomb.falling = 0
        BY ONLY DEF NoTomb
      <3>3. ~tomb'[i].on /\ ~tomb'[i].waking /\ tomb'[i].falling = 0
        BY ONLY <3>1, <3>2
      <3> QED
        BY ONLY <2>1, <2>3, <3>3
    <2>4. CASE closing[i] # "due" /\ i \in woken
      <3>1. tomb'[i] = [Woke(i) EXCEPT !.window = Woke(i).window /\ i \notin called]
        BY <1>1, <2>4
      <3>2. Woke(i) = [tomb[i] EXCEPT !.waking = TRUE, !.retry = FALSE]
        BY DEF Woke
      <3>3. /\ Woke(i) \in TombRecords /\ Woke(i).on = tomb[i].on /\ Woke(i).waking
            /\ Woke(i).falling = tomb[i].falling
        BY <2>1, <3>2 DEF TombRecords
      <3> DEFINE c == Woke(i).window /\ i \notin called
                 w == Woke(i)
      <3>4. tomb'[i] = [w EXCEPT !.window = c] /\ w \in TombRecords
        BY <3>1, <3>3
      <3> HIDE DEF c, w
      <3>5. tomb'[i].on = w.on /\ tomb'[i].waking = w.waking /\ tomb'[i].falling = w.falling
        BY <3>4 DEF TombRecords
      <3> QED
        BY <2>1, <2>4, <3>3, <3>5 DEF w
    <2>5. CASE closing[i] # "due" /\ i \notin woken
      <3>1. tomb'[i] = [tomb[i] EXCEPT !.window = b]
        BY <1>1, <2>5
      <3> HIDE DEF b
      <3>2. /\ tomb'[i].on = tomb[i].on /\ tomb'[i].waking = tomb[i].waking
            /\ tomb'[i].falling = tomb[i].falling
        BY <2>1, <3>1 DEF TombRecords
      <3> QED
        BY <2>5, <3>2
    <2> QED
      BY <2>3, <2>4, <2>5
  <1>9. \A i \in Pages : Asleep(i)' <=> Asleep(i) /\ i \notin ending
    <2> SUFFICES ASSUME NEW i \in Pages
                 PROVE  Asleep(i)' <=> Asleep(i) /\ i \notin ending
      OBVIOUS
    <2>1. CASE closing[i] = "due"
      <3>1. ~Asleep(i)'
        BY <1>8, <2>1 DEF Asleep
      <3>2. Asleep(i) => i \in ending
        BY <1>2, <2>1
      <3> QED
        BY ONLY <3>1, <3>2
    <2>2. CASE closing[i] # "due"
      <3>1. (tomb'[i].on <=> tomb[i].on) /\ tomb'[i].falling = tomb[i].falling
        BY <1>8, <2>2
      <3>2. i \notin ending
        BY <1>2, <2>2
      <3>3. Asleep(i)' <=> Asleep(i)
        BY ONLY <3>1 DEF Asleep
      <3> QED
        BY ONLY <3>2, <3>3
    <2> QED
      BY <2>1, <2>2
  <1>10. \A r \in reads' : \/ r \in reads /\ ~(r.who = "ended" /\ r.n \in ending)
                           \/ r.who = "other"
    BY <1>1, OrphanedReads
  <1>11. Shapes'
    <2>1. \A r \in reads' : r.who \in {"sleep", "unused", "ended"} => r.n \in Pages
      BY <1>10 DEF HubInv, Shapes
    <2>2. \A v \in Viewers : at'[v].kind # "none" => at'[v].n \in Pages
      BY <1>1 DEF HubInv, Shapes, Nowhere
    <2>3. \A p \in Pages : tab'[p].known => tab'[p].id \in Pages
      BY <1>1 DEF HubInv, Shapes
    <2>4. ASSUME NEW i \in Pages, ~tomb'[i].on  PROVE tomb'[i].falling = 0 /\ ~tomb'[i].waking
      <3>1. CASE closing[i] = "due"
        BY <1>8, <3>1
      <3>2. CASE closing[i] # "due"
        <4>1. (tomb'[i].on <=> tomb[i].on) /\ tomb'[i].falling = tomb[i].falling
          BY <1>8, <3>2
        <4>2. tomb[i].falling = 0 /\ ~tomb[i].waking /\ i \notin woken
          BY <1>2, <2>4, <4>1 DEF HubInv, Shapes, Asleep
        <4>3. ~tomb'[i].waking
          BY <1>8, <3>2, <4>2
        <4> QED
          BY <4>1, <4>2, <4>3
      <3> QED
        BY <3>1, <3>2
    <2>5. \A m \in wire' : /\ m.mine
                           /\ m.op \in WakeOps => m.id \in Pages
                           /\ m.op # "wake" => m.page \in Pages
                           /\ m.op \notin WakeOps => m.id = 0
      <3> SUFFICES ASSUME NEW m \in wire'
                   PROVE  /\ m.mine
                          /\ m.op \in WakeOps => m.id \in Pages
                          /\ m.op # "wake" => m.page \in Pages
                          /\ m.op \notin WakeOps => m.id = 0
        OBVIOUS
      <3>1. CASE m \in wire
        BY <3>1 DEF HubInv, Shapes
      <3>2. CASE \E i \in woken : m = Command("wake", 0, i)
        BY <1>2, <3>2 DEF Command, WakeOps
      <3>3. CASE \E p \in Pages : m = Command("end", p, 0)
        BY <3>3 DEF Command, WakeOps
      <3> QED
        BY <1>5, <3>1, <3>2, <3>3
    <2> QED
      BY <2>1, <2>2, <2>3, <2>4, <2>5 DEF Shapes
  <1>12. Connection'
    BY <1>1, <1>3, <1>7 DEF HubInv, Connection
  <1>13. Identity'
    <2>1. \A p \in Pages : p \in Known' => tab'[p].id = tab[p].id
      BY <1>1
    <2>2. \A p \in Pages : alias'[p] = alias[p] \/ (alias'[p] = p /\ p \notin Known')
      BY <1>1, <1>7
    <2>3. \A i \in Pages : byId'[i] = IF byId[i] \in Known \ Known' THEN 0 ELSE byId[i]
      BY <1>1, <1>7
    <2>4. Live' \subseteq Live /\ Known' \subseteq Known
      BY <1>7
    <2> QED
      BY ONLY HubInv, TypeOK', <2>1, <2>2, <2>3, <2>4, IdentityLess
  <1>14. Tombstones'
    <2>1. \A j \in Live' : tomb'[j].on => tomb'[j].falling = j
      <3> SUFFICES ASSUME NEW j \in Live', tomb'[j].on  PROVE tomb'[j].falling = j
        OBVIOUS
      <3>1. j \in Pages /\ j \in Live
        BY <1>7 DEF Live, Known
      <3>2. closing[j] # "due"
        BY <1>8, <3>1
      <3>3. (tomb'[j].on <=> tomb[j].on) /\ tomb'[j].falling = tomb[j].falling
        BY <1>8, <3>1, <3>2
      <3> QED
        BY <3>1, <3>3 DEF HubInv, Tombstones
    <2>2. \A j \in Pages : Asleep(j)' => ~Awake(j)'
      BY <1>7, <1>9 DEF HubInv, Tombstones
    <2>3. ASSUME NEW j \in Pages, tomb'[j].falling # 0  PROVE FallOf(j, tomb[j].falling)'
      <3> DEFINE q == tomb[j].falling
      <3>0. closing[j] # "due"
        BY <1>8, <2>3
      <3>1. tomb'[j].falling = q /\ tomb[j].on /\ q \in Known /\ FallOf(j, q)
        <4>1. tomb'[j].falling = tomb[j].falling
          BY <1>8, <3>0
        <4> QED
          BY <1>3, <2>3, <4>1
      <3>2. j \in Live => q = j
        BY <3>1 DEF HubInv, Tombstones
      <3> HIDE DEF q
      <3>3. alias'[q] = j /\ tab'[q].known
        BY <1>1, <1>3, <3>1 DEF FallOf, Known
      <3>4. ASSUME NEW x \in Live', alias'[x] = j  PROVE x = q
        <4>1. x \in Live /\ x \in Pages
          BY <1>7 DEF Live, Known
        <4>2. alias'[x] = alias[x] \/ alias'[x] = x
          BY <1>1, <4>1
        <4> QED
          BY <3>1, <3>2, <3>4, <4>1, <4>2 DEF FallOf
      <3> QED
        BY <1>1, <3>1, <3>3, <3>4 DEF FallOf
    <2>4. \A j \in tombGrace' : Asleep(j)'
      <3>1. \A j \in tombGrace' : j \in Tombs' /\ (Unwanted(j)' \/ j \in tombGrace)
        BY DEF ReviewTombs
      <3>2. \A j \in Tombs' : j \in Pages /\ j \notin ending
        BY <1>2, <1>8 DEF Tombs
      <3>3. \A j \in tombGrace : Asleep(j)
        BY DEF HubInv, Tombstones
      <3>4. \A j \in Pages : Unwanted(j)' => Asleep(j)'
        BY DEF Unwanted
      <3> QED
        BY <1>9, <3>1, <3>2, <3>3, <3>4
    <2>5. \A r \in reads' : r.who = "ended" => Asleep(r.n)'
      BY <1>9, <1>10 DEF HubInv, Tombstones, Shapes
    <2> QED
      BY <2>1, <2>2, <2>3, <2>4, <2>5 DEF Tombstones
  <1>15. Waking'
    <2>1. \A m \in wire' : m.op \in WakeOps => \E i \in woken : m = Command("wake", 0, i)
      BY <1>6 DEF WakeOps
    <2>2. \A m \in wire' : m.op \in WakeOps => Asleep(m.id)' /\ tomb'[m.id].waking
      <3> SUFFICES ASSUME NEW m \in wire', NEW i \in woken, m = Command("wake", 0, i)
                   PROVE  Asleep(m.id)' /\ tomb'[m.id].waking
        BY <2>1
      <3>1. m.id = i
        BY DEF Command
      <3> QED
        BY <1>2, <1>8, <1>9, <3>1
    <2>3. ASSUME NEW m \in wire', NEW n \in wire', m.op \in WakeOps, n.op \in WakeOps, m.id = n.id
          PROVE  m = n
      <3>1. PICK i \in woken : m = Command("wake", 0, i)
        BY <2>1, <2>3
      <3>2. PICK j \in woken : n = Command("wake", 0, j)
        BY <2>1, <2>3
      <3>3. m.id = i /\ n.id = j
        BY <3>1, <3>2 DEF Command
      <3> QED
        BY <2>3, <3>1, <3>2, <3>3
    <2>4. \A m \in wire' : m.op # "woken"
      BY <2>1 DEF Command, WakeOps
    <2>5. \A m \in wire' : m.op = "close" => m.page \notin news'
      BY <1>1, <1>6 DEF HubInv, Waking
    <2>6. ASSUME NEW q \in news', alias'[q] # q
          PROVE  /\ Asleep(alias[q])' /\ tomb'[alias'[q]].waking
                 /\ \A m \in wire' : m.op \in WakeOps => m.id # alias'[q]
      <3>1. q \in Pages /\ q \in news /\ alias'[q] = alias[q] /\ alias[q] \in Pages
        BY <1>1, <2>6
      <3>2. Asleep(alias[q]) /\ tomb[alias[q]].waking
        BY <1>1, <2>6, <3>1 DEF HubInv, Waking
      <3>3. alias[q] \notin ending
        BY <1>1, <1>3, <2>6, <3>1
      <3>4. closing[alias[q]] # "due"
        BY <1>2, <3>1, <3>2, <3>3
      <3>5. alias[q] \notin woken
        BY <1>2, <3>2
      <3>6. \A m \in wire' : m.op \in WakeOps => m.id # alias[q]
        BY <2>1, <3>5 DEF Command
      <3> QED
        BY <1>8, <1>9, <3>1, <3>2, <3>3, <3>4, <3>6
    <2> QED
      BY <2>2, <2>3, <2>4, <2>5, <2>6 DEF Waking
  <1>16. ViewersStand'
    <2> SUFFICES ASSUME NEW v \in Viewers
                 PROVE  /\ at'[v].kind = "tab" => tab'[at'[v].n].known
                        /\ (at[v].kind = "tomb" => Asleep(at[v].n))'
      BY DEF ViewersStand
    <2>1. /\ at[v].kind = "tab" => at[v].n \in Pages /\ tab[at[v].n].known
          /\ at[v].kind = "tomb" => at[v].n \in Pages /\ Asleep(at[v].n)
      BY DEF HubInv, Shapes, ViewersStand
    <2> QED
      BY <1>1, <1>9, <2>1 DEF Nowhere
  <1> QED
    BY <1>11, <1>12, <1>13, <1>14, <1>15, <1>16 DEF HubInv

-----------------------------------------------------------------------------
(* The invariant holds.                                                      *)

\* The hub starts without a tab.
LEMMA InitInv == Init => HubInv
  <1> SUFFICES ASSUME Init  PROVE HubInv
    OBVIOUS
  <1> USE PageFacts
  <1>1. TypeOK
    BY InitType
  <1>2. /\ news = {} /\ wire = {} /\ seen = {} /\ cdp = "none" /\ reads = {} /\ tombGrace = {}
        /\ \A p \in Pages : ~tab[p].known /\ byId[p] = 0 /\ alias[p] = p
        /\ \A i \in Pages : ~tomb[i].on /\ tomb[i].falling = 0 /\ ~tomb[i].waking
        /\ \A v \in Viewers : at[v].kind = "none"
    BY DEF Init, NoTab, NoTomb, Nowhere
  <1>3. Known = {} /\ Live \subseteq Pages
    BY <1>1, <1>2, TypesNow DEF Known, Live
  <1>4. Shapes /\ Connection /\ Waking /\ ViewersStand
    BY <1>2 DEF Shapes, Connection, Waking, ViewersStand
  <1>5. Identity /\ Tombstones
    BY <1>2, <1>3 DEF Identity, OneIdOnePage, Tombstones, Asleep
  <1> QED
    BY <1>1, <1>4, <1>5 DEF HubInv

LEMMA OutsideKeeps ==
  ASSUME HubInv, TypeOK', Outside  PROVE HubInv'
  <1> USE PageFacts
  <1>1. ASSUME NEW p \in Pages, PageEnds(p) \/ AgentComes(p) \/ AgentLeaves(p)  PROVE HubInv'
    BY <1>1, PageEndsKeeps, QuietOutside, QuietKeeps
  <1>2. ASSUME NEW i \in Links,
               HolderChanges(i) \/ CloseForEveryone(i) \/ Restore(i) \/ WakeTab(i)
        PROVE  HubInv'
    BY <1>2, QuietOutside, QuietKeeps
  <1>3. ASSUME NEW v \in Viewers, NEW i \in Links, NEW shown \in BOOLEAN, Attach(v, i, shown)
        PROVE  HubInv'
    BY <1>3, QuietOutside, QuietKeeps
  <1>4. ASSUME NEW v \in Viewers, Detach(v) \/ Visible(v)  PROVE HubInv'
    BY <1>4, QuietOutside, QuietKeeps
  <1>5. ASSUME NEW p \in Pages, CheckStarts(p)  PROVE HubInv'
    BY <1>5, QuietOutside, QuietKeeps
  <1>6. ASSUME NEW m \in wire, PageObjects(m)  PROVE HubInv'
    BY <1>6, FellKeeps DEF PageObjects
  <1> QED
    BY <1>1, <1>2, <1>3, <1>4, <1>5, <1>6 DEF Outside

LEMMA FaultsKeep ==
  ASSUME HubInv, TypeOK', Faults  PROVE HubInv'
  <1>1. CASE Lost
    BY <1>1, LostKeeps
  <1>2. CASE ReadyBlind
    BY <1>2, ReadiedKeeps DEF ReadyBlind
  <1>3. ASSUME NEW r \in reads, ReadFails(r)  PROVE HubInv'
    BY <1>3, QuietReading, QuietKeeps
  <1>4. ASSUME NEW m \in wire, WakeFails(m)  PROVE HubInv'
    BY <1>4, QuietTimers, QuietKeeps
  <1> QED
    BY <1>1, <1>2, <1>3, <1>4 DEF Faults

LEMMA ReadsKeep ==
  ASSUME HubInv, TypeOK', Reads  PROVE HubInv'
  <1>1. ASSUME NEW r \in reads, RefreshEnds(r) \/ OtherReadEnds(r) \/ CloseIfUnused(r)
        PROVE  HubInv'
    BY <1>1, QuietReading, QuietKeeps
  <1> QED
    BY <1>1, EndSleeperKeeps, CheckEndsKeeps DEF Reads

\* FinishClose and FallTimeout are the steps that need Chrome to answer in time.
LEMMA TimersKeep ==
  ASSUME HubInv, TypeOK', ~SlowChrome, Timers  PROVE HubInv'
  <1>1. ASSUME NEW p \in Pages,
               GraceEnds(p) \/ TombGraceEnds(p) \/ WakeGivesUp(p) \/ WakeRetry(p) \/ WindowCloses(p)
        PROVE  HubInv'
    BY <1>1, QuietTimers, QuietKeeps
  <1>2. ASSUME NEW m \in wire, FallTimeout(m)  PROVE HubInv'
    BY <1>2, FellKeeps DEF FallTimeout
  <1> QED
    BY <1>1, <1>2, FinishCloseKeeps DEF Timers

LEMMA LinkKeeps ==
  ASSUME HubInv, TypeOK', Link  PROVE HubInv'
  <1>1. CASE Ready
    BY <1>1, ReadiedKeeps DEF Ready
  <1> QED
    BY <1>1, ConnectKeeps, DiscoveredKeeps, ReportKeeps, GoneKeeps DEF Link

LEMMA ChromeKeeps ==
  ASSUME HubInv, TypeOK', Chrome  PROVE HubInv'
  BY PageClosesKeeps, WokenKnownKeeps, WokenNewKeeps, PageWakesKeeps, LateCloseKeeps,
     LateOpensKeeps DEF Chrome

\* Every step keeps the invariant, if Chrome is in time.
LEMMA NextInv ==
  ASSUME ~SlowChrome  PROVE HubInv /\ [Next]_vars => HubInv'
  <1> SUFFICES ASSUME HubInv, [Next]_vars  PROVE HubInv'
    OBVIOUS
  <1>1. TypeOK'
    <2>1. TypeOK /\ Addressed
      BY DEF HubInv, Shapes, Addressed, Named, Directed
    <2> QED
      BY <2>1, NextType
  <1>2. CASE UNCHANGED vars
    <2>1. Quiet
      BY <1>2 DEF vars, chromeVars, fileVars, linkVars, tabVars, tombVars, readVars, countVars,
                  Quiet, QuietTombs, QuietWire, QuietReads, QuietViewers, HubInv, Shapes,
                  Tombstones, ViewersStand, Asleep
    <2> QED
      BY <1>1, <2>1, QuietKeeps
  <1>3. CASE Files
    BY <1>1, <1>3, QuietFiles, QuietKeeps
  <1> QED
    BY <1>1, <1>2, <1>3, OutsideKeeps, FaultsKeep, ReadsKeep, TimersKeep, LinkKeeps, ChromeKeeps
    DEF Next

\* The inductive invariant holds throughout: sleeping, tabs, byId and the
\* viewers of the hub, with what Chrome was asked and has yet to report.
THEOREM InvariantHolds == ASSUME ~SlowChrome  PROVE Spec => []HubInv
  <1>1. HubInv /\ [Next]_vars => HubInv'
    BY NextInv
  <1> QED
    BY InitInv, <1>1, PTL DEF Spec

\* What the maps of the hub say of a tab agrees: an id names one page, a tab
\* is asleep or awake, and every viewer stands on what is there, through falls,
\* wakes, graces, closes and drops of the connection.
THEOREM TabsAlwaysAgree == ASSUME ~SlowChrome  PROVE Spec => []TabsAgree
  <1>1. HubInv => TabsAgree
    BY DEF HubInv, TabsAgree, Identity, Tombstones, AsleepOrAwake
  <1> QED
    BY InvariantHolds, <1>1, PTL

-----------------------------------------------------------------------------
(* What a tombstone goes for.                                                *)

\* The tab is awake, closed for everyone, or held by no strip and awaited by
\* nobody.
MayGo(i) ==
  \/ Awake(i)' \/ closing[i] # "no"
  \/ i \notin look'.strips /\ Waiting(i) = {}

\* What fell under the id is closed for everyone or awake under it, with its
\* fall answered or its page found by a discovery.
Answered(i) ==
  LET p == tomb[i].falling IN
  \/ p = 0 \/ closing[i] # "no"
  \/ /\ tab'[p].known /\ Target(i)' = p
     /\ ~tab'[p].fall \/ p \in seen \cup seen'
Kept == \A i \in Tombs \ Tombs' : MayGo(i) /\ Answered(i)

\* A step that removes no tombstone.
LEMMA NoneGoes ==
  ASSUME \A i \in Pages : tomb[i].on => tomb'[i].on  PROVE Kept
  BY DEF Kept, Tombs

\* A tombstone whose page is known under its id: the tab is awake.
LEMMA NamedAwake ==
  ASSUME NEW i \in Pages, NEW p \in Pages, byId'[i] = p, tab'[p].known
  PROVE  Awake(i)' /\ Target(i)' = p
  BY PageFacts DEF Awake, Target, Known

\* A quiet step removes none.
LEMMA QuietKept ==
  ASSUME HubInv, Quiet  PROVE Kept
  BY NoneGoes DEF Quiet, QuietTombs, Reopens

\* The tab an asleep one woke into is awake under its id.
LEMMA AdoptKept ==
  ASSUME HubInv, TypeOK', NEW i \in Pages, NEW p \in Pages, NEW W, Adopt(i, p, W),
         tomb[i].falling = 0 \/ (tomb[i].falling = p /\ p \in seen')
  PROVE  Kept
  <1>1. TypeOK
    BY DEF HubInv
  <1>2. \A j \in Pages : j # i => tomb'[j] = tomb[j]
    BY <1>1, Types DEF Adopt
  <1>3. byId'[i] = p
    BY DEF Adopt
  <1>4. tab'[p].known
    <2>1. \A t \in TabRecords : [[t EXCEPT !.known = TRUE] EXCEPT !.id = i].known
      BY DEF TabRecords
    <2>2. tab'[p] = [[tab[p] EXCEPT !.known = TRUE] EXCEPT !.id = i]
      BY <1>1, Types DEF Adopt, TabRecords
    <2> QED
      BY <1>1, <2>1, <2>2, Types
  <1>5. MayGo(i) /\ Answered(i)
    BY <1>3, <1>4, NamedAwake DEF MayGo, Answered
  <1> QED
    BY <1>2, <1>5 DEF Kept, Tombs

LEMMA ReportKept ==
  ASSUME HubInv, TypeOK', NEW p \in Pages, Report(p)  PROVE Kept
  <1>1. TypeOK
    BY DEF HubInv
  <1>2. alias[p] \in Pages
    BY <1>1, TypesNow
  <1> DEFINE i == alias[p]
  <1>3. UNCHANGED tombVars \/ (Adopt(i, p, wire) /\ ~tab[p].known /\ i # p)
    BY DEF Report, tombVars
  <1>4. /\ p \in news /\ p \in Live /\ cdp # "none"
        /\ cdp = "reporting" => p \in seen'
    BY DEF Report, Live
  <1>5. ASSUME ~tab[p].known, tomb[i].falling # 0
        PROVE  tomb[i].falling = p /\ p \in seen'
    <2>1. FallOf(i, tomb[i].falling)
      BY <1>2, <1>5 DEF HubInv, Tombstones
    <2>2. tomb[i].falling = p
      BY <1>4, <2>1 DEF FallOf
    <2>3. cdp = "reporting"
      BY <1>1, <1>4, <1>5, <2>1, <2>2, TypesNow DEF FallOf, TypeOK
    <2> QED
      BY <1>4, <2>2, <2>3
  <1> HIDE DEF i
  <1> QED
    BY <1>2, <1>3, <1>5, NoneGoes, AdoptKept DEF tombVars, i

LEMMA WokenKept ==
  ASSUME HubInv, TypeOK', NEW m \in wire, Woken(m)  PROVE Kept
  <1>1. m.id \in Pages /\ m.page \in Pages
    BY WokenAlone DEF Woken
  <1>2. UNCHANGED tombVars \/ Adopt(m.id, m.page, wire \ {m})
    BY DEF Woken, tombVars
  <1>3. tomb[m.id].falling = 0
    BY DEF Woken, HubInv, Waking, WakeOps, Asleep
  <1> QED
    BY <1>1, <1>2, <1>3, NoneGoes, AdoptKept DEF tombVars

\* A page that ended leaves the tombstone it fell asleep with.
LEMMA GoneKept ==
  ASSUME HubInv, NEW p \in Pages, Gone(p)  PROVE Kept
  <1> DEFINE F == {i \in Pages : tomb[i].falling = p}
  <1>1. p \in Known /\ Settle({p}, F, {})
    BY DEF Gone
  <1>2. TypeOK /\ Shapes
    BY DEF HubInv
  <1>3. F \subseteq Pages /\ \A i \in F : tomb[i].on
    BY <1>2, PageFacts DEF Shapes
  <1> HIDE DEF F
  <1>4. PICK woken : Settled({p}, F, {}, woken)
    <2>1. {p} \subseteq Known /\ F \cap {} = {} /\ \A m \in wire : m.id \notin {}
      BY <1>1
    <2> QED
      BY ONLY <1>1, <1>2, <1>3, <2>1, SettleEffect
  <1>5. \A i \in Pages : tomb[i].on => tomb'[i].on
    BY <1>4 DEF Settled
  <1> QED
    BY <1>5, NoneGoes

\* A page that was asked to close and is there after the drop is awake.
LEMMA DiscoveredKept ==
  ASSUME HubInv, Discovered  PROVE Kept
  <1> DEFINE U == Known \ seen
             F == {i \in Tombs : tomb[i].falling # 0 /\ tomb[i].falling \notin seen}
             D == {i \in Tombs : IF tomb[i].falling # 0 THEN tomb[i].falling \in seen
                                 ELSE Target(i) \in Known \ U}
  <1>1. Settle(U, F, D) /\ cdp = "reporting" /\ news = {}
    BY DEF Discovered
  <1>2. TypeOK /\ Shapes
    BY DEF HubInv
  <1>3. U \subseteq Known /\ F \subseteq Pages /\ F \cap D = {} /\ \A i \in F : tomb[i].on
    BY DEF Tombs
  <1>4. ASSUME NEW i \in D
        PROVE  i \in Pages /\ tomb[i].falling # 0 /\ tomb[i].falling \in seen
    BY DEF Tombs, HubInv, Tombstones, Asleep, Awake
  <1>5. \A m \in wire : m.id \notin D
    BY <1>1, <1>4, PageFacts DEF HubInv, Connection, Shapes, WakeOps
  <1>6. \A p \in seen : p \notin U
    OBVIOUS
  <1> HIDE DEF U, F, D
  <1>7. PICK woken : Settled(U, F, D, woken)
    BY ONLY <1>1, <1>2, <1>3, <1>5, SettleEffect
  <1>8. ASSUME NEW i \in D  PROVE MayGo(i) /\ Answered(i)
    <2>1. PICK q \in Pages : q = tomb[i].falling
      BY <1>2, <1>4, Types, PageFacts DEF TombRecords
    <2>2. tab[q].known /\ tab[q].id = i /\ q \notin U
      BY <1>1, <1>4, <1>6, <2>1 DEF HubInv, Tombstones, FallOf, Identity, Known
    <2>3. byId[i] = q
      BY <2>2 DEF HubInv, Identity, OneIdOnePage, Known
    <2>4. byId'[i] = q /\ tab'[q].known
      BY <1>2, <1>4, <1>7, <2>2, <2>3, TypesNow DEF Settled
    <2> QED
      BY <1>4, <2>1, <2>4, NamedAwake DEF MayGo, Answered
  <1>9. \A i \in Pages : i \notin D => (tomb[i].on => tomb'[i].on)
    BY <1>7 DEF Settled
  <1> QED
    BY <1>8, <1>9 DEF Kept, Tombs

LEMMA CheckEndsKept ==
  ASSUME HubInv, NEW r \in reads, CheckEnds(r)  PROVE Kept
  <1>1. TypeOK /\ r.n \in Pages
    BY DEF CheckEnds, HubInv, Shapes
  <1>2. CASE UNCHANGED tomb
    BY <1>2, NoneGoes
  <1>3. CASE tomb' = [tomb EXCEPT ![tab[r.n].id] = Tombstone(r.n)]
    <2>1. Tombstone(r.n).on
      BY DEF Tombstone, NoTomb
    <2>2. \A i \in Pages : tomb'[i] = tomb[i] \/ tomb'[i] = Tombstone(r.n)
      BY <1>1, <1>3, Types
    <2> QED
      BY <2>1, <2>2, NoneGoes
  <1> QED
    BY <1>2, <1>3 DEF CheckEnds

\* The page that was to fall asleep stays: the hub knows it.
LEMMA FellKept ==
  ASSUME HubInv, NEW m \in wire, m.op = "close", NEW W, Fell(m.page, W)
  PROVE  Kept
  <1> DEFINE p == m.page
             i == tab[p].id
  <1>1. TypeOK /\ p \in Pages /\ UNCHANGED byId
    BY DEF HubInv, Shapes, WakeOps, Fell
  <1>0. cdp \in {"settling", "ready"} \/ (cdp = "reporting" /\ p \in seen)
    BY <1>1 DEF HubInv, Connection, TypeOK
  <1> HIDE DEF p
  <1>2. tab'[p].known = tab[p].known /\ ~tab'[p].fall
    <2>1. tab' = [tab EXCEPT ![p].fall = FALSE]
      BY DEF Fell, p
    <2>2. \A t \in TabRecords : /\ [t EXCEPT !.fall = FALSE].known = t.known
                                 /\ ~[t EXCEPT !.fall = FALSE].fall
      BY DEF TabRecords
    <2> QED
      BY <1>1, <2>1, <2>2, Types
  <1>3. UNCHANGED tomb \/ (tomb[i].falling = p /\ tomb' = [tomb EXCEPT ![i] = NoTomb])
    BY DEF Fell, p
  <1>4. ASSUME NEW j \in Pages, j = i, tomb[j].falling = p  PROVE MayGo(j) /\ Answered(j)
    <2>1. tab[p].known /\ tab[p].id = j
      BY <1>0, <1>1, <1>4, PageFacts DEF HubInv, Tombstones, FallOf, Identity, Known
    <2>2. byId[j] = p
      BY <1>1, <2>1 DEF HubInv, Identity, OneIdOnePage, Known
    <2> QED
      BY <1>1, <1>2, <1>4, <2>1, <2>2, NamedAwake DEF MayGo, Answered
  <1>5. \A j \in Pages : tomb'[j] = tomb[j] \/ (j = i /\ tomb[j].falling = p)
    BY <1>1, <1>3, Types
  <1> HIDE DEF i
  <1> QED
    BY <1>4, <1>5 DEF Kept, Tombs

\* endSleeperIfUnused reads the holds and the viewers before it ends one.
LEMMA EndSleeperKept ==
  ASSUME HubInv, NEW r \in reads, EndSleeperIfUnused(r)  PROVE Kept
  <1>1. r.n \in Pages /\ look'.strips = r.strips /\ tomb[r.n].falling = 0
    BY DEF EndSleeperIfUnused, LookOf, HubInv, Shapes, Tombstones, Asleep
  <1>2. CASE UNCHANGED tomb
    BY <1>2, NoneGoes
  <1>3. CASE r.n \notin r.strips /\ Waiting(r.n) = {} /\ EndTombs({r.n}, reads \ {r}, wire)
    <2>1. \A j \in Pages : j # r.n => tomb'[j] = tomb[j]
      BY <1>3 DEF EndTombs
    <2> QED
      BY <1>1, <1>3, <2>1 DEF Kept, MayGo, Answered, Tombs
  <1> QED
    BY <1>2, <1>3 DEF EndSleeperIfUnused

\* A close for everyone was asked for.
LEMMA FinishCloseKept ==
  ASSUME HubInv, NEW i \in Pages, FinishClose(i)  PROVE Kept
  <1>1. closing[i] # "no" /\ TypeOK
    BY DEF FinishClose, HubInv
  <1>2. \A j \in Pages : j # i => tomb'[j] = tomb[j]
    BY <1>1, Types DEF FinishClose, EndTombs
  <1> QED
    BY <1>1, <1>2 DEF Kept, MayGo, Answered, Tombs

\* A drop leaves every tombstone.
LEMMA LostKept ==
  ASSUME HubInv, Lost  PROVE Kept
  <1>1. TypeOK
    BY DEF HubInv
  <1>2. ASSUME NEW i \in Pages, tomb[i].on  PROVE tomb'[i].on
    <2> DEFINE b == Waiting(i) # {}
    <2>1. tomb'[i] = tomb[i] \/ tomb'[i] = [[tomb[i] EXCEPT !.waking = FALSE] EXCEPT !.retry = b]
      BY DEF Lost
    <2>2. b \in BOOLEAN
      OBVIOUS
    <2> HIDE DEF b
    <2>3. \A t \in TombRecords : [[t EXCEPT !.waking = FALSE] EXCEPT !.retry = b].on = t.on
      BY DEF TombRecords
    <2> QED
      BY <1>1, <1>2, <2>1, <2>3, Types
  <1> QED
    BY <1>2, NoneGoes

\* Ready again, the closes that fell due end theirs.
LEMMA ReadiedKept ==
  ASSUME HubInv, NEW called, Readied(called)  PROVE Kept
  <1>1. TypeOK
    BY DEF HubInv
  <1>2. ASSUME NEW i \in Pages, tomb[i].on, closing[i] # "due"  PROVE tomb'[i].on
    <2> DEFINE w == [tomb[i] EXCEPT !.waking = TRUE, !.retry = FALSE]
    <2>1. PICK t \in {tomb[i], w} : tomb'[i] = [t EXCEPT !.window = @ /\ i \notin called]
      BY <1>1, <1>2 DEF Readied, Woke
    <2>2. w \in TombRecords /\ w.on
      BY <1>1, <1>2, Types DEF TombRecords
    <2> HIDE DEF w
    <2>3. t \in TombRecords /\ t.on
      <3>1. tomb[i] \in TombRecords
        BY <1>1, Types
      <3> QED
        BY <1>2, <2>2, <3>1
    <2>4. tomb'[i].on = t.on
      BY <2>1, <2>3 DEF TombRecords
    <2> QED
      BY <2>3, <2>4
  <1> QED
    BY <1>2 DEF Kept, MayGo, Answered, Tombs

\* Every step removes only what may go.
LEMMA NextKept ==
  ASSUME HubInv, TypeOK', Next  PROVE Kept
  <1> USE DEF tombVars
  <1>1. CASE Outside
    <2>1. ASSUME NEW p \in Pages, PageEnds(p)  PROVE Kept
      BY <2>1, NoneGoes DEF PageEnds
    <2>2. ASSUME NEW p \in Pages, AgentComes(p) \/ AgentLeaves(p) \/ CheckStarts(p)  PROVE Kept
      BY <2>2, QuietOutside, QuietKept
    <2>3. ASSUME NEW i \in Links,
                 HolderChanges(i) \/ CloseForEveryone(i) \/ Restore(i) \/ WakeTab(i)
          PROVE  Kept
      BY <2>3, PageFacts, QuietOutside, QuietKept
    <2>4. ASSUME NEW v \in Viewers, NEW i \in Links, NEW shown \in BOOLEAN, Attach(v, i, shown)
          PROVE  Kept
      BY <2>4, PageFacts, QuietOutside, QuietKept
    <2>5. ASSUME NEW v \in Viewers, Detach(v) \/ Visible(v)  PROVE Kept
      BY <2>5, QuietOutside, QuietKept
    <2>6. ASSUME NEW m \in wire, PageObjects(m)  PROVE Kept
      BY <2>6, FellKept DEF PageObjects
    <2> QED
      BY <1>1, <2>1, <2>2, <2>3, <2>4, <2>5, <2>6 DEF Outside
  <1>2. CASE Faults
    <2>1. ASSUME NEW r \in reads, ReadFails(r)  PROVE Kept
      BY <2>1, QuietReading, QuietKept
    <2>2. ASSUME NEW m \in wire, WakeFails(m)  PROVE Kept
      BY <2>2, QuietTimers, QuietKept
    <2> QED
      BY <1>2, <2>1, <2>2, LostKept, ReadiedKept DEF Faults, ReadyBlind
  <1>3. CASE Files
    BY <1>3, QuietFiles, QuietKept
  <1>4. CASE Reads
    <2>1. ASSUME NEW r \in reads, RefreshEnds(r) \/ OtherReadEnds(r) \/ CloseIfUnused(r)
          PROVE  Kept
      BY <2>1, QuietReading, QuietKept
    <2> QED
      BY <1>4, <2>1, EndSleeperKept, CheckEndsKept DEF Reads
  <1>5. CASE Timers
    <2>1. ASSUME NEW p \in Pages,
                 GraceEnds(p) \/ TombGraceEnds(p) \/ WakeGivesUp(p) \/ WakeRetry(p) \/ WindowCloses(p)
          PROVE  Kept
      BY <2>1, QuietTimers, QuietKept
    <2>2. ASSUME NEW m \in wire, FallTimeout(m)  PROVE Kept
      BY <2>2, FellKept DEF FallTimeout
    <2> QED
      BY <1>5, <2>1, <2>2, FinishCloseKept DEF Timers
  <1>6. CASE Link
    <2>1. Connect => Kept
      BY NoneGoes DEF Connect
    <2> QED
      BY <1>6, <2>1, DiscoveredKept, ReadiedKept, ReportKept, GoneKept DEF Link, Ready
  <1>7. CASE Chrome
    <2>1. ASSUME NEW m \in wire, PageCloses(m)  PROVE Kept
      BY <2>1, NoneGoes DEF PageCloses
    <2>2. ASSUME NEW m \in wire, NEW p \in Fresh, PageWakes(m, p)  PROVE Kept
      BY <2>2, NoneGoes DEF PageWakes
    <2>3. ASSUME NEW l, LateClose(l)  PROVE Kept
      BY <2>3, NoneGoes DEF LateClose
    <2>4. ASSUME NEW l, NEW p \in Fresh, LateOpens(l, p)  PROVE Kept
      BY <2>4, NoneGoes DEF LateOpens
    <2> QED
      BY <1>7, <2>1, <2>2, <2>3, <2>4, WokenKept DEF Chrome
  <1> QED
    BY <1>1, <1>2, <1>3, <1>4, <1>5, <1>6, <1>7 DEF Next

\* A tombstone goes only when its tab is awake, is closed for everyone, or is
\* held by no strip the hub read and awaited by nobody.
THEOREM TombstonesStay == ASSUME ~SlowChrome  PROVE Spec => TombstonesKept
  <1>1. HubInv /\ HubInv' /\ [Next]_vars =>
          [\A i \in Tombs \ Tombs' :
             \/ Awake(i)' \/ closing[i] # "no"
             \/ i \notin look'.strips /\ Waiting(i) = {}]_vars
    <2> SUFFICES ASSUME HubInv, HubInv', Next
                 PROVE  \A i \in Tombs \ Tombs' :
                          \/ Awake(i)' \/ closing[i] # "no"
                          \/ i \notin look'.strips /\ Waiting(i) = {}
      OBVIOUS
    <2>1. TypeOK'
      BY DEF HubInv
    <2> QED
      BY <2>1, NextKept DEF Kept, MayGo
  <1> QED
    BY <1>1, InvariantHolds, PTL DEF Spec, TombstonesKept

\* The tombstone of a falling tab goes only for a close for everyone, or when
\* the tab is awake under its id with its fall answered or its page found by a
\* discovery; commands of a dropped connection that take effect later too.
THEOREM FallsStay == ASSUME ~SlowChrome  PROVE Spec => FallsStand
  <1>1. HubInv /\ HubInv' /\ [Next]_vars =>
          [\A i \in Tombs \ Tombs' : LET p == tomb[i].falling IN
             \/ p = 0 \/ closing[i] # "no"
             \/ /\ tab'[p].known /\ Target(i)' = p
                /\ ~tab'[p].fall \/ p \in seen \cup seen']_vars
    <2> SUFFICES ASSUME HubInv, HubInv', Next
                 PROVE  \A i \in Tombs \ Tombs' : LET p == tomb[i].falling IN
                          \/ p = 0 \/ closing[i] # "no"
                          \/ /\ tab'[p].known /\ Target(i)' = p
                             /\ ~tab'[p].fall \/ p \in seen \cup seen'
      OBVIOUS
    <2>1. TypeOK'
      BY DEF HubInv
    <2> QED
      BY <2>1, NextKept DEF Kept, Answered
  <1> QED
    BY <1>1, InvariantHolds, PTL DEF Spec, FallsStand

=============================================================================
