------------------------------- MODULE TabHub -------------------------------
(* The hub of the Environment browser: the tabs it knows from Chrome, the    *)
(* viewers on them, the tabs that sleep as tombstones and wake under their   *)
(* id, the graces that close what nothing uses, the close for everyone, and  *)
(* a DevTools connection that drops and comes back.                          *)
(* A page number stands for a DevTools target, and for the id of the tab it  *)
(* first was.  Not in this module: addresses and titles, frames and input,   *)
(* the hub's own blank window, the clock (what waits for a time may happen   *)
(* at any time), a restart of Chrome or of the view, trimSleeping, and the   *)
(* tabs of a T3 Code thread, which never sleep.  A read of the holder files  *)
(* and the bindings returns what they held when it began.                    *)
\* Mutants: definitions named Bug... are plausible mistakes in the definition
\* that follows them; nothing uses them.
EXTENDS Naturals, FiniteSets

CONSTANTS
  MaxPages,   \* bound: the page numbers
  Links,      \* bound: the ids people, strips and the sleep rules name
  Stripped,   \* the ids a strip holds at first
  Viewers,    \* the sockets of the people
  MaxEdits,   \* bound: what people, pages and agents change
  MaxReads,   \* bound: the reads of the holds under way at once
  MaxDrops,   \* bound: drops of the connection
  MaxFaults,  \* bound: failed reads, failed wakes
  SlowChrome  \* whether Chrome answers later than the hub and a person wait for it

ASSUME Bounds ==
  /\ MaxPages \in Nat \ {0} /\ Links \subseteq 1..MaxPages /\ Stripped \subseteq Links
  /\ MaxEdits \in Nat /\ MaxReads \in Nat
  /\ MaxDrops \in Nat /\ MaxFaults \in Nat
  /\ SlowChrome \in BOOLEAN

Pages == 1..MaxPages
Nowhere == [kind |-> "none", n |-> 0, shown |-> FALSE]

VARIABLES
  open,       \* Chrome: the pages that exist
  news,       \* Chrome: the pages it has yet to report on this connection
  wire,       \* the commands on their way to Chrome and its answers
  late,       \* Chrome: what it took on a connection that dropped and may yet do
  holders,    \* files: the ids a strip holds
  agents,     \* files: the pages an agent's binding works in
  unreported, \* the watch has a change of the files to report
  cdp,        \* the connection: none, reporting, settling, ready
  seen,       \* the pages reported so far, while the hub discovers them
  tab,        \* what the hub knows of a page
  byId,       \* the page of an id, 0 for none
  alias,      \* the id a woken page keeps; itself for every other
  grace,      \* the countdown of a page: no, counting, spent (its timer went off)
  tomb,       \* the tombstone of an id
  tombGrace,  \* the tombstones that count down to their end
  closing,    \* the closes for everyone: no, counting, due
  at,         \* where each viewer is, and whether its page is shown
  look,       \* the holds the hub read last
  reads,      \* the reads of the holds under way, with what they return
  refresh,    \* a read of the holds is due
  remembered, \* the ids of Links whose address is kept
  edits, drops, faults

chromeVars == <<open, news, wire, late>>
fileVars == <<holders, agents, unreported>>
linkVars == <<cdp, seen>>
tabVars == <<tab, byId, alias, grace>>
tombVars == <<tomb, tombGrace>>
readVars == <<look, reads, refresh>>
countVars == <<edits, drops, faults>>
vars == <<chromeVars, fileVars, linkVars, tabVars, tombVars, closing, at,
          readVars, remembered, countVars>>

NoTab == [known |-> FALSE, id |-> 0, fall |-> FALSE]
NoTomb == [on |-> FALSE, falling |-> 0, from |-> 0, touched |-> FALSE,
           window |-> FALSE, waking |-> FALSE, retry |-> FALSE]
Tombstone(falling) == [NoTomb EXCEPT !.on = TRUE, !.falling = falling, !.from = falling]

Command(op, p, i) == [op |-> op, page |-> p, id |-> i, mine |-> TRUE]

Known == {p \in Pages : tab[p].known}
Tombs == {i \in Pages : tomb[i].on}
Asleep(i) == tomb[i].on /\ tomb[i].falling = 0
Target(i) == IF byId[i] # 0 THEN byId[i] ELSE i
Awake(i) == Target(i) \in Known
Watching(p) == {v \in Viewers : at[v].kind = "tab" /\ at[v].n = p}
Waiting(i) == {v \in Viewers : at[v].kind = "tomb" /\ at[v].n = i}
Shown(V) == \E v \in V : at[v].shown
Names(p) == {p, tab[p].id}
AgentIn(p) == Names(p) \cap look.agents # {}
Held(p) == Names(p) \cap look.strips # {} \/ AgentIn(p)
Opening(i) == (\E m \in wire : m.id = i) \/ (\E p \in news : alias[p] = i)
Checking(p) == \E r \in reads : r.who = "sleep" /\ r.n = p

\* A page number nothing names any more but the remembered addresses.
Fresh == {p \in Pages :
            /\ p \notin open \cup news \cup seen \cup Known \cup Tombs \cup holders \cup agents
            /\ alias[p] = p /\ closing[p] = "no"
            /\ \A q \in Pages : q = p \/ (alias[q] # p /\ tab[q].id # p /\ tomb[q].from # p)
            /\ \A m \in wire : m.page # p /\ m.id # p
            /\ \A r \in reads : r.n # p}

-----------------------------------------------------------------------------
(* Reviews, and what leaves with a tombstone                                 *)

Idle(p) ==
  /\ tab[p].known /\ ~tab[p].fall
  /\ closing[tab[p].id] = "no"
  /\ ~Held(p) /\ Watching(p) = {}
BugUnwanted(i) ==
  /\ tomb[i].on /\ closing[i] = "no"
  /\ i \notin look.strips /\ Waiting(i) = {} /\ ~tomb[i].waking
Unwanted(i) ==
  /\ Asleep(i) /\ closing[i] = "no"
  /\ i \notin look.strips /\ Waiting(i) = {} /\ ~tomb[i].waking

ReviewTabs(P) ==
  grace' = [p \in Pages |->
              CASE ~tab'[p].known -> "no"
                [] tab'[p].known /\ p \notin P -> grace[p]
                [] OTHER -> IF ~Idle(p)' THEN "no"
                            ELSE IF grace[p] = "no" THEN "counting" ELSE grace[p]]
ReviewTombs(I) ==
  tombGrace' = {i \in Tombs' : IF i \in I THEN Unwanted(i)' ELSE i \in tombGrace}

Disowned(I, W) == {IF m.id \in I THEN [m EXCEPT !.mine = FALSE] ELSE m : m \in W}
Orphaned(I, R) ==
  {IF r.who = "ended" /\ r.n \in I THEN [r EXCEPT !.who = "other", !.n = 0] ELSE r : r \in R}

CanWake(i) == Asleep(i) /\ ~tomb[i].waking /\ cdp = "ready"
Woke(i) == [tomb[i] EXCEPT !.waking = TRUE, !.retry = FALSE]
Wakes(I) == {Command("wake", 0, i) : i \in I}

\* Tombstones that end: whoever waits is told, and their aliases go.
EndTombs(I, R, W) ==
  /\ tomb' = [i \in Pages |-> IF i \in I THEN NoTomb ELSE tomb[i]]
  /\ alias' = [p \in Pages |-> IF alias[p] \in I /\ p \notin Known THEN p ELSE alias[p]]
  /\ closing' = [i \in Pages |-> IF i \in I THEN "no" ELSE closing[i]]
  /\ at' = [v \in Viewers |-> IF at[v].kind = "tomb" /\ at[v].n \in I THEN Nowhere ELSE at[v]]
  /\ reads' = Orphaned(I, R)
  /\ wire' = Disowned(I, W)
  /\ tombGrace' = tombGrace \ I

-----------------------------------------------------------------------------
(* People, pages and agents                                                  *)

LateBut(p) == {l \in late : l.cmd.page # p}
Edit == edits < MaxEdits /\ edits' = edits + 1

\* A page that closes itself, one the hub knows.
PageEnds(p) ==
  /\ Edit /\ p \in (open \cap Known) \ news
  /\ ~\E m \in wire : m.op = "woken" /\ m.page = p
  /\ open' = open \ {p}
  /\ wire' = {m \in wire : m.page # p} /\ late' = LateBut(p)
  /\ UNCHANGED <<news, fileVars, linkVars, tabVars, tombVars, closing, at,
                 readVars, remembered, drops, faults>>

HolderChanges(i) ==
  /\ Edit /\ i \in remembered
  /\ holders' = IF i \in holders THEN holders \ {i} ELSE holders \cup {i}
  /\ unreported' = TRUE
  /\ UNCHANGED <<chromeVars, agents, linkVars, tabVars, tombVars, closing, at,
                 readVars, remembered, drops, faults>>

AgentComes(p) ==
  /\ Edit /\ p \in (open \cap Known) \ agents
  /\ agents' = agents \cup {p}
  /\ unreported' = TRUE
  /\ UNCHANGED <<chromeVars, holders, linkVars, tabVars, tombVars, closing, at,
                 readVars, remembered, drops, faults>>

AgentLeaves(p) ==
  /\ p \in agents
  /\ agents' = agents \ {p}
  /\ unreported' = TRUE
  /\ UNCHANGED <<chromeVars, holders, linkVars, tabVars, tombVars, closing, at,
                 readVars, remembered, countVars>>

\* reopenable: a tab that ended, remembered by its id, is one that sleeps.
Reopens(i) ==
  /\ ~tomb[i].on /\ cdp = "ready" /\ ~Awake(i)
  /\ i \in remembered /\ closing[i] = "no"

\* The tombstone of i, which wakes if that is wanted and it can.
Rouse(i, wanted) ==
  LET old == IF tomb[i].on THEN tomb[i] ELSE Tombstone(0)
      wakes == wanted /\ cdp = "ready" /\ ~old.waking
  IN /\ tomb' = [tomb EXCEPT ![i] =
                    IF wakes THEN [old EXCEPT !.waking = TRUE, !.retry = FALSE] ELSE old]
     /\ wire' = IF wakes THEN wire \cup Wakes({i}) ELSE wire
     /\ ReviewTombs({i})

\* attach: on a tombstone, on the tombstone of a tab that ended, or on a tab.
Attach(v, i, shown) ==
  /\ at[v] = Nowhere
  /\ UNCHANGED <<open, news, late, fileVars, linkVars, tab, byId, alias, closing, readVars,
                 remembered, countVars>>
  /\ \/ /\ Asleep(i) \/ Reopens(i)
        /\ at' = [at EXCEPT ![v] = [kind |-> "tomb", n |-> i, shown |-> shown]]
        /\ Rouse(i, shown)
        /\ UNCHANGED grace
     \/ /\ ~Asleep(i) /\ Awake(i)
        /\ at' = [at EXCEPT ![v] = [kind |-> "tab", n |-> Target(i), shown |-> shown]]
        /\ ReviewTabs({Target(i)})
        /\ UNCHANGED <<tombVars, wire>>

\* wakeTab: a person wakes the tab without a view of it.
WakeTab(i) ==
  /\ Asleep(i) \/ Reopens(i)
  /\ UNCHANGED <<open, news, late, fileVars, linkVars, tabVars, closing, at, readVars,
                 remembered, countVars>>
  /\ Rouse(i, TRUE)

Detach(v) ==
  /\ at[v] # Nowhere
  /\ at' = [at EXCEPT ![v] = Nowhere]
  /\ UNCHANGED <<chromeVars, fileVars, linkVars, tab, byId, alias, tomb, closing,
                 readVars, remembered, countVars>>
  /\ IF at[v].kind = "tomb" THEN ReviewTombs({at[v].n}) /\ UNCHANGED grace
                            ELSE ReviewTabs({at[v].n}) /\ UNCHANGED tombGrace

\* handle of `visible`: shown again, a viewer that waits wakes its tab.
Visible(v) ==
  /\ at[v] # Nowhere
  /\ at' = [at EXCEPT ![v].shown = ~@]
  /\ LET i == at[v].n IN
     IF at[v].kind = "tomb" /\ ~at[v].shown /\ CanWake(i)
     THEN /\ tomb' = [tomb EXCEPT ![i] = Woke(i)]
          /\ wire' = wire \cup Wakes({i})
          /\ tombGrace' = tombGrace \ {i}
     ELSE UNCHANGED <<tombVars, wire>>
  /\ UNCHANGED <<open, news, late, fileVars, linkVars, tabVars, closing, readVars,
                 remembered, countVars>>

CloseForEveryone(i) ==
  /\ Edit /\ closing[i] = "no"
  /\ tomb[i].on \/ (Awake(i) /\ tab[Target(i)].id = i)
  /\ closing' = [closing EXCEPT ![i] = "counting"]
  /\ IF tomb[i].on THEN tombGrace' = tombGrace \ {i} /\ UNCHANGED grace
                   ELSE grace' = [grace EXCEPT ![Target(i)] = "no"] /\ UNCHANGED tombGrace
  /\ UNCHANGED <<chromeVars, fileVars, linkVars, tab, byId, alias, tomb, at,
                 readVars, remembered, drops, faults>>

\* restore (Undo): it answers only for a tab that counts down.
Restore(i) ==
  /\ tomb[i].on \/ (Awake(i) /\ tab[Target(i)].id = i)
  /\ closing[i] # "no" \/ (~tomb[i].on /\ grace[Target(i)] = "spent")
  /\ closing' = [closing EXCEPT ![i] = "no"]
  /\ UNCHANGED <<chromeVars, fileVars, linkVars, tab, byId, alias, tomb, at,
                 readVars, remembered, countVars>>
  /\ IF tomb[i].on
     THEN ReviewTombs({i}) /\ UNCHANGED grace
     ELSE /\ grace' = [grace EXCEPT ![Target(i)] = IF Idle(Target(i))' THEN "counting" ELSE "no"]
          /\ UNCHANGED tombGrace

-----------------------------------------------------------------------------
(* The holds                                                                 *)

Read(who, n) == [who |-> who, n |-> n, strips |-> holders, agents |-> agents, stale |-> FALSE]
MayRead == Cardinality(reads) < MaxReads
LookOf(r) == [strips |-> r.strips, agents |-> r.agents]

\* holdsChanged: every sleep under way counts the change, a read follows.
WatchReports ==
  /\ unreported
  /\ unreported' = FALSE
  /\ reads' = {[r EXCEPT !.stale = (r.who = "sleep") \/ @] : r \in reads}
  /\ tomb' = [i \in Pages |-> [tomb[i] EXCEPT !.touched = (tomb[i].falling # 0) \/ @]]
  /\ refresh' = TRUE
  /\ UNCHANGED <<chromeVars, holders, agents, linkVars, tabVars, tombGrace, closing,
                 at, look, remembered, countVars>>

RefreshStarts ==
  /\ refresh /\ MayRead
  /\ refresh' = FALSE
  /\ reads' = reads \cup {Read("refresh", 0)}
  /\ UNCHANGED <<chromeVars, fileVars, linkVars, tabVars, tombVars, closing, at,
                 look, remembered, countVars>>

\* The tombstones an agent came to in time.
BugCalled(worked) == {i \in Pages : Asleep(i) /\ tomb[i].window /\ i \in worked}
Called(worked) ==
  {i \in Pages : Asleep(i) /\ tomb[i].window /\ {i, tomb[i].from} \cap worked # {}}

\* refreshHolds after its read: every tab and tombstone is reviewed, and
\* wakeForAgent spends its window whether or not the tab can wake.
RefreshEnds(r) ==
  /\ r \in reads /\ r.who = "refresh"
  /\ look' = LookOf(r)
  /\ reads' = reads \ {r}
  /\ LET called == Called(r.agents)
         woken == {i \in called : CanWake(i)}
     IN /\ tomb' = [i \in Pages |->
                     IF i \in woken THEN [Woke(i) EXCEPT !.window = FALSE]
                     ELSE [tomb[i] EXCEPT !.window = @ /\ i \notin called]]
        /\ wire' = wire \cup Wakes(woken)
  /\ UNCHANGED <<open, news, late, fileVars, linkVars, tab, byId, alias, closing, at,
                 refresh, remembered, countVars>>
  /\ ReviewTabs(Pages) /\ ReviewTombs(Pages)

\* A read whose tombstone ended meanwhile only sets the holds.
OtherReadEnds(r) ==
  /\ r \in reads /\ r.who = "other"
  /\ look' = LookOf(r)
  /\ reads' = reads \ {r}
  /\ UNCHANGED <<chromeVars, fileVars, linkVars, tabVars, tombVars, closing, at,
                 refresh, remembered, countVars>>

\* The end of a grace reads the holds again; closeIfUnused after the read.
\* Without a connection it returns before it clears the countdown.
GraceEnds(p) ==
  /\ grace[p] = "counting" /\ MayRead
  /\ ~\E m \in wire : m.op = "woken" /\ m.page = p
  /\ grace' = [grace EXCEPT ![p] = "spent"]
  /\ reads' = reads \cup {Read("unused", p)}
  /\ UNCHANGED <<chromeVars, fileVars, linkVars, tab, byId, alias, tombVars, closing,
                 at, look, refresh, remembered, countVars>>

CloseIfUnused(r) ==
  /\ r \in reads /\ r.who = "unused"
  /\ look' = LookOf(r)
  /\ reads' = reads \ {r}
  /\ UNCHANGED <<open, news, late, fileVars, linkVars, tab, byId, alias, tombVars, closing,
                 at, refresh, remembered, countVars>>
  /\ LET p == r.n IN
     IF tab[p].known /\ cdp # "none"
     THEN /\ wire' = IF Idle(p)' THEN wire \cup {Command("end", p, 0)} ELSE wire
          /\ grace' = [grace EXCEPT ![p] = "no"]
     ELSE UNCHANGED <<wire, grace>>

TombGraceEnds(i) ==
  /\ i \in tombGrace /\ MayRead /\ ~\E r \in reads : r.who = "ended" /\ r.n = i
  /\ reads' = reads \cup {Read("ended", i)}
  /\ UNCHANGED <<chromeVars, fileVars, linkVars, tabVars, tombVars, closing, at,
                 look, refresh, remembered, countVars>>

BugEndSleeperIfUnused(r) ==
  /\ r \in reads /\ r.who = "ended"
  /\ look' = LookOf(r)
  /\ EndTombs({r.n}, reads \ {r}, wire)
  /\ UNCHANGED <<open, news, late, fileVars, linkVars, tab, byId, grace, refresh,
                 remembered, countVars>>
EndSleeperIfUnused(r) ==
  /\ r \in reads /\ r.who = "ended"
  /\ look' = LookOf(r)
  /\ LET i == r.n IN
     IF i \in r.strips \/ Waiting(i) # {} \/ tomb[i].waking
     THEN /\ reads' = reads \ {r}
          /\ tombGrace' = tombGrace \ {i}
          /\ UNCHANGED <<wire, tomb, alias, closing, at>>
     ELSE EndTombs({i}, reads \ {r}, wire)
  /\ UNCHANGED <<open, news, late, fileVars, linkVars, tab, byId, grace, refresh,
                 remembered, countVars>>

\* A read that fails keeps what it was for.
BugReadFails(r) ==
  /\ r \in reads /\ faults < MaxFaults
  /\ faults' = faults + 1
  /\ reads' = reads \ {r}
  /\ UNCHANGED <<chromeVars, fileVars, linkVars, tabVars, tombVars, closing,
                 at, look, refresh, remembered, edits, drops>>
ReadFails(r) ==
  /\ r \in reads /\ faults < MaxFaults
  /\ faults' = faults + 1
  /\ reads' = reads \ {r}
  /\ grace' = [p \in Pages |->
                 IF r.who = "unused" /\ r.n = p /\ tab[p].known
                 THEN IF Idle(p) THEN "counting" ELSE "no"
                 ELSE grace[p]]
  /\ UNCHANGED <<chromeVars, fileVars, linkVars, tab, byId, alias, tombVars, closing,
                 at, look, refresh, remembered, edits, drops>>

\* The beat: only one that finds something to do.
Beat ==
  /\ ~refresh
  /\ \/ LookOf(Read("refresh", 0)) # look
     \/ \E p \in Pages : Idle(p) /\ grace[p] = "no"
     \/ \E i \in Pages : Unwanted(i) /\ i \notin tombGrace
  /\ refresh' = TRUE
  /\ UNCHANGED <<chromeVars, fileVars, linkVars, tabVars, tombVars, closing, at,
                 look, reads, remembered, countVars>>

-----------------------------------------------------------------------------
(* Falling asleep                                                            *)

InUse(p) == Shown(Watching(p)) \/ AgentIn(p)
Attached(p) == cdp \in {"settling", "ready"} \/ p \in seen
Sleepable(p) ==
  /\ tab[p].known /\ Attached(p)
  /\ closing[tab[p].id] = "no" /\ ~tab[p].fall /\ ~tomb[tab[p].id].on

\* putToSleep: the page is asked about its input, then the holds are read.
\* A page that just opened is in use.
CheckStarts(p) ==
  /\ ~\E m \in wire : m.op = "woken" /\ m.page = p
  /\ MayRead /\ Sleepable(p) /\ ~Checking(p) /\ ~InUse(p)
  /\ reads' = reads \cup {Read("sleep", p)}
  /\ UNCHANGED <<chromeVars, fileVars, linkVars, tabVars, tombVars, closing, at,
                 look, refresh, remembered, countVars>>

\* closeToSleep: the last checks and Page.close are one step.  A page may be
\* refused for what is not in this module: it was used a moment ago, it plays.
CheckEnds(r) ==
  /\ r \in reads /\ r.who = "sleep"
  /\ look' = LookOf(r)
  /\ reads' = reads \ {r}
  /\ UNCHANGED <<open, news, late, fileVars, linkVars, byId, alias, tombGrace, closing,
                 at, refresh, remembered, countVars>>
  /\ \E refused \in BOOLEAN :
     LET p == r.n
         i == tab[p].id
     IN IF ~refused /\ Sleepable(p) /\ ~r.stale /\ Target(i) = p
           /\ ~Shown(Watching(p)) /\ Names(p) \cap r.agents = {}
        THEN /\ tab' = [tab EXCEPT ![p].fall = TRUE]
             /\ tomb' = [tomb EXCEPT ![i] = Tombstone(p)]
             /\ wire' = wire \cup {Command("close", p, 0)}
             /\ grace' = [grace EXCEPT ![p] = "no"]
        ELSE UNCHANGED <<tab, tomb, wire, grace>>

\* fell: the tab stays awake and counts as before.
Fell(p, W) ==
  /\ wire' = W
  /\ tab' = [tab EXCEPT ![p].fall = FALSE]
  /\ LET i == tab[p].id IN
     IF tab[p].fall /\ tomb[i].falling = p
     THEN tomb' = [tomb EXCEPT ![i] = NoTomb] ELSE UNCHANGED tomb
  /\ UNCHANGED <<open, news, late, fileVars, linkVars, byId, alias, tombGrace, closing,
                 at, readVars, remembered, countVars>>
  /\ ReviewTabs(IF tab[p].fall THEN {p} ELSE {})

\* The page's beforeunload objects: Chrome says so with a dialog.
PageObjects(m) ==
  /\ m \in wire /\ m.op = "close"
  /\ Fell(m.page, wire \ {m})

\* The page neither closed nor objected in time.  A hung page never will; a
\* slow one may yet close.
FallTimeout(m) ==
  /\ m \in wire /\ m.op = "close" /\ tab[m.page].fall /\ cdp # "none"
  /\ Fell(m.page, IF SlowChrome THEN wire ELSE wire \ {m})

-----------------------------------------------------------------------------
(* Waking                                                                    *)

\* The tab an asleep one woke into takes its id and its viewers.
BugAdopt(i, p, W) ==
  /\ tomb' = [tomb EXCEPT ![i] = NoTomb]
  /\ tombGrace' = tombGrace \ {i}
  /\ tab' = [tab EXCEPT ![p].known = TRUE, ![p].id = i]
  /\ byId' = [j \in Pages |-> IF j = i THEN p
                              ELSE IF j = tab[p].id /\ byId[j] = p THEN 0 ELSE byId[j]]
  /\ alias' = [alias EXCEPT ![p] = i]
  /\ UNCHANGED at
  /\ wire' = Disowned({i}, W)
  /\ reads' = Orphaned({i}, reads)
Adopt(i, p, W) ==
  /\ tomb' = [tomb EXCEPT ![i] = NoTomb]
  /\ tombGrace' = tombGrace \ {i}
  /\ tab' = [tab EXCEPT ![p].known = TRUE, ![p].id = i]
  /\ byId' = [j \in Pages |-> IF j = i THEN p
                              ELSE IF j = tab[p].id /\ byId[j] = p THEN 0 ELSE byId[j]]
  /\ alias' = [alias EXCEPT ![p] = i]
  /\ at' = [v \in Viewers |-> IF at[v].kind = "tomb" /\ at[v].n = i
                               THEN [at[v] EXCEPT !.kind = "tab", !.n = p] ELSE at[v]]
  /\ wire' = Disowned({i}, W)
  /\ reads' = Orphaned({i}, reads)

\* page: Chrome reports a page, known or new.
Report(p) ==
  /\ p \in news /\ cdp # "none"
  /\ news' = news \ {p}
  /\ seen' = IF cdp = "reporting" THEN seen \cup {p} ELSE seen
  /\ remembered' = remembered \cup ({alias[p]} \cap Links)
  /\ UNCHANGED <<open, late, fileVars, cdp, closing, look, refresh, countVars>>
  /\ LET i == alias[p] IN
     IF tab[p].known
     THEN UNCHANGED <<wire, tab, byId, alias, tombVars, at, reads>> /\ ReviewTabs({})
     ELSE IF i # p /\ tomb[i].on
     THEN Adopt(i, p, wire) /\ ReviewTabs({p})
     ELSE /\ tab' = [tab EXCEPT ![p] = [NoTab EXCEPT !.known = TRUE, !.id = i]]
          /\ byId' = [byId EXCEPT ![i] = p]
          /\ UNCHANGED <<wire, alias, tombVars, at, reads>>
          /\ ReviewTabs({p})

\* The answer to a wake: the page keeps the id, reported already or not.
Woken(m) ==
  /\ m \in wire /\ m.op = "woken"
  /\ UNCHANGED <<open, news, late, fileVars, linkVars, closing, look, refresh,
                 remembered, countVars>>
  /\ IF tab[m.page].known /\ m.mine
     THEN Adopt(m.id, m.page, wire \ {m}) /\ ReviewTabs({m.page})
     ELSE /\ alias' = [alias EXCEPT ![m.page] = m.id]
          /\ wire' = wire \ {m}
          /\ UNCHANGED <<tab, byId, tombVars, at, reads, grace>>

\* Chrome does not open the page: it is tried again while someone waits.
BugWakeFails(m) ==
  /\ m \in wire /\ m.op = "wake" /\ faults < MaxFaults
  /\ faults' = faults + 1
  /\ wire' = wire \ {m}
  /\ tomb' = IF m.mine THEN [tomb EXCEPT ![m.id].waking = FALSE] ELSE tomb
  /\ UNCHANGED <<open, news, late, fileVars, linkVars, tabVars, closing, at, readVars,
                 remembered, edits, drops>>
  /\ ReviewTombs(IF m.mine THEN {m.id} ELSE {})
WakeFails(m) ==
  /\ m \in wire /\ m.op = "wake" /\ faults < MaxFaults
  /\ faults' = faults + 1
  /\ wire' = wire \ {m}
  /\ tomb' = IF m.mine
             THEN [tomb EXCEPT ![m.id].waking = FALSE, ![m.id].retry = Waiting(m.id) # {}]
             ELSE tomb
  /\ UNCHANGED <<open, news, late, fileVars, linkVars, tabVars, closing, at, readVars,
                 remembered, edits, drops>>
  /\ ReviewTombs(IF m.mine THEN {m.id} ELSE {})

\* A woken page that is not reported in time.
WakeGivesUp(i) ==
  /\ tomb[i].waking
  /\ ~\E m \in wire : m.op \in {"wake", "woken"} /\ m.id = i /\ m.mine
  /\ ~\E p \in news : alias[p] = i
  /\ tomb' = [tomb EXCEPT ![i].waking = FALSE]
  /\ UNCHANGED <<chromeVars, fileVars, linkVars, tabVars, tombGrace, closing, at,
                 readVars, remembered, countVars>>

WakeRetry(i) ==
  /\ tomb[i].retry
  /\ tomb' = [tomb EXCEPT ![i] = IF CanWake(i) THEN Woke(i) ELSE [@ EXCEPT !.retry = FALSE]]
  /\ wire' = IF CanWake(i) THEN wire \cup Wakes({i}) ELSE wire
  /\ tombGrace' = IF CanWake(i) THEN tombGrace \ {i} ELSE tombGrace
  /\ UNCHANGED <<open, news, late, fileVars, linkVars, tabVars, closing, at, readVars,
                 remembered, countVars>>

\* The time in which an agent wakes the tab: it outlasts a change reported
\* and read at once.
WindowCloses(i) ==
  /\ tomb[i].window
  /\ ~unreported /\ ~refresh /\ ~\E r \in reads : r.who = "refresh"
  /\ tomb' = [tomb EXCEPT ![i].window = FALSE, ![i].from = 0]
  /\ UNCHANGED <<chromeVars, fileVars, linkVars, tabVars, tombGrace, closing, at,
                 readVars, remembered, countVars>>

-----------------------------------------------------------------------------
(* Pages that are gone                                                       *)

\* The ids that end with the pages of U, those of fell asleep.
BugEnded(U, fell) == {}
Ended(U, fell) == {tab[p].id : p \in {q \in U \ fell : Target(tab[q].id) = q}}

\* The pages of U are gone, the tombstones of F are asleep, those of D go
\* because their tab stays awake.
Settle(U, F, D) ==
  LET fell == {p \in U : tab[p].id \in F /\ tomb[tab[p].id].falling = p}
      there(v) == CASE at[v].kind = "tab" /\ at[v].n \in fell ->
                         [at[v] EXCEPT !.kind = "tomb", !.n = tab[at[v].n].id]
                    [] at[v].kind = "tab" /\ at[v].n \in U \ fell -> Nowhere
                    [] at[v].kind = "tomb" /\ at[v].n \in D -> Nowhere
                    [] OTHER -> at[v]
      viewed == {i \in F : \E v \in Viewers :
                               there(v).kind = "tomb" /\ there(v).n = i /\ there(v).shown}
      woken == IF cdp = "ready" THEN viewed ELSE {}
  IN /\ tab' = [p \in Pages |-> IF p \in U THEN NoTab ELSE tab[p]]
     /\ byId' = [i \in Pages |-> IF byId[i] \in U THEN 0 ELSE byId[i]]
     /\ alias' = [p \in Pages |-> IF p \in U THEN p ELSE alias[p]]
     /\ at' = [v \in Viewers |-> there(v)]
     /\ tomb' = [i \in Pages |->
                   IF i \in D THEN NoTomb
                   ELSE IF i \in F
                   THEN [tomb[i] EXCEPT !.falling = 0, !.window = TRUE, !.touched = FALSE, !.waking = i \in woken]
                   ELSE tomb[i]]
     /\ wire' = Disowned(D, wire) \cup Wakes(woken)
     /\ refresh' = (refresh \/ \E i \in F \ viewed : tomb[i].touched)
     /\ reads' = Orphaned(D, reads)
     /\ closing' = [i \in Pages |->
                      IF i \in Ended(U, fell) \/ (cdp # cdp' /\ ~Awake(i)' /\ ~tomb'[i].on)
                      THEN "no" ELSE closing[i]]
     /\ UNCHANGED look
     /\ ReviewTombs(F)
     /\ ReviewTabs({})

\* gone: Chrome reports that a page ended.
Gone(p) ==
  /\ p \in Known \ (open \cup news)
  /\ Attached(p)
  /\ UNCHANGED <<open, news, late, fileVars, linkVars, remembered, countVars>>
  /\ Settle({p}, {i \in Pages : tomb[i].falling = p}, {})

\* The end of a close for everyone; without a connection it waits.  Chrome
\* opens a page within it, unless it is slow.
FinishClose(i) ==
  /\ closing[i] = "counting" /\ (SlowChrome \/ ~Opening(i))
  /\ UNCHANGED <<open, news, late, fileVars, linkVars, tab, byId, look, refresh,
                 remembered, countVars>>
  /\ IF Asleep(i)
     THEN EndTombs({i}, reads, wire) /\ UNCHANGED grace
     ELSE /\ UNCHANGED <<alias, at, reads, tombGrace, grace>>
          /\ IF cdp # "ready"
             THEN closing' = [closing EXCEPT ![i] = "due"] /\ UNCHANGED <<tomb, wire>>
             ELSE /\ tomb' = [tomb EXCEPT ![i] = NoTomb]
                  /\ closing' = [closing EXCEPT ![i] = IF Awake(i) THEN "due" ELSE "no"]
                  /\ wire' = IF Awake(i) THEN wire \cup {Command("end", Target(i), 0)}
                                         ELSE wire

-----------------------------------------------------------------------------
(* The connection                                                            *)

\* The socket drops.  A command Chrome took stays with it, without an answer.
Lost ==
  /\ cdp # "none" /\ drops < MaxDrops
  /\ drops' = drops + 1
  /\ cdp' = "none" /\ seen' = {} /\ news' = {} /\ wire' = {}
  /\ LET left == {p \in Known : Watching(p) = {}}
         taken == {m \in wire : (m.op \in {"close", "end"} /\ m.page \in open) \/ m.op = "wake"}
         broken == {m.id : m \in {w \in wire : w.op \in {"wake", "woken"} /\ w.mine}}
     IN /\ late' = late \cup {[cmd |-> m, drop |-> drops] : m \in taken}
        /\ tab' = [p \in Pages |->
                     IF p \in left THEN NoTab ELSE [tab[p] EXCEPT !.fall = FALSE]]
        /\ byId' = [i \in Pages |-> IF byId[i] \in left THEN 0 ELSE byId[i]]
        /\ tomb' = [i \in Pages |->
                      IF i \in broken
                      THEN [tomb[i] EXCEPT !.waking = FALSE, !.retry = Waiting(i) # {}]
                      ELSE tomb[i]]
        /\ UNCHANGED <<open, fileVars, alias, closing, at, look, refresh,
                       remembered, edits, faults>>
        /\ reads' = {[r EXCEPT !.stale = (r.who = "sleep" /\ r.n \in left) \/ @] : r \in reads}
        /\ ReviewTombs(broken)
        /\ ReviewTabs({})

Connect ==
  /\ cdp = "none"
  /\ cdp' = "reporting" /\ news' = open
  /\ UNCHANGED <<open, wire, late, fileVars, seen, tabVars, tombVars, closing, at,
                 readVars, remembered, countVars>>

\* Every page is reported: what did not come back is gone, or asleep if it
\* was falling asleep; a tombstone whose tab is there goes.
Discovered ==
  /\ cdp = "reporting" /\ news = {}
  /\ cdp' = "settling" /\ seen' = {}
  /\ UNCHANGED <<open, news, late, fileVars, remembered, countVars>>
  /\ LET U == Known \ seen
         F == {i \in Tombs : tomb[i].falling # 0 /\ tomb[i].falling \notin seen}
         D == {i \in Tombs : IF tomb[i].falling # 0 THEN tomb[i].falling \in seen
                             ELSE Target(i) \in Known \ U}
     IN Settle(U, F, D)

\* The read of the holds done, the hub is ready: who waits is woken and the closes
\* that fell due are finished.
Readied(called) ==
  LET ending == {i \in Pages : closing[i] = "due" /\ Asleep(i)}
      ended == {i \in Pages : closing[i] = "due" /\ ~Asleep(i) /\ Awake(i)}
      woken == {i \in Pages \ ending : Asleep(i) /\ ~tomb[i].waking /\ Shown(Waiting(i))}
      tell(v) == at[v].kind = "tomb" /\ at[v].n \in ending
  IN /\ cdp = "settling"
     /\ cdp' = "ready"
     /\ tomb' = [i \in Pages |->
                   IF closing[i] = "due" THEN NoTomb
                   ELSE IF i \in woken THEN [Woke(i) EXCEPT !.window = @ /\ i \notin called]
                   ELSE [tomb[i] EXCEPT !.window = @ /\ i \notin called]]
     /\ alias' = [p \in Pages |->
                    IF alias[p] \in ending /\ p \notin Known THEN p ELSE alias[p]]
     /\ at' = [v \in Viewers |-> IF tell(v) THEN Nowhere ELSE at[v]]
     /\ closing' = [i \in Pages |->
                      IF i \in ending \/ (closing[i] = "due" /\ ~Awake(i)) THEN "no"
                      ELSE closing[i]]
     /\ reads' = Orphaned(ending, reads)
     /\ wire' = Disowned(ending, wire) \cup Wakes(woken)
                  \cup {Command("end", Target(i), 0) : i \in ended}
     /\ UNCHANGED <<open, news, late, fileVars, seen, tab, byId, refresh, remembered,
                    edits, drops>>

\* Before, connect reads the holds, and a read that fails keeps the last one.
Ready ==
  /\ look' = LookOf(Read("refresh", 0))
  /\ Readied(Called(agents))
  /\ UNCHANGED faults
  /\ ReviewTombs(Pages) /\ ReviewTabs(Pages)
ReadyBlind ==
  /\ faults < MaxFaults
  /\ faults' = faults + 1
  /\ UNCHANGED look
  /\ Readied({})
  /\ ReviewTombs({}) /\ ReviewTabs({})

-----------------------------------------------------------------------------
(* Chrome                                                                    *)

\* It closes the page it was asked to close.
PageCloses(m) ==
  /\ m \in wire /\ m.op \in {"close", "end"}
  /\ open' = open \ {m.page}
  /\ wire' = wire \ {m} /\ late' = LateBut(m.page)
  /\ UNCHANGED <<news, fileVars, linkVars, tabVars, tombVars, closing, at, readVars,
                 remembered, countVars>>

\* It opens the page a wake asks for, which the hub hears of twice.
PageWakes(m, p) ==
  /\ m \in wire /\ m.op = "wake" /\ p \in Fresh /\ \A q \in Fresh : p <= q
  /\ open' = open \cup {p} /\ news' = news \cup {p}
  /\ wire' = (wire \ {m}) \cup {[m EXCEPT !.op = "woken", !.page = p]}
  /\ remembered' = remembered \ {p}
  /\ UNCHANGED <<late, fileVars, linkVars, tabVars, tombVars, closing, at, readVars,
                 countVars>>

\* It does what a dropped connection asked for: the close names its page, the
\* page of a wake is one more, as nobody has its answer.
LateClose(l) ==
  LET p == l.cmd.page IN
  /\ l \in late /\ l.cmd.op \in {"close", "end"} /\ p \in open \ news
  /\ open' = open \ {p} /\ late' = LateBut(p)
  /\ wire' = {m \in wire : m.page # p}
  /\ UNCHANGED <<news, fileVars, linkVars, tabVars, tombVars, closing, at, readVars,
                 remembered, countVars>>

LateOpens(l, p) ==
  /\ l \in late /\ l.cmd.op = "wake" /\ p \in Fresh /\ \A q \in Fresh : p <= q
  /\ open' = open \cup {p} /\ late' = late \ {l}
  /\ news' = IF cdp = "none" THEN news ELSE news \cup {p}
  /\ remembered' = remembered \ {p}
  /\ UNCHANGED <<wire, fileVars, linkVars, tabVars, tombVars, closing, at, readVars,
                 countVars>>

-----------------------------------------------------------------------------
Init ==
  /\ open = {1} /\ news = {} /\ wire = {} /\ late = {}
  /\ holders = Stripped /\ agents = {} /\ unreported = FALSE
  /\ cdp = "none" /\ seen = {}
  /\ tab = [p \in Pages |-> NoTab] /\ byId = [i \in Pages |-> 0]
  /\ alias = [p \in Pages |-> p] /\ grace = [p \in Pages |-> "no"]
  /\ tomb = [i \in Pages |-> NoTomb] /\ tombGrace = {}
  /\ closing = [i \in Pages |-> "no"]
  /\ at = [v \in Viewers |-> Nowhere]
  /\ look = [strips |-> {}, agents |-> {}] /\ reads = {} /\ refresh = FALSE
  /\ remembered = {} /\ edits = 0 /\ drops = 0 /\ faults = 0

Outside ==
  \/ \E p \in Pages : PageEnds(p) \/ AgentComes(p) \/ AgentLeaves(p)
  \/ \E i \in Links : HolderChanges(i) \/ CloseForEveryone(i) \/ Restore(i) \/ WakeTab(i)
  \/ \E v \in Viewers :
       \/ \E i \in Links, shown \in BOOLEAN : Attach(v, i, shown)
       \/ Detach(v) \/ Visible(v)
  \/ \E p \in Pages : tab[p].id \in Links /\ CheckStarts(p)
  \/ \E m \in wire : PageObjects(m)
Faults ==
  \/ Lost \/ ReadyBlind \/ \E r \in reads : ReadFails(r)
  \/ \E m \in wire : WakeFails(m)
Files == WatchReports \/ RefreshStarts \/ Beat
Reads ==
  \E r \in reads : \/ RefreshEnds(r) \/ OtherReadEnds(r) \/ CloseIfUnused(r)
                   \/ EndSleeperIfUnused(r) \/ CheckEnds(r)
Timers ==
  \/ \E p \in Pages : GraceEnds(p) \/ TombGraceEnds(p) \/ FinishClose(p)
                      \/ WakeGivesUp(p) \/ WakeRetry(p) \/ WindowCloses(p)
  \/ \E m \in wire : FallTimeout(m)
Link == Connect \/ Discovered \/ Ready \/ \E p \in Pages : Report(p) \/ Gone(p)
Chrome ==
  \/ \E m \in wire : \/ PageCloses(m) \/ Woken(m)
                     \/ \E p \in Fresh : PageWakes(m, p)
  \/ \E l \in late : LateClose(l) \/ \E p \in Fresh : LateOpens(l, p)

Next == Outside \/ Faults \/ Files \/ Reads \/ Timers \/ Link \/ Chrome


Spec == Init /\ [][Next]_vars

\* The connection is made again, Chrome answers and reports, timers go off
\* and reads return; people, pages and faults are never owed.
Fairness ==
  /\ WF_vars(Connect \/ Discovered \/ Ready)
  /\ WF_vars(\E p \in Pages : Report(p) \/ Gone(p))
  /\ WF_vars(WatchReports) /\ WF_vars(Beat) /\ WF_vars(Reads)
  /\ SF_vars(RefreshStarts)
  /\ WF_vars(\E m \in wire : Woken(m) \/ \E p \in Fresh : PageWakes(m, p))
  /\ \A i \in Links :
       /\ WF_vars(FinishClose(i)) /\ WF_vars(WakeRetry(i)) /\ WF_vars(WindowCloses(i))
       /\ SF_vars(TombGraceEnds(i))
  /\ \A p \in Pages :
       /\ SF_vars(GraceEnds(p))
       /\ WF_vars(PageCloses(Command("end", p, 0)))
       /\ WF_vars(PageCloses(Command("close", p, 0)) \/ FallTimeout(Command("close", p, 0)))
FairSpec == Spec /\ Fairness

-----------------------------------------------------------------------------
(* Properties                                                                *)

TypeOK ==
  /\ open \subseteq Pages /\ news \subseteq Pages
  /\ wire \subseteq [op : {"close", "end", "wake", "woken"}, page : 0..MaxPages,
                     id : 0..MaxPages, mine : BOOLEAN]
  /\ late \subseteq [cmd : [op : {"close", "end", "wake"}, page : 0..MaxPages,
                            id : 0..MaxPages, mine : BOOLEAN], drop : 0..MaxDrops]
  /\ holders \subseteq Pages /\ agents \subseteq Pages /\ unreported \in BOOLEAN
  /\ cdp \in {"none", "reporting", "settling", "ready"} /\ seen \subseteq Pages
  /\ tab \in [Pages -> [known : BOOLEAN, id : 0..MaxPages, fall : BOOLEAN]]
  /\ byId \in [Pages -> 0..MaxPages] /\ alias \in [Pages -> Pages]
  /\ grace \in [Pages -> {"no", "counting", "spent"}]
  /\ tomb \in [Pages -> [on : BOOLEAN, falling : 0..MaxPages, from : 0..MaxPages,
                         touched : BOOLEAN, window : BOOLEAN, waking : BOOLEAN,
                         retry : BOOLEAN]]
  /\ tombGrace \subseteq Pages
  /\ closing \in [Pages -> {"no", "counting", "due"}]
  /\ at \in [Viewers -> [kind : {"none", "tab", "tomb"}, n : 0..MaxPages, shown : BOOLEAN]]
  /\ look \in [strips : SUBSET Pages, agents : SUBSET Pages]
  /\ reads \subseteq [who : {"refresh", "sleep", "unused", "ended", "other"},
                      n : 0..MaxPages, strips : SUBSET Pages, agents : SUBSET Pages,
                      stale : BOOLEAN]
  /\ refresh \in BOOLEAN /\ remembered \subseteq Pages
  /\ edits \in 0..MaxEdits /\ drops \in 0..MaxDrops /\ faults \in 0..MaxFaults

\* An id names the page it was given to: a page that woke keeps the id, and
\* no second page has it.
OneIdOnePage == \A p \in Known : byId[tab[p].id] = p

\* Connected, a tab is asleep or awake, never both.
AsleepOrAwake == cdp = "ready" => \A i \in Pages : ~(Asleep(i) /\ Awake(i))

\* A viewer is on a tab that is there or waits for one that sleeps, through
\* falls, wakes, ends and drops of the connection.
ViewersStand ==
  \A v \in Viewers : /\ at[v].kind = "tab" => tab[at[v].n].known
                     /\ at[v].kind = "tomb" => Asleep(at[v].n)

\* What the maps of the hub say of a tab agrees: tabs, byId, sleeping, and the
\* viewers of each.
TabsAgree == TypeOK /\ OneIdOnePage /\ AsleepOrAwake /\ ViewersStand

\* The tombstone of a tab that falls asleep gives way to nothing but a close
\* for everyone or the tab itself, awake under its id with its fall answered or
\* its page found by a discovery: no grace, read, wake or drop takes it.
FallsStand ==
  [][\A i \in Tombs \ Tombs' : LET p == tomb[i].falling IN
       \/ p = 0 \/ closing[i] # "no"
       \/ /\ tab'[p].known /\ Target(i)' = p
          /\ ~tab'[p].fall \/ p \in seen \cup seen']_vars

\* A tombstone goes when its tab is awake, when it is closed for everyone, or
\* when no strip the hub last read holds it and nobody waits for it: no
\* report, read, wake or reconnect loses a tab that sleeps.
TombstonesKept ==
  [][\A i \in Tombs \ Tombs' :
       \/ Awake(i)' \/ closing[i] # "no"
       \/ i \notin look'.strips /\ Waiting(i) = {}]_vars

\* Whoever waits for a tab to wake, and looks, gets its page or an end; the
\* bound on page numbers may end them.
ViewersAreServed ==
  \A v \in Viewers : []<>(~(at[v].kind = "tomb" /\ at[v].shown) \/ Fresh = {})

\* A close for everyone ends: finished, taken back, or with its tab.
ClosesEnd == \A i \in Pages : []<>(closing[i] = "no" \/ Fresh = {})

\* review: "One that nothing holds or views counts down": such a page does not
\* stay open.
UnusedPagesEnd ==
  \A p \in Pages :
    []<>~(/\ p \in open /\ tab[p].known
          /\ Names(p) \cap (holders \cup agents) = {} /\ Watching(p) = {})

\* wakeForAgent: "An agent that shows up in a tab while it falls asleep, or
\* within `sleepCloseMs` after, wakes it at once under its id";
\* a read or a wake that failed excuses it, and a hub not connected.
AgentsWake ==
  \A i \in Links, p \in Pages :
    (cdp = "ready" /\ tomb[i].falling = p /\ p \in agents)
      ~> (~tomb[i].on \/ tomb[i].waking \/ p \notin agents \/ faults > 0)
=============================================================================
