---------------------------- MODULE BrowserTabs ----------------------------
(***************************************************************************)
(* The pages that one browser has open (web services/network.ts): which    *)
(* device id each takes (getPersistentDeviceId) and how they find each     *)
(* other over a BroadcastChannel, the local bus.                           *)
(*                                                                         *)
(* All pages share localStorage: one of them holds the browser's base id   *)
(* and refreshes a time stamp; a page that finds the stamp fresh takes an  *)
(* id of its own. A tab keeps its id in sessionStorage when its page is    *)
(* reloaded, and a copy of the tab starts with that. The browser is        *)
(* external: when it runs timers, delivers messages, copies tabs and       *)
(* brings back pages.                                                      *)
(***************************************************************************)
EXTENDS Naturals, Sequences

CONSTANTS
  Tabs,         \* the browser's tabs
  Beat,         \* 3500 ms: the period of a page's timer
  FreshFor,     \* 4500 ms: how long the stamp keeps others from the base id
  Expiry,       \* 12 s: how long a page is listed without a sign of life
  MaxReloads    \* how often a page comes back in its tab

ASSUME TabsAssumption ==
  /\ Beat \in Nat \ {0} /\ FreshFor \in Nat /\ Expiry \in Nat /\ MaxReloads \in Nat
  /\ Beat < FreshFor /\ FreshFor < Expiry
  /\ {"base", "none"} \cap Tabs = {}

VARIABLES
  tabs,      \* the page in each tab: its id and token, the time since its timer ran, whom it lists
  stamp,     \* mog_device_active_tab and the age of mog_device_active_ts
  bus,       \* messages of the bus that wait at each page
  reloads,   \* pages that came back so far
  odd,       \* history: copied tabs, those whose page came back or looked while another did
  late       \* history: tabs whose timers the browser held back

tabsVars == <<tabs, stamp, bus, reloads, odd, late>>

Ids == Tabs \cup {"base"}
Unlisted == Expiry + Beat + 2

TabsTypeOK ==
  /\ tabs \in [Tabs -> [phase : {"new", "looking", "open", "closed"}, id : Ids \cup {"none"},
                        token : Tabs, free : BOOLEAN, clock : 0 .. Beat, seen : [Ids -> 0 .. Unlisted]]]
  /\ stamp \in [holder : Tabs \cup {"none"}, age : 0 .. FreshFor]
  /\ \A t \in Tabs : \A i \in DOMAIN bus[t] :
       bus[t][i] \in [kind : {"presence", "bye"}, from : Ids, reply : BOOLEAN]
  /\ reloads \in 0 .. MaxReloads
  /\ odd \subseteq Tabs /\ late \subseteq Tabs

Open == {t \in Tabs : tabs[t].phase = "open"}

TabsInit ==
  /\ tabs = [t \in Tabs |-> [phase |-> "new", id |-> "none", token |-> t, free |-> FALSE,
                             clock |-> 0, seen |-> [i \in Ids |-> Unlisted]]]
  /\ stamp = [holder |-> "none", age |-> FreshFor]
  /\ bus = [t \in Tabs |-> <<>>]
  /\ reloads = 0
  /\ odd = {}
  /\ late = {}

-----------------------------------------------------------------------------
\* What a page posts reaches the other pages that are open.
PostedToAll(t, kind, from, reply, queues) ==
  [u \in Tabs |-> IF u \in Open \ {t} THEN Append(queues[u], [kind |-> kind, from |-> from, reply |-> reply])
                  ELSE queues[u]]

\* Another page holds the base id.
Taken(t) == stamp.holder \notin {"none", t} /\ stamp.age < FreshFor

\* getPersistentDeviceId: a page looks, and then writes what it found; localStorage
\* has no lock against the pages of other processes.
Look(t) ==
  /\ tabs[t].phase = "new"
  /\ tabs' = [tabs EXCEPT ![t].phase = "looking", ![t].free = ~Taken(t)]
  /\ odd' = LET others == {u \in Tabs : tabs[u].phase = "looking"} IN
            IF others = {} THEN odd ELSE odd \cup others \cup {t}
  /\ UNCHANGED <<stamp, bus, reloads, late>>

\* It takes its id and joins the bus: initLocalBroadcastBus.
Joins(t, id, token) ==
  /\ tabs' = [tabs EXCEPT ![t] = [@ EXCEPT !.phase = "open", !.id = id, !.token = token, !.clock = 0]]
  /\ bus' = PostedToAll(t, "presence", id, TRUE, bus)

Claim(t) ==
  /\ tabs[t].phase = "looking"
  /\ Joins(t, IF tabs[t].free THEN "base" ELSE t, t)
  /\ stamp' = IF tabs[t].free THEN [holder |-> t, age |-> 0] ELSE stamp
  /\ UNCHANGED <<reloads, odd, late>>

\* A tab is a copy of one that is open: sessionStorage was copied with it, so that
\* its page has the id and the token of the other, and looks at nothing else.
Copied(t, u) ==
  /\ tabs[t].phase = "new"
  /\ u \in Open
  /\ odd' = odd \cup {t}
  /\ Joins(t, tabs[u].id, tabs[u].token)
  /\ UNCHANGED <<stamp, reloads, late>>

\* A page comes back, reloaded or restored: sessionStorage has its id, and it looks
\* at nothing else.
ComesBack(t) ==
  /\ tabs[t].phase = "closed"
  /\ reloads < MaxReloads
  /\ reloads' = reloads + 1
  /\ odd' = odd \cup {t}
  /\ Joins(t, tabs[t].id, tabs[t].token)
  /\ UNCHANGED <<stamp, late>>

\* beforeunload and destroy(), or a page that dies without either
Leaves(t) ==
  /\ t \in Open
  /\ tabs' = [tabs EXCEPT ![t].phase = "closed", ![t].clock = 0, ![t].seen = [i \in Ids |-> Unlisted]]
  /\ \E bye \in BOOLEAN :
       bus' = [(IF bye THEN PostedToAll(t, "bye", tabs[t].id, FALSE, bus) ELSE bus) EXCEPT ![t] = <<>>]
  /\ UNCHANGED <<stamp, reloads, odd, late>>

-----------------------------------------------------------------------------
\* As Refreshed, without the time stamp (a plausible bug).
RefreshedNever(t) == stamp

\* The holder of the base id says that it is alive.
Refreshed(t) == IF stamp.holder = tabs[t].token THEN [stamp EXCEPT !.age = 0] ELSE stamp

\* As Expired, nobody being taken off the list (a plausible bug).
ExpiredNever(seen) == seen

\* Pages without a sign of life are taken off the list.
Expired(seen) == [i \in Ids |-> IF seen[i] > Expiry THEN Unlisted ELSE seen[i]]

\* The page's timer
Timer(t) ==
  /\ t \in Open
  /\ tabs[t].clock = Beat
  /\ tabs' = [tabs EXCEPT ![t].clock = 0, ![t].seen = Expired(@)]
  /\ stamp' = Refreshed(t)
  /\ bus' = PostedToAll(t, "presence", tabs[t].id, FALSE, bus)
  /\ UNCHANGED <<reloads, odd, late>>

\* As Replies, nobody being answered (a plausible bug).
RepliesNever(t, m, queues) == queues

\* A page that is new asks the others for a sign of life.
Replies(t, m, queues) ==
  IF m.reply THEN PostedToAll(t, "presence", tabs[t].id, FALSE, queues) ELSE queues

\* localBus.onmessage
Hears(t) ==
  /\ t \in Open
  /\ bus[t] # <<>>
  /\ LET m == Head(bus[t])
         rest == [bus EXCEPT ![t] = Tail(@)] IN
     IF m.from = tabs[t].id THEN bus' = rest /\ UNCHANGED tabs
     ELSE IF m.kind = "presence" THEN
       /\ tabs' = [tabs EXCEPT ![t].seen[m.from] = 0]
       /\ bus' = Replies(t, m, rest)
     ELSE
       /\ tabs' = [tabs EXCEPT ![t].seen[m.from] = Unlisted]
       /\ bus' = rest
  /\ UNCHANGED <<stamp, reloads, odd, late>>

-----------------------------------------------------------------------------
\* The browser holds back the timers of a page that is not in front.
HeldBack(t) ==
  /\ t \in Open \ late
  /\ late' = late \cup {t}
  /\ UNCHANGED <<tabs, stamp, bus, reloads, odd>>

Older(age, last) == IF age < last THEN age + 1 ELSE age

\* Time passes: not before messages are heard, a page has written what it looked
\* for, and timers that are due have run, those held back excepted.
Time ==
  /\ \A t \in Tabs : tabs[t].phase # "looking" /\ bus[t] = <<>>
  /\ \A t \in Open \ late : tabs[t].clock < Beat
  /\ tabs' = [t \in Tabs |->
       IF t \in Open
       THEN [tabs[t] EXCEPT !.clock = Older(@, Beat),
                            !.seen = [i \in Ids |-> IF @[i] = Unlisted THEN @[i]
                                                    ELSE Older(@[i], Unlisted - 1)]]
       ELSE tabs[t]]
  /\ stamp' = [stamp EXCEPT !.age = Older(@, FreshFor)]
  /\ UNCHANGED <<bus, reloads, odd, late>>

TabsNext ==
  \/ \E t \in Tabs :
       \/ Look(t) \/ Claim(t) \/ ComesBack(t) \/ Leaves(t)
       \/ Timer(t) \/ Hears(t) \/ HeldBack(t)
       \/ \E u \in Tabs : Copied(t, u)
  \/ Time

TabsSpec == TabsInit /\ [][TabsNext]_tabsVars

-----------------------------------------------------------------------------
\* network.ts:77-109: no two open pages are the same device, in whatever order tabs
\* are opened, closed and lost, unless one of the two is in a copied tab (77-82: it
\* has the id of the page it was copied from, open as that may be), looked while
\* another page did, had its timers held back, or came back: restored when its claim
\* is stale, or reloaded, because its timer starts anew while the stamp grows old.
OneTabPerId ==
  \A t, u \in Open \ (odd \cup late) : tabs[t].id = tabs[u].id => t = u

\* Once its messages are heard, a page lists every other page, those of its own id,
\* and those whose id a page that was copied, came back or was held back has, too,
\* excepted.
TabsListed ==
  \A t \in Open \ late, u \in Open \ late :
    \/ tabs[t].id = tabs[u].id
    \/ \E v \in odd \cup late : tabs[v].id = tabs[u].id
    \/ \E v \in Tabs : bus[v] # <<>>
    \/ tabs[t].seen[tabs[u].id] # Unlisted

\* A page that is gone, without a word even, is not listed for longer than the
\* expiry and one period of the timer.
NoGhostTabs ==
  \A t \in Open \ late : \A i \in Ids :
    \/ tabs[t].seen[i] \in 0 .. Expiry + Beat \cup {Unlisted}
    \/ \E u \in Open : tabs[u].id = i

\* network.ts:694-804: the pages of a browser know of each other while they are open,
\* in whatever order they open, ask, answer, close and die, and for as long only.
BusKnowsTabs == TabsListed /\ NoGhostTabs
=============================================================================
