------------------------------- MODULE PingPage -------------------------------
(***************************************************************************)
(* The ping monitor: the script of views/tool/ping.html, in the tabs of    *)
(* one browser, which share localStorage, with the server's answers.       *)
(*                                                                         *)
(* Every monitored address has a box on the page and is kept alive by a    *)
(* loop: a request to /tool/pingIp whose callback sets a timer of 5        *)
(* seconds that sends the next one.  Script runs to completion, so a step  *)
(* is one event: a click, an answer, a timer, a reload.                    *)
(***************************************************************************)
EXTENDS Integers, FiniteSets

CONSTANTS
  Tabs,           \* the open pages
  Ips,            \* addresses a user types
  MaxLoops        \* bound: an address is added while its tab has fewer loops

ASSUME BoundsAssumption == MaxLoops \in Nat

(* What the user typed for the number of pings: a positive integer, or     *)
(* something IsNumber lets pass and the server cannot use (0, -1, 1.5, or  *)
(* nothing: the default of line 253 is shown, but not used).               *)
Times == {"count", "useless"}

VARIABLES
  pingUrls,       \* localStorage: the times of each address, or "none"
  ipMap,          \* the addresses in the map of each tab
  boxes,          \* the addresses that have a box in each tab
  inFlight,       \* number of requests under way, by tab, address and times
  timers,         \* number of timers set, likewise
  gaveUp          \* boxes for which an answer without data has come

pingVars == <<pingUrls, ipMap, boxes, inFlight, timers, gaveUp>>

StoredIps == {ip \in Ips : pingUrls[ip] # "none"}
Keys == Tabs \X Ips \X Times

PingInit ==
  /\ pingUrls = [ip \in Ips |-> "none"]
  /\ ipMap = [b \in Tabs |-> {}]
  /\ boxes = [b \in Tabs |-> {}]
  /\ inFlight = [k \in Keys |-> 0]
  /\ timers = [k \in Keys |-> 0]
  /\ gaveUp = {}

Loops(b, ip) ==
  inFlight[<<b, ip, "count">>] + inFlight[<<b, ip, "useless">>]
    + timers[<<b, ip, "count">>] + timers[<<b, ip, "useless">>]

(* pingIp(ip, times, divCount), with the map of the tab already at map:    *)
(* make the box on the first call only, and send a request if there is one. *)
pingIp(b, ip, times, divCount, map) ==
  /\ boxes' = [boxes EXCEPT ![b] = IF divCount = 0 /\ ip \in map THEN @ \cup {ip} ELSE @]
  /\ inFlight' = IF ip \in boxes'[b] THEN [inFlight EXCEPT ![<<b, ip, times>>] = @ + 1] ELSE inFlight

-------------------------------------------------------------------------------
(* The user *)

(* addIpInfo, with an address that storage does not have: otherwise an     *)
(* alert and nothing else.                                                 *)
addIpInfo(b, ip, times) ==
  /\ ip \notin StoredIps
  /\ Loops(b, ip) < MaxLoops
  /\ pingUrls' = [pingUrls EXCEPT ![ip] = times]
  /\ ipMap' = [ipMap EXCEPT ![b] = @ \cup {ip}]
  /\ pingIp(b, ip, times, 0, ipMap'[b])
  /\ UNCHANGED <<timers, gaveUp>>

(* A click on the mask of a box.  What is under way stays under way.       *)
stopPingId(b, ip) ==
  /\ ip \in boxes[b]
  /\ ipMap' = [ipMap EXCEPT ![b] = @ \ {ip}]
  /\ boxes' = [boxes EXCEPT ![b] = @ \ {ip}]
  /\ pingUrls' = [pingUrls EXCEPT ![ip] = "none"]
  /\ gaveUp' = gaveUp \ {<<b, ip>>}
  /\ UNCHANGED <<inFlight, timers>>

(* The page is loaded again: everything of the old one is gone, and every  *)
(* address in storage gets its box and its first request.                  *)
Load(b) ==
  /\ ipMap' = [ipMap EXCEPT ![b] = StoredIps]
  /\ boxes' = [boxes EXCEPT ![b] = StoredIps]
  /\ inFlight' = [k \in Keys |-> IF k[1] # b THEN inFlight[k]
                               ELSE IF pingUrls[k[2]] = k[3] THEN 1 ELSE 0]
  /\ timers' = [k \in Keys |-> IF k[1] # b THEN timers[k] ELSE 0]
  /\ gaveUp' = {g \in gaveUp : g[1] # b}
  /\ UNCHANGED pingUrls

-------------------------------------------------------------------------------
(* The server and the clock *)

(* PingUtil.get, as the callback sees it: a result; null, after an         *)
(* IOException or for times that are no use; or no answer at all, when the *)
(* server is down.                                                         *)
Answers(times) ==
  IF times = "count" THEN {"result", "null", "failure"} ELSE {"null", "failure"}

(* Mutant: the error callback sets no timer. *)
AnsweredOnlyResults(b, ip, times) ==
  LET k == <<b, ip, times>>
  IN  /\ inFlight[k] > 0
      /\ inFlight' = [inFlight EXCEPT ![k] = @ - 1]
      /\ \E answer \in Answers(times) :
           \/ /\ answer = "result"
              /\ timers' = [timers EXCEPT ![k] = @ + 1]
              /\ ipMap' = [ipMap EXCEPT ![b] = @ \cup {ip}]
           \/ answer = "failure" /\ UNCHANGED <<timers, ipMap>>
      /\ UNCHANGED <<pingUrls, boxes, gaveUp>>

(* The callbacks.  The one for success reads result.data.averageTime first *)
(* of all: with a null the TypeError leaves it there.                      *)
Answered(b, ip, times) ==
  LET k == <<b, ip, times>>
  IN  /\ inFlight[k] > 0
      /\ inFlight' = [inFlight EXCEPT ![k] = @ - 1]
      /\ \E answer \in Answers(times) :
           \/ /\ answer # "null"
              /\ timers' = [timers EXCEPT ![k] = @ + 1]
              /\ ipMap' = [ipMap EXCEPT ![b] = @ \cup {ip}]
              /\ UNCHANGED gaveUp
           \/ /\ answer = "null"
              /\ gaveUp' = IF ip \in boxes[b] THEN gaveUp \cup {<<b, ip>>} ELSE gaveUp
              /\ UNCHANGED <<timers, ipMap>>
      /\ UNCHANGED <<pingUrls, boxes>>

(* Mutant: setTimeout(pingIp, 5000, ip, times, 0). *)
TimerFiresAsFirst(b, ip, times) ==
  /\ timers[<<b, ip, times>>] > 0
  /\ timers' = [timers EXCEPT ![<<b, ip, times>>] = @ - 1]
  /\ pingIp(b, ip, times, 0, ipMap[b])
  /\ UNCHANGED <<pingUrls, ipMap, gaveUp>>

(* setTimeout(pingIp, 5000, ip, times, 1) runs out. *)
TimerFires(b, ip, times) ==
  /\ timers[<<b, ip, times>>] > 0
  /\ timers' = [timers EXCEPT ![<<b, ip, times>>] = @ - 1]
  /\ pingIp(b, ip, times, 1, ipMap[b])
  /\ UNCHANGED <<pingUrls, ipMap, gaveUp>>

PingUser(b) ==
  \/ Load(b)
  \/ \E ip \in Ips : stopPingId(b, ip) \/ \E times \in Times : addIpInfo(b, ip, times)

Machine(b, ip, times) == Answered(b, ip, times) \/ TimerFires(b, ip, times)

PingNext ==
  \/ \E b \in Tabs : PingUser(b)
  \/ \E b \in Tabs, ip \in Ips, times \in Times : Machine(b, ip, times)

(* Requests are answered or fail, and timers run out; users do as they     *)
(* please.                                                                 *)
Fairness ==
  \A b \in Tabs, ip \in Ips, times \in Times :
    WF_pingVars(Answered(b, ip, times)) /\ WF_pingVars(TimerFires(b, ip, times))

PingSpec == PingInit /\ [][PingNext]_pingVars

FairSpec == PingSpec /\ Fairness

-------------------------------------------------------------------------------
(* Properties *)

PingTypeOK ==
  /\ pingUrls \in [Ips -> Times \cup {"none"}]
  /\ ipMap \in [Tabs -> SUBSET Ips]
  /\ boxes \in [Tabs -> SUBSET Ips]
  /\ inFlight \in [Keys -> 0..MaxLoops]
  /\ timers \in [Keys -> 0..MaxLoops]
  /\ gaveUp \subseteq Tabs \X Ips

(* A box is being refreshed: a request or a timer of it is pending, unless *)
(* an answer without data has ended a loop of it; failures end none.       *)
ShownIsPinged ==
  \A b \in Tabs : \A ip \in boxes[b] : Loops(b, ip) > 0 \/ <<b, ip>> \in gaveUp

(* Whatever a tab shows as monitored is monitored.                         *)
BoxesAlive == PingTypeOK /\ ShownIsPinged

BoxesMoveWithStorage ==
  \A b \in Tabs : /\ boxes'[b] \ boxes[b] \subseteq StoredIps'
                  /\ (boxes[b] \ boxes'[b]) \cap StoredIps' = {}

(* A box comes and goes with the stored entry: no late answer that puts a  *)
(* stopped address back into ipMap, and no timer of it, makes a box, and   *)
(* no box is closed that a reload would bring back.  Other tabs may keep   *)
(* boxes of addresses that are no longer stored.                           *)
BoxFollowsStorage == [][BoxesMoveWithStorage]_pingVars

(* An address that was stopped is left alone in the end: its timers run    *)
(* out and send nothing, unless the user brings it back.                   *)
StoppedFallsSilent ==
  \A b \in Tabs, ip \in Ips :
    ip \notin boxes[b] ~> Loops(b, ip) = 0 \/ ip \in boxes[b]

(* What was stopped stays stopped, though its request or its timer is      *)
(* still under way: it gets no box, and falls silent.                      *)
StopIsObeyed == BoxFollowsStorage /\ StoppedFallsSilent

(* Line 247, "已监测该IP" (this IP is being monitored already): an address *)
(* is monitored once.                                                      *)
OneLoopPerIp == \A b \in Tabs, ip \in Ips : Loops(b, ip) <= 1
===============================================================================
