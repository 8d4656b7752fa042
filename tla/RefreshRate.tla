---------------------------- MODULE RefreshRate ----------------------------
(***************************************************************************)
(* How often Refresh throws a session away.  sinceDrop[id] is a history    *)
(* variable: the time since Refresh last dropped the session of id, capped *)
(* at Cooldown.  It is not lastRefresh: that map is also written when      *)
(* Refresh finds nothing to drop, and cleared by the reaper.               *)
(***************************************************************************)
EXTENDS ProxyHandler

VARIABLE sinceDrop

rateVars == <<vars, sinceDrop>>

(* This step is a Refresh that takes the session of id off the map. *)
Drops(id) ==
    /\ sessions[id] # None
    /\ sessions'[id] = None
    /\ \E r \in Reqs : /\ req[r].pc = "refresh" /\ req[r].id = id
                       /\ req'[r].pc = "rget"

RateInit == Init /\ sinceDrop = [id \in Ids |-> Cooldown]

RateNext ==
    \/ /\ TimePasses
       /\ sinceDrop' = [id \in Ids |->
             IF sinceDrop[id] = Cooldown THEN Cooldown ELSE sinceDrop[id] + 1]
    \/ /\ Step
       /\ sinceDrop' = [id \in Ids |->
             IF ~up' THEN Cooldown ELSE IF Drops(id) THEN 0 ELSE sinceDrop[id]]

RateSpec == RateInit /\ [][RateNext]_rateVars

(* Within refreshCooldown of dropping a session of an id, Refresh does not *)
(* drop another: an id costs at most one re-Ensure per cooldown however    *)
(* many requests fail to dial it.  Needs IdleTTL >= Cooldown, since the    *)
(* reaper forgets when an id was last refreshed.                           *)
DropsAreSpaced ==
    [][\A id \in Ids : Drops(id) => sinceDrop[id] = Cooldown]_rateVars
=============================================================================
