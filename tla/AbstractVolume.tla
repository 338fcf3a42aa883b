---------------------------- MODULE AbstractVolume ----------------------------
(***************************************************************************)
(* What the controller service promises about iSCSI volumes, without       *)
(* targets, mappings, scripts or failures:                                 *)
(*                                                                         *)
(*   - a volume is only said to be provisioned when its target serves it   *)
(*     with the capacity answered, and from then on neither goes away      *)
(*     before its removal is asked for;                                    *)
(*   - access changes one node at a time, and only for the node an attach  *)
(*     request is about;                                                   *)
(*   - what a request is told about access is so when it is told;          *)
(*   - a removed volume serves nothing and lets nobody in, for ever.       *)
(*                                                                         *)
(* Until it is provisioned, and again once it is being removed, what a     *)
(* volume serves may come and go with the attempts to make or remove it.   *)
(***************************************************************************)
EXTENDS Naturals

CONSTANTS
    Volume,
    Node,
    Capacity    \* what a volume can serve; 0 is nothing at all

VARIABLES
    phase,      \* phase[v]: "unprovisioned", "provisioned", "removing", "removed"
    serves,     \* serves[v]: the capacity initiators find on the target of v
    access,     \* access[v]: the nodes the target of v lets in
    asked,      \* asked[v]: the attach request under way for v, if any
    told        \* told[v][n]: what the last request for n was told

vars == <<phase, serves, access, asked, told>>

(* A request is about one node, kept as a set. *)
Request == [want : {"allow", "deny"}, nodes : {{n} : n \in Node}]
NoRequest == [want |-> "nothing", nodes |-> {}]

Init ==
    /\ phase = [v \in Volume |-> "unprovisioned"]
    /\ serves = [v \in Volume |-> 0]
    /\ access = [v \in Volume |-> {}]
    /\ asked = [v \in Volume |-> NoRequest]
    /\ told = [v \in Volume |-> [n \in Node |-> "unknown"]]

(* The last answer for the nodes of a request is now a. *)
Tell(v, nodes, a) ==
    told' = [told EXCEPT ![v] = [n \in Node |-> IF n \in nodes THEN a ELSE told[v][n]]]

(* An attempt to provision makes, or a withdrawn volume loses, storage. *)
Attempt(v) ==
    /\ phase[v] = "unprovisioned"
    /\ \E c \in Capacity : serves' = [serves EXCEPT ![v] = c]
    /\ UNCHANGED <<phase, access, asked, told>>

(* CreateVolume is answered, perhaps in the step that maps the disk. *)
Provision(v) ==
    /\ phase[v] = "unprovisioned"
    /\ \E c \in Capacity \ {0} : serves' = [serves EXCEPT ![v] = c]
    /\ phase' = [phase EXCEPT ![v] = "provisioned"]
    /\ UNCHANGED <<access, asked, told>>

(* The answer is withdrawn before anybody attached the volume. *)
Withdraw(v) ==
    /\ phase[v] = "provisioned" /\ access[v] = {} /\ asked[v] = NoRequest
    /\ phase' = [phase EXCEPT ![v] = "unprovisioned"]
    /\ UNCHANGED <<serves, access, asked, told>>

AskRemoval(v) ==
    /\ phase[v] = "provisioned"
    /\ phase' = [phase EXCEPT ![v] = "removing"]
    /\ UNCHANGED <<serves, access, asked, told>>

(* The storage goes first, and with the target all access to it. *)
Remove(v) ==
    /\ phase[v] = "removing"
    /\ \/ serves' = [serves EXCEPT ![v] = 0] /\ UNCHANGED <<phase, access>>
       \/ /\ serves[v] = 0 /\ access' = [access EXCEPT ![v] = {}]
          /\ \/ UNCHANGED phase
             \/ phase' = [phase EXCEPT ![v] = "removed"]
          /\ UNCHANGED serves
    /\ UNCHANGED <<asked, told>>

(* Until a request is answered nothing is known of its node. *)
Ask(v, r) ==
    /\ phase[v] # "unprovisioned" /\ asked[v] = NoRequest
    /\ asked' = [asked EXCEPT ![v] = r]
    /\ Tell(v, r.nodes, "unknown")
    /\ UNCHANGED <<phase, serves, access>>

(* The request has its effect, or not yet, or never; it goes on, or ends,   *)
(* and what it then answers is so.                                          *)
Attach(v) ==
    /\ asked[v] # NoRequest
    /\ \/ UNCHANGED access
       \/ /\ asked[v].want = "allow" /\ phase[v] # "removed"
          /\ access' = [access EXCEPT ![v] = @ \cup asked[v].nodes]
       \/ /\ asked[v].want = "deny"
          /\ access' = [access EXCEPT ![v] = @ \ asked[v].nodes]
    /\ \/ UNCHANGED <<asked, told>>
       \/ /\ asked' = [asked EXCEPT ![v] = NoRequest]
          /\ \/ UNCHANGED told
             \/ /\ asked[v].want = "allow" /\ asked[v].nodes \subseteq access'[v]
                /\ Tell(v, asked[v].nodes, "granted")
             \/ /\ asked[v].want = "deny" /\ asked[v].nodes \cap access'[v] = {}
                /\ Tell(v, asked[v].nodes, "revoked")
    /\ UNCHANGED <<phase, serves>>

Next ==
    \E v \in Volume :
       \/ Attempt(v)
       \/ Provision(v)
       \/ Withdraw(v)
       \/ AskRemoval(v)
       \/ Remove(v)
       \/ \E r \in Request : Ask(v, r)
       \/ Attach(v)

Spec == Init /\ [][Next]_vars
=============================================================================
