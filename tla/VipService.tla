----------------------------- MODULE VipService -----------------------------
(***************************************************************************)
(* The VIP reconciler: the one task of the controller that writes the      *)
(* per-Gateway VIP Service of shared-mode Gateways                         *)
(* (coxswain-controller/src/operator/vip.rs), seen by one Gateway.         *)
(*                                                                         *)
(* A pass snapshots the Gateway store, which lags behind the API object,   *)
(* reads the live Service, mutates it at most once and publishes whether   *)
(* provisioning failed for good.  A Service's clusterIP is immutable, so   *)
(* another address is a delete in one pass and a create in a later one.    *)
(*                                                                         *)
(* Abstracted: internal ports are named by the listener ports they serve   *)
(* (the allocator never moves a persisted one); the configured type of a   *)
(* Service without a requested address is LoadBalancer, the one whose      *)
(* address arrives late; the Gateway stays in shared mode, so the pruning  *)
(* of orphans never touches its Service; the order of the candidates, of   *)
(* which the first accepted one is bound, is left open.                    *)
(***************************************************************************)
EXTENDS Naturals, FiniteSets

CONSTANTS
  Ports,        \* the ports listeners are declared on
  Ips,          \* addresses spec.addresses may request
  OutOfRange,   \* those outside the Service CIDR
  Specs,        \* the specs a user may apply: [ports, addrs, params]
  MaxGen,       \* bound on metadata.generation
  MaxFaults,    \* bound on failed API calls and other mishaps
  None

\* Entries of spec.addresses that are not IP addresses: a Hostname, and an
\* entry of a type coxswain does not support.
Host == "host"
BadType == "type"

Requests == Ips \cup {Host, BadType}
SpecType == [ports : SUBSET Ports \ {{}}, addrs : SUBSET Requests,
             params : {"yes", "no"}]

ASSUME SpecsAssumption ==
  /\ OutOfRange \subseteq Ips
  /\ Specs \subseteq SpecType /\ Specs # {}
ASSUME BoundsAssumption == MaxGen \in Nat \ {0} /\ MaxFaults \in Nat

VARIABLES
  gw,        \* the Gateway in the API: [gen, spec]
  store,     \* its copy in the controller's watch store
  vip,       \* the VIP Service in the API, or None
  pass,      \* the pass that is running: [pc, spec, failed]
  failures,  \* "yes" when vip_failures holds the Gateway
  faults     \* mishaps that happened so far

vipVars == <<gw, store, vip, pass, failures, faults>>

Objects == [gen : 1..MaxGen, spec : Specs]
\* ip is the clusterIP ("auto" when the API server chose it), kind whether the
\* rendered type is ClusterIP with that pin ("static") or LoadBalancer, and lb
\* whether the cloud has assigned the load balancer's address.
Services == [kind : {"static", "auto"}, ip : Ips \cup {"auto"},
             lb : {"yes", "no"}, ports : SUBSET Ports]
ASSUME AddressAssumption ==
  None \notin Services /\ None \notin Ips \cup {"auto", "lb"} /\ "lb" \notin Ips
Passes == [pc : {"idle", "bind", "publish"}, spec : Specs, failed : {"yes", "no"}]

NoPass == [pc |-> "idle", spec |-> CHOOSE s \in Specs : TRUE, failed |-> "no"]

VipTypeOK ==
  /\ gw \in Objects /\ store \in Objects
  /\ vip \in Services \cup {None}
  /\ pass \in Passes
  /\ failures \in {"yes", "no"}
  /\ faults \in 0..MaxFaults

VipInit ==
  /\ gw \in [gen : {1}, spec : Specs] /\ store = gw
  /\ vip = None /\ failures = "no" /\ faults = 0
  /\ pass = NoPass

Fault == faults < MaxFaults /\ faults' = faults + 1
NoFault == faults' = faults

-----------------------------------------------------------------------------
\* The user, the watch and the cloud.

Edit ==
  /\ gw.gen < MaxGen
  /\ \E s \in Specs \ {gw.spec} : gw' = [gen |-> gw.gen + 1, spec |-> s]
  /\ UNCHANGED <<store, vip, pass, failures, faults>>

Deliver ==
  /\ store # gw /\ store' = gw
  /\ UNCHANGED <<gw, vip, pass, failures, faults>>

AssignLb ==
  /\ vip # None /\ vip.kind = "auto" /\ vip.lb = "no"
  /\ vip' = [vip EXCEPT !.lb = "yes"]
  /\ UNCHANGED <<gw, store, pass, failures, faults>>

\* The Service is deleted by somebody else.
LoseService ==
  /\ vip # None /\ vip' = None /\ Fault
  /\ UNCHANGED <<gw, store, pass, failures>>

\* The address that service_vip_address finds on a Service.
Address(svc) == IF svc = None THEN None
                ELSE IF svc.kind = "static" THEN svc.ip
                ELSE IF svc.lb = "yes" THEN "lb" ELSE None

-----------------------------------------------------------------------------
\* The pass: reconcile_all_vips.

\* requested_static_cluster_ips: nothing is pinned for a Gateway that is going
\* to be rejected for an unsupported type.
Candidates(spec) == IF BadType \in spec.addrs THEN {} ELSE spec.addrs \cap Ips

PassStart ==
  /\ pass.pc = "idle"
  /\ pass' = [pc |-> "bind", spec |-> store.spec, failed |-> "no"]
  /\ UNCHANGED <<gw, store, vip, failures, faults>>

Finished(failed) == pass' = [pass EXCEPT !.pc = "publish", !.failed = failed]

\* The keep-or-repin decision reads the live Service, which no other task
\* writes; when the read fails the Gateway is left for the next pass.
Static == pass.pc = "bind" /\ Candidates(pass.spec) # {}
Live == IF vip = None THEN None ELSE vip.ip

ReadFails ==
  /\ Static /\ Finished("no") /\ Fault
  /\ UNCHANGED <<gw, store, vip, failures>>

\* A call that reports an error may have taken effect: its reply was lost.
Call(effect) == \/ vip' = effect /\ NoFault
                \/ vip' \in {vip, effect} /\ Fault

Pinned(ip) == [kind |-> "static", ip |-> ip, lb |-> "no", ports |-> pass.spec.ports]

\* No static address requested: server-side apply of the rendered Service. The
\* API server keeps the clusterIP of a Service that exists.
ApplyAuto ==
  /\ pass.pc = "bind" /\ Candidates(pass.spec) = {}
  /\ Call([kind |-> "auto", ip |-> IF vip = None THEN "auto" ELSE vip.ip,
           lb |-> IF vip # None /\ vip.kind = "auto" THEN vip.lb ELSE "no",
           ports |-> pass.spec.ports])
  /\ Finished("no")
  /\ UNCHANGED <<gw, store, failures>>

\* The live clusterIP is a requested one: keep it and apply the rest.
KeepPinned ==
  /\ Static /\ Live \in Candidates(pass.spec)
  /\ Call(Pinned(Live))
  /\ Finished("no")
  /\ UNCHANGED <<gw, store, failures>>

\* Mutant: a repin that forgets to free the Service with the old address.
FreeStaleKept ==
  /\ Static /\ Live # None /\ Live \notin Candidates(pass.spec)
  /\ Call(vip)
  /\ Finished("no")
  /\ UNCHANGED <<gw, store, failures>>

\* Mutant: every live Service is freed for the requested addresses.
FreeStaleEager ==
  /\ Static /\ Live # None
  /\ Call(None)
  /\ Finished("no")
  /\ UNCHANGED <<gw, store, failures>>

\* The live clusterIP is not requested: delete the Service, and leave the
\* create to a later pass.
FreeStale ==
  /\ Static /\ Live # None /\ Live \notin Candidates(pass.spec)
  /\ Call(None)
  /\ Finished("no")
  /\ UNCHANGED <<gw, store, failures>>

\* apply_error_is_transient: only a 422 that says "already allocated" is.
IsTransient(error) == error = "allocated"

\* The first candidate the API server accepts is bound.
BindCandidate ==
  /\ Static /\ Live = None
  /\ \E ip \in Candidates(pass.spec) \ OutOfRange : vip' = Pinned(ip)
  /\ Finished("no")
  /\ UNCHANGED <<gw, store, failures, faults>>

\* Every candidate is rejected: the out-of-range ones for good, the others
\* because an earlier incarnation still holds them or because the call failed.
\* Provisioning has failed unless some rejection is transient.
RejectCandidates ==
  LET inRange == Candidates(pass.spec) \ OutOfRange IN
  /\ Static /\ Live = None
  /\ \E error \in [inRange -> {"allocated", "failed"}] :
       /\ Finished(IF \E ip \in inRange : IsTransient(error[ip]) THEN "no" ELSE "yes")
       /\ vip' \in {vip} \cup {Pinned(ip) : ip \in {i \in inRange : error[i] = "failed"}}
  /\ IF inRange = {} THEN NoFault ELSE Fault
  /\ UNCHANGED <<gw, store, failures>>

\* The published set is replaced as a whole.
Publish ==
  /\ pass.pc = "publish"
  /\ failures' = pass.failed /\ pass' = NoPass
  /\ UNCHANGED <<gw, store, vip, faults>>

Bind == \/ ApplyAuto \/ ReadFails \/ KeepPinned \/ FreeStale
        \/ BindCandidate \/ RejectCandidates
PassStep == PassStart \/ Bind \/ Publish

VipNext == Edit \/ Deliver \/ AssignLb \/ LoseService \/ PassStep

VipSpec == VipInit /\ [][VipNext]_vipVars

(***************************************************************************)
(* The reflector keeps delivering, the cloud assigns addresses, and the    *)
(* pass repeats on its 15 s interval whether or not it is triggered.       *)
(***************************************************************************)
VipFairness ==
  WF_vipVars(Deliver) /\ WF_vipVars(AssignLb) /\ WF_vipVars(PassStep)
VipFairSpec == VipSpec /\ VipFairness

-----------------------------------------------------------------------------
\* Properties.

\* What the reconciler should end with for a spec.
Provisioned(spec) ==
  LET cands == Candidates(spec) IN
  CASE cands = {} -> /\ Address(vip) = "lb" /\ vip.ports = spec.ports
                     /\ failures = "no"
    [] cands \ OutOfRange # {} -> /\ vip # None /\ vip.kind = "static"
                                  /\ vip.ip \in cands /\ vip.ports = spec.ports
                                  /\ failures = "no"
    [] OTHER -> vip = None /\ failures = "yes"

\* Once edits and mishaps stop, the Service ends up with the last spec's ports
\* and a requested address, or with none and a published failure when every
\* requested address is out of range: no sequence of repins, lost Services,
\* failed calls and stale reads leaves the reconciler stuck or oscillating.
VipConverges == <>[]Provisioned(gw.spec)

\* The safety half of it: the store is up to date, the Service and the published set are
\* what the spec asks for, and the pass that runs, if any, will say the same.
Resting ==
  /\ store = gw /\ Provisioned(gw.spec)
  /\ pass.pc # "idle" => pass.spec = gw.spec
  /\ pass.pc = "publish" => pass.failed = failures

\* A Service that is right is left alone (reconcile_all_vips repeats every 15 s): while
\* nobody edits the Gateway and nothing fails, no pass repins it, drops its address or
\* ports, or publishes another outcome, whatever part of a pass is under way.
StaysProvisioned == [][Resting /\ gw' = gw /\ faults' = faults => Resting']_vipVars

\* A failure about to be published means that every requested clusterIP was
\* rejected for a permanent reason, an address outside the Service CIDR (the doc of
\* bind_static_vip_service). FAILS: every error other than the allocator's
\* "already allocated" counts as permanent, a timeout or a 500 included.
FailureDefinitive ==
  pass.failed = "yes" => Candidates(pass.spec) \subseteq OutOfRange

=============================================================================
