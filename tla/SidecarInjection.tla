---------------------------- MODULE SidecarInjection ----------------------------
(***************************************************************************)
(* A pod from its creation to the start of its app: the mutating webhook of *)
(* the control plane (SidecarInjectionWebhook.java) answers the API server   *)
(* with a JSON patch, the API server applies it, and the kubelet runs the    *)
(* init containers in order, among them sentinel-init, which is             *)
(* TrafficRedirection, before it starts the app and the proxy.              *)
(*                                                                         *)
(* mode, dryRun and exclude are the arguments of the pod's sentinel-init: its *)
(* own, or the ones of the patch.                                           *)
(***************************************************************************)
EXTENDS TrafficRedirection

CONSTANT None

VARIABLES
    asked,      \* the pod as its creator asks for it
    pod,        \* the pod of the API server
    admission,  \* "asked", "reviewed", "admitted" or "rejected"
    patch,      \* the patch of the webhook's response, or None
    failedOpen, \* history: the webhook has failed and let the pod through
    ready,      \* how many of its init containers have succeeded
    app         \* "waiting" or "running"

injecting == <<asked, pod, admission, patch, failedOpen>>
podVars == <<asked, pod, admission, patch, failedOpen, ready, app>>
allVars == <<vars, podVars>>

\* A pod with neither init containers nor volumes of its own, or with both; and
\* one that brings the sidecar itself.
Plain(annotated) ==
    {[annotated |-> annotated, inits |-> << >>, containers |-> <<"app">>, volumes |-> << >>],
     [annotated |-> annotated, inits |-> <<"migrate">>, containers |-> <<"app">>,
      volumes |-> <<"token">>]}
WithSidecar(annotated) ==
    [annotated |-> annotated, inits |-> <<"sentinel-init">>,
     containers |-> <<"app", "sentinel-proxy">>, volumes |-> <<"sentinel-certs">>]

Pods == UNION {Plain(a) \cup {WithSidecar(a)} : a \in BOOLEAN}

\* The arguments of the sentinel-init of the patch.
PatchArgs == mode = "REDIRECT" /\ dryRun = FALSE /\ exclude = << >>

\* A pod that brings the sidecar is written by hand (data-plane.yaml), with any
\* arguments, or is the annotated copy of an injected pod.
PodInit ==
    /\ Init
    /\ asked \in Pods
    /\ asked = WithSidecar(FALSE) \/ PatchArgs
    /\ pod = asked
    /\ admission = "asked"
    /\ patch = None
    /\ failedOpen = FALSE
    /\ ready = 0
    /\ app = "waiting"

-----------------------------------------------------------------------------
(* The webhook                                                              *)

\* Mutated form: the list is never looked at.
AddTo_Whole(list, item) == [path |-> "list", value |-> <<item>>]

\* {"op": "add"}: at the end of the list, or the list itself if there is none.
AddTo(list, item) ==
    IF list # << >> THEN [path |-> "-", value |-> <<item>>]
    ELSE [path |-> "list", value |-> <<item>>]

InjectionPatch(p) ==
    [inits |-> AddTo(p.inits, "sentinel-init"),
     containers |-> [path |-> "-", value |-> <<"sentinel-proxy">>],
     volumes |-> AddTo(p.volumes, "sentinel-certs")]

ASSUME NoneAssumption == \A p \in Pods : None # InjectionPatch(p)

\* A pod with the annotation gets the patch, one with the sidecar too.
Mutate ==
    /\ admission = "asked"
    /\ admission' = "reviewed"
    /\ patch' = IF pod.annotated THEN InjectionPatch(pod) ELSE None
    /\ UNCHANGED <<vars, asked, pod, failedOpen, ready, app>>

\* Any exception: allowed, without a patch.
MutateErr ==
    /\ admission = "asked"
    /\ admission' = "reviewed"
    /\ failedOpen' = TRUE
    /\ UNCHANGED <<vars, asked, pod, patch, ready, app>>

(* The API server                                                           *)

\* No answer in time: the registration names no failure policy, and the API
\* server's default is Fail.
Unreachable ==
    /\ admission = "asked"
    /\ admission' = "rejected"
    /\ UNCHANGED <<vars, asked, pod, patch, failedOpen, ready, app>>

\* An "add" replaces a member that exists.
Apply(list, add) == IF add.path = "-" THEN list \o add.value ELSE add.value

Patched ==
    IF patch = None THEN pod
    ELSE [annotated |-> pod.annotated,
          inits |-> Apply(pod.inits, patch.inits),
          containers |-> Apply(pod.containers, patch.containers),
          volumes |-> Apply(pod.volumes, patch.volumes)]

\* The names of containers are unique, and those of volumes.
Valid(p) == IsInjective(p.inits \o p.containers) /\ IsInjective(p.volumes)

Admit ==
    /\ admission = "reviewed"
    /\ Valid(Patched)
    /\ admission' = "admitted"
    /\ pod' = Patched
    /\ UNCHANGED <<vars, asked, patch, failedOpen, ready, app>>

Reject ==
    /\ admission = "reviewed"
    /\ ~Valid(Patched)
    /\ admission' = "rejected"
    /\ UNCHANGED <<vars, asked, pod, patch, failedOpen, ready, app>>

-----------------------------------------------------------------------------
(* The kubelet                                                              *)

\* The init container whose turn it is.
Runs(container) ==
    /\ admission = "admitted"
    /\ ready < Len(pod.inits)
    /\ pod.inits[ready + 1] = container

\* sentinel-init runs.
Redirects ==
    /\ Runs("sentinel-init")
    /\ Execute \/ Rejected \/ Faulted \/ LogSuccess
    /\ UNCHANGED podVars

\* Mutated form: main does not wait for its commands.
Succeeds_AtOnce ==
    /\ Runs("migrate") \/ Runs("sentinel-init")
    /\ ready' = ready + 1
    /\ UNCHANGED <<vars, injecting, app>>

Succeeds ==
    /\ Runs("migrate") \/ (Runs("sentinel-init") /\ status = "success")
    /\ ready' = ready + 1
    /\ UNCHANGED <<vars, injecting, app>>

\* sentinel-init crashes at any command, and is run again.
Crashes ==
    /\ Runs("sentinel-init")
    /\ Rerun
    /\ UNCHANGED podVars

\* The kubelet has lost track of the init containers before it has started the
\* app, and runs all of them again.
LostTrack ==
    /\ admission = "admitted"
    /\ status = "success"
    /\ app = "waiting"
    /\ Rerun
    /\ ready' = 0
    /\ UNCHANGED <<injecting, app>>

StartApp ==
    /\ admission = "admitted"
    /\ app = "waiting"
    /\ ready = Len(pod.inits)
    /\ app' = "running"
    /\ UNCHANGED <<vars, injecting, ready>>

Webhook == Mutate \/ MutateErr
ApiServer == Unreachable \/ Admit \/ Reject
Kubelet == Redirects \/ Succeeds \/ StartApp

PodNext == Webhook \/ ApiServer \/ Kubelet \/ Crashes \/ LostTrack

\* The API server and the kubelet go on; a container is not run again for ever.
PodSpec == PodInit /\ [][PodNext]_allVars
FairPodSpec == PodSpec /\ WF_allVars(Webhook \/ ApiServer) /\ WF_allVars(Kubelet)

-----------------------------------------------------------------------------
(* Properties                                                               *)

PodTypeOK ==
    /\ TypeOK
    /\ asked \in Pods
    /\ admission \in {"asked", "reviewed", "admitted", "rejected"}
    /\ patch = None \/ patch = InjectionPatch(asked)
    /\ failedOpen \in BOOLEAN
    /\ ready \in 0 .. Len(pod.inits)
    /\ app \in {"waiting", "running"}

Injected == admission = "admitted" /\ asked.annotated /\ ~failedOpen

\* SidecarInjectionWebhook.java:137-148, whichever lists the pod has: an
\* injected pod keeps all that its creator asked for, in its order, and has each
\* part of the sidecar once, sentinel-init after the pod's own init containers.
InjectionAddsOnly ==
    Injected =>
        /\ pod.inits = asked.inits \o <<"sentinel-init">>
        /\ pod.containers = asked.containers \o <<"sentinel-proxy">>
        /\ pod.volumes = asked.volumes \o <<"sentinel-certs">>

\* README.md:3, "intercepting traffic to enforce mutual TLS": the app of an
\* injected pod never runs before the tables implement the policy, through
\* crashes and reruns of sentinel-init, if no command fails.
AppStartsIntercepted ==
    Injected /\ app = "running" /\ NoFaults =>
        \A p \in Packets : Fate(p) = Policy(p)

\* A pod that is asked for is rejected or its app starts: a sentinel-init whose
\* commands fail does not keep it from starting.
PodStarts == admission = "asked" ~> admission = "rejected" \/ app = "running"

=============================================================================
