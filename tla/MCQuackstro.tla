---------------------------- MODULE MCQuackstro ----------------------------
(* Instances for TLC of how a Quackstro Protocol client finds a provider    *)
(* and of the two ways it pays one: a payment channel, and service calls    *)
(* settled by HTLCs.  A call uses the first provider a search lists and     *)
(* nothing else of it, and nothing connects calls and channels, so every    *)
(* behaviour plays in one scene; the variables of the others keep their     *)
(* initial values.                                                          *)
EXTENDS PaymentChannel, ServiceCall, Registry, TLC

VARIABLE scene

vars == <<channelVars, callVars, registryVars, scene>>

(* Where the advertisements go matters only to the search.                  *)
Init ==
    /\ ChannelInit /\ CallsInit /\ RegistryInit
    /\ scene \in {"channel", "calls", "search"}
    /\ scene # "search" => home = [a \in Ads |-> 1]

InChannel == scene = "channel" /\ ChannelNext /\ UNCHANGED <<callVars, registryVars, scene>>
InCalls == scene = "calls" /\ CallsNext /\ UNCHANGED <<channelVars, registryVars, scene>>
InSearch == scene = "search" /\ RegistryNext /\ UNCHANGED <<channelVars, callVars, scene>>

Next == InChannel \/ InCalls \/ InSearch
Spec == Init /\ [][Next]_vars

Symmetry == Permutations(Calls) \cup Permutations(Searches)

(* What the last search was told matters only to the step that answers it.  *)
View == <<channelVars, callVars, chainVars, directory, checkpoint, recent, search, shown,
          skipped, scene>>
=============================================================================
