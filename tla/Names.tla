------------------------------- MODULE Names -------------------------------
(***************************************************************************)
(* The layers of name resolution: what a channel asks (Resolver), one      *)
(* query of the embedded DNS resolver (DnsResolver), its configuration     *)
(* files (DnsConfiguration) and its messages (DnsPacket). Each is used     *)
(* through the next one's results only; a behaviour is about one of them.  *)
(***************************************************************************)
EXTENDS Resolver, DnsPacket, DnsResolver

VARIABLE part

namesVars == <<part, resolverVars, packetVars, configurationVars, queryVars>>

Init ==
    /\ part \in {"channel", "packet", "files", "query"}
    /\ ResolverInit /\ PacketInit /\ ConfigurationInit /\ QueryInit(part = "query")
    /\ part # "channel" => setting = [srv |-> FALSE, dual |-> FALSE, delayed |-> FALSE]
    /\ part # "files" => conf = dns_resconf_open(<<>>)

Next ==
    \/ /\ part = "channel" /\ ResolverNext
       /\ UNCHANGED <<part, packetVars, configurationVars, queryVars>>
    \/ /\ part = "packet" /\ PacketNext
       /\ UNCHANGED <<part, resolverVars, configurationVars, queryVars>>
    \/ /\ part = "files" /\ ConfigurationNext
       /\ UNCHANGED <<part, resolverVars, packetVars, queryVars>>
    \/ /\ part = "query" /\ QueryNext
       /\ UNCHANGED <<part, resolverVars, packetVars, configurationVars>>

Fairness == (part = "channel" => ResolverFairness) /\ (part = "query" => QueryFairness)

Spec == Init /\ [][Next]_namesVars /\ Fairness
-----------------------------------------------------------------------------
\* Resolving ends, whatever is lost, late, refused or refers to itself: the channel is told
\* (belle_sip_channel_resolve()), but for a query that is delayed and then refused
\* (resolver_process_data_delayed()), and so is whoever made a query (dns_res_check()).
ResolutionEnds == AlwaysTold /\ QueryEnds
=============================================================================
