------------------------------- MODULE MCPeers -------------------------------
(* What passes between people and between hosts, for TLC: donations, shares  *)
(* that end, the exchange with a server over TLS or loopback, and the chain  *)
(* a server shows.  A behaviour explores one of the four; the others stand   *)
(* still.                                                                    *)
EXTENDS DonationInbox, SharedAccess, TlsExchange, MCCertificateChain

VARIABLE focus

MCInit ==
  /\ focus \in {"donations", "shares", "exchange", "chain"}
  /\ Init /\ (focus # "donations" => writer = [it \in Items |-> Nobody])
  /\ SInit
  /\ TInit /\ (focus # "exchange" => over = "tls" /\ ~held /\ server = Server)
  /\ XInit /\ (focus # "chain" => chain = <<>>)
MCNext ==
  /\ UNCHANGED focus
  /\ \/ focus = "donations" /\ Next /\ UNCHANGED <<svars, tvars, xvars>>
     \/ focus = "shares" /\ SNext /\ UNCHANGED <<vars, tvars, xvars>>
     \/ focus = "exchange" /\ TNext /\ UNCHANGED <<vars, svars, xvars>>
     \/ focus = "chain" /\ XNext /\ UNCHANGED <<vars, svars, tvars>>

\* The fairness of SharedSpec and TSpec, where each is explored.
MCSpec ==
  /\ MCInit /\ [][MCNext]_<<focus, vars, svars, tvars, xvars>>
  /\ WF_svars(focus = "shares" /\ expire)
  /\ WF_tvars(focus = "exchange" /\ ClientNext)
  /\ WF_tvars(focus = "exchange" /\ passed) /\ WF_tvars(focus = "exchange" /\ Clock)
=============================================================================
