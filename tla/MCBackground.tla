---------------------------- MODULE MCBackground ----------------------------
(***************************************************************************)
(* Three components whose goroutines run beside the requests and never     *)
(* meet: the sessions of the websocket relay, the queue of usage records,  *)
(* the refresh of tokens.  A behaviour is about one of them, "subject",    *)
(* and the others rest in their initial states.                            *)
(***************************************************************************)
EXTENDS WsRelay, UsageQueue, AuthRefresh

VARIABLE subject

AllInit ==
  /\ subject \in {"relay", "usage", "refresh"}
  /\ Init /\ UsageInit /\ RefreshInit

AllNext ==
  \/ subject = "relay" /\ Next /\ UNCHANGED <<subject, usageVars, refreshVars>>
  \/ subject = "usage" /\ UsageNext /\ UNCHANGED <<subject, vars, refreshVars>>
  \/ subject = "refresh" /\ RefreshNext /\ UNCHANGED <<subject, vars, usageVars>>

RelayScheduled ==
  /\ WF_vars(subject = "relay" /\ Dispatch)
  /\ WF_vars(subject = "relay" /\ Cleanup)
  /\ \A r \in Requests : /\ WF_vars(subject = "relay" /\ Request(r))
                         /\ WF_vars(subject = "relay" /\ Receive(r))
                         /\ WF_vars(subject = "relay" /\ Watch(r))

UsageScheduled ==
  /\ WF_usageVars(subject = "usage" /\ Run)
  /\ WF_usageVars(subject = "usage" /\ Broadcast)
  /\ \A p \in Publishers : WF_usageVars(subject = "usage" /\ FinishPublish(p))

RefreshScheduled ==
  /\ WF_refreshVars(subject = "refresh" /\ Round)
  /\ WF_refreshVars(subject = "refresh" /\ Tick)
  /\ \A w \in Workers : /\ WF_refreshVars(subject = "refresh" /\ Finishes(w))
                        /\ SF_refreshVars(subject = "refresh" /\ BeginRefresh(w))

AllSpec ==
  /\ AllInit
  /\ [][AllNext]_<<subject, vars, usageVars, refreshVars>>
  /\ RelayScheduled /\ UsageScheduled /\ RefreshScheduled

------------------------------------------------------------------------------
\* WsRelay: every request that waits on a session that ends returns, and a request
\* that has returned leaves nothing in the session's map.
Returns == Unblocked /\ Released
=============================================================================
