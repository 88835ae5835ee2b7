-------------------------- MODULE MCWebhookSender --------------------------
(***************************************************************************)
(* WebhookSender for TLC: two events of one type and one of another, and   *)
(* webhooks that subscribe to one type, to the other and to both.           *)
(***************************************************************************)
EXTENDS WebhookSender, TLC

CONSTANTS e1, e2, e3, commit, refUpdate

MCTypeOf == (e1 :> commit) @@ (e2 :> commit) @@ (e3 :> refUpdate)
MCWebhooks == <<{commit}, {refUpdate}, {commit, refUpdate}>>
=============================================================================
