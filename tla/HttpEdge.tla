------------------------------ MODULE HttpEdge ------------------------------
(***************************************************************************)
(* What a call of the API is answered: the router's groups, Validate's     *)
(* reading of the claims, the role middlewares, the wagering handlers and  *)
(* mapError, as functions of one call.  A call carries a token, a route,   *)
(* the parameters the handlers look at, and what lies behind the edge: how *)
(* the use case ends and which transaction the database holds.             *)
(***************************************************************************)
EXTENDS Naturals

CONSTANTS Providers, Nobody     \* provider ids, and the empty one

ASSUME EdgeAssumption == Nobody \notin Providers

Transactions ==
  [origin : {"EXTERNAL"}, provider : Providers] \cup [origin : {"INTERNAL"}, provider : {Nobody}]
NoTransaction == [origin |-> "none", provider |-> Nobody]

InternalRoutes == {"open", "wallet", "ledger", "reconciliation"}
ReadRoutes == {"by id", "by external id"}
Routes == InternalRoutes \cup ReadRoutes \cup {"create"}

\* How the use case behind a route ends: a status or an error.
Failures == {"validation", "conflict", "rejection", "invariant", "not found", "infrastructure"}
Endings == {"PROCESSED", "PENDING_REFERENCE", "REJECTED", "FAILED"} \cup Failures

Tokens == [valid : BOOLEAN, role : {"provider", "internal", "none"}, provider : Providers \cup {Nobody}]
Calls ==
  [token : Tokens, route : Routes,
   key : BOOLEAN,              \* Idempotency-Key is there
   wellFormed : BOOLEAN,       \* the body, or the ids in the path, can be read
   body : Providers,           \* the providerId in the body
   path : Providers,           \* and in the path
   ending : Endings,
   stored : Transactions \cup {NoTransaction}]

-----------------------------------------------------------------------------

\* Validate: signature, issuer, audience and expiry, then the claims.
Authenticated(token) ==
  token.valid /\ \/ token.role = "internal"
                 \/ token.role = "provider" /\ token.provider # Nobody

\* RequireInternal and RequireProvider; reads are filtered by their handlers.
Admitted(call) ==
  /\ call.route \in InternalRoutes => call.token.role = "internal"
  /\ call.route = "create" => call.token.role = "provider" /\ call.token.provider # Nobody

\* mapError and statusForTransaction; opening a wallet creates.
StatusOf(ending, route) ==
  CASE ending = "validation" -> 400
    [] ending = "not found" -> 404
    [] ending = "conflict" -> 409
    [] ending \in {"rejection", "REJECTED"} -> 422
    [] ending = "invariant" -> 500
    [] ending \in {"infrastructure", "FAILED"} -> 503
    [] ending = "PENDING_REFERENCE" -> 202
    [] ending = "PROCESSED" -> IF route = "open" THEN 201 ELSE 200

Reply(status, transaction, ran) ==
  [status |-> status, transaction |-> transaction, ranFor |-> ran]
Refusal(status) == Reply(status, NoTransaction, Nobody)

\* WageringHandler.Create: the body speaks for the token's provider only.
Created(call) ==
  Reply(StatusOf(call.ending, "create"),
        IF call.ending \in Failures THEN NoTransaction
        ELSE [origin |-> "EXTERNAL", provider |-> call.body],
        call.body)
CreateForAnyone(call) ==
  IF ~ call.key \/ ~ call.wellFormed THEN Refusal(400) ELSE Created(call)
Create(call) ==
  IF ~ call.key \/ ~ call.wellFormed THEN Refusal(400)
  ELSE IF call.body # call.token.provider THEN Refusal(403)
  ELSE Created(call)

\* authorizeTransactionRead and authorizeProviderPath.
MayRead(token, transaction) ==
  token.role = "provider" =>
    transaction.origin = "EXTERNAL" /\ transaction.provider = token.provider
MayReadOf(token, provider) == token.role = "provider" => provider = token.provider

\* GetByID: the transaction is loaded, and then the caller looked at.
GetByID(call) ==
  IF ~ call.wellFormed THEN Refusal(400)
  ELSE IF call.ending \in Failures THEN Refusal(StatusOf(call.ending, call.route))
  ELSE IF call.stored = NoTransaction THEN Refusal(404)
  ELSE IF ~ MayRead(call.token, call.stored) THEN Refusal(403)
  ELSE Reply(200, call.stored, Nobody)

\* GetByExternalID: the caller is looked at, and the row of that provider loaded.
GetByExternalID(call) ==
  IF ~ call.wellFormed THEN Refusal(400)
  ELSE IF ~ MayReadOf(call.token, call.path) THEN Refusal(403)
  ELSE IF call.ending \in Failures THEN Refusal(StatusOf(call.ending, call.route))
  ELSE IF call.stored.provider # call.path THEN Refusal(404)
  ELSE Reply(200, call.stored, Nobody)

\* WalletHandler: Open, Get, Ledger and Reconcile speak of wallets only.
CallWallets(call) ==
  IF ~ call.wellFormed THEN Refusal(400)
  ELSE Reply(StatusOf(call.ending, call.route), NoTransaction, Nobody)

\* Authenticator.Middleware, the groups of the router, the handlers.
Respond(call) ==
  IF ~ Authenticated(call.token) THEN Refusal(401)
  ELSE IF ~ Admitted(call) THEN Refusal(403)
  ELSE IF call.route = "create" THEN Create(call)
  ELSE IF call.route = "by id" THEN GetByID(call)
  ELSE IF call.route = "by external id" THEN GetByExternalID(call)
  ELSE CallWallets(call)

-----------------------------------------------------------------------------
(* Correctness.                                                            *)

\* A provider's call runs operations and shows transactions of that provider
\* alone, whatever ids its body and its path name and wherever the check stands
\* in the handler; the wallets' openings are nobody's (roadmap, stage 6).
AnswersItsOwn(call) ==
  LET reply == Respond(call) IN
  /\ reply.transaction # NoTransaction /\ call.token.role = "provider" =>
       reply.transaction.provider = call.token.provider
  /\ reply.ranFor # Nobody => reply.ranFor = call.token.provider /\ call.token.role = "provider"
  /\ ~ call.token.valid => reply = Refusal(401)
=============================================================================
