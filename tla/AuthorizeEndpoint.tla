-------------------------- MODULE AuthorizeEndpoint --------------------------
(***************************************************************************)
(* One authorization request end to end: OAuthAuthorizationParams         *)
(* validates it (OAuthParams), AuthorizationFlowInitView.get puts the     *)
(* validated params into the flow plan (PLAN_CONTEXT_PARAMS, line 439),   *)
(* and OAuthFulfillmentStage pops them (line 524) and answers the RP      *)
(* (FulfillmentStage).  Login, consent and the session in between are     *)
(* AuthorizeFlow's; here the params object is followed from the query     *)
(* dict to the response.                                                  *)
(***************************************************************************)
EXTENDS Sequences

CONSTANTS
    Requests, ProviderClientId, URIs, Patterns, RegexMatches, BadPatterns,
    SchemeOf, ProviderScopes, SCOPE_GITHUB, InitialRedirectURIs, RequestDomain,
    NoState, CodeValue, TokenValue, TOKEN_TYPE, ExpiresIn,
    States      \* the state values from_request may read (line 116)

VARIABLES
    redirectUris, vphase, query, loaded, outcome,            \* OAuthParams
    params, fphase, codes, tokens, events, delivered         \* FulfillmentStage

pvars == <<redirectUris, vphase, query, loaded, outcome>>
fvars == <<params, fphase, codes, tokens, events, delivered>>
vars == <<pvars, fvars>>

P == INSTANCE OAuthParams WITH phase <- vphase

\* the stage's params come from validation, not from a domain of their own
F == INSTANCE FulfillmentStage WITH phase <- fphase, ParamsDomain <- {}

\* before a plan holds the params
NoParams == [grant_type |-> ""]

(***************************************************************************)
(* The OAuthAuthorizationParams object that get() stores in the plan      *)
(* (lines 426-441) and the stage pops (lines 519-524): the response_type, *)
(* state, nonce and PKCE challenge read by from_request (the method       *)
(* defaults to "plain" when the key is absent, and is "" when it is sent  *)
(* empty), with the grant type and response                              *)
(* mode check_grant set.  The RP's redirect URI has no query or fragment  *)
(* of its own.                                                            *)
(***************************************************************************)
PlannedParams(r, state) ==
    [grant_type |-> outcome[r].grant_type, response_type |-> query[r].response_type,
     response_mode |-> outcome[r].response_mode, state |-> state,
     nonce |-> query[r].nonce, uri_query |-> <<>>, uri_fragment |-> <<>>,
     code_challenge |-> query[r].code_challenge,
     code_challenge_method |-> query[r].code_challenge_method]

Init ==
    /\ P!Init
    /\ params = NoParams
    /\ fphase = "idle"
    /\ codes = {}
    /\ tokens = {}
    /\ events = 0
    /\ delivered = F!NoDelivery

Validate(r) == (P!LoadProvider(r) \/ P!Validate(r)) /\ UNCHANGED fvars

\* get() plans the flow with the params of an accepted request
PlanFlow(r) ==
    /\ vphase[r] = "done"
    /\ outcome[r].error = "none"
    /\ fphase = "idle"
    /\ \E s \in States : params' = PlannedParams(r, s)
    /\ fphase' = "pending"
    /\ UNCHANGED <<pvars, codes, tokens, events, delivered>>

Fulfil == F!Fulfil /\ UNCHANGED pvars

Next == (\E r \in Requests : Validate(r) \/ PlanFlow(r)) \/ Fulfil

Spec == Init /\ [][Next]_vars

-----------------------------------------------------------------------------
(***************************************************************************)
(* spec.md 8.1 (3) and 4.1.4, followed to the RP: every id_token handed   *)
(* to the RP carries the nonce of the request it answers, and that nonce  *)
(* is not empty.  It rests on check_scope refusing id_token response      *)
(* types without openid, check_nonce then demanding a nonce, and          *)
(* create_implicit_response copying params.nonce into the token.          *)
(***************************************************************************)
IdTokenNonceBound ==
    delivered.kind \in {"redirect", "form"} /\ "id_token" \in DOMAIN delivered.fields =>
        \E r \in Requests :
            /\ outcome[r].error = "none"
            /\ delivered.fields["id_token"].nonce = query[r].nonce
            /\ query[r].nonce # ""

(***************************************************************************)
(* PKCE (spec.md 4.6, and the S1 scenario: "a row with matching           *)
(* code_challenge"): every AuthorizationCode row holds the nonce and the  *)
(* code_challenge of the accepted request it was made for, with a method  *)
(* the token endpoint knows.  create_code keeps the challenge only when   *)
(* the method is truthy too (line 330), so this rests on                  *)
(* check_code_challenge refusing a challenge sent with an empty or        *)
(* unknown method; otherwise the code is issued without PKCE.             *)
(***************************************************************************)
CodeBindsRequest ==
    \A c \in codes : \E r \in Requests :
        /\ outcome[r].error = "none"
        /\ c.nonce = query[r].nonce
        /\ c.code_challenge = query[r].code_challenge
        /\ c.code_challenge # "" => c.code_challenge_method \in {"plain", "S256"}

=============================================================================
