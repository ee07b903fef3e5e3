-------------------------- MODULE FulfillmentStage --------------------------
(***************************************************************************)
(* OAuthFulfillmentStage (providers/oauth2/views/authorize.py, lines       *)
(* 474-668) once the params are popped from the plan and prompt allows   *)
(* it: the audit event, the authorization code and access token rows, the *)
(* response built for the response_mode, and what the RP's browser is    *)
(* handed.  One fulfilment per behaviour; its validated params are chosen *)
(* in Init.                                                               *)
(*                                                                        *)
(* A URL query or fragment is the function from keys to values that      *)
(* urlencode writes; parse_qs keeps only keys whose value is not blank.   *)
(* A signed id_token is the record of its claims; a hash claim is         *)
(* Hash(value).                                                           *)
(***************************************************************************)
EXTENDS Sequences, SequencesExt, Functions

CONSTANTS
    ParamsDomain,   \* the validated params a fulfilment may carry
    NoState,        \* state absent from the request (None)
    CodeValue,      \* uuid4().hex of the new AuthorizationCode
    TokenValue,     \* the new AccessToken's token
    TOKEN_TYPE,     \* token_type of implicit/hybrid responses
    ExpiresIn       \* access_token_validity in seconds

VARIABLES
    params,     \* the params restored from the plan context
    phase,      \* "pending" until the stage answered
    codes,      \* AuthorizationCode rows saved
    tokens,     \* AccessToken rows saved, with the id_token stored on them
    events,     \* AUTHORIZE_APPLICATION events
    delivered   \* what the browser is handed for the RP

vars == <<params, phase, codes, tokens, events, delivered>>

CODE == <<"code">>
ID_TOKEN == <<"id_token">>
ID_TOKEN_TOKEN == <<"id_token", "token">>
CODE_TOKEN == <<"code", "token">>
CODE_ID_TOKEN == <<"code", "id_token">>
CODE_ID_TOKEN_TOKEN == <<"code", "id_token", "token">>

Hash(v) == <<"left half of sha256", v>>

\* a claim left out of the id_token
NoClaim == <<>>
NoDelivery == [kind |-> "none"]

(***************************************************************************)
(* parse_qs(keep_blank_values=False) drops the keys whose value is blank. *)
(* Every value is a string but the signed id_token, which is never blank. *)
(***************************************************************************)
ParseQs(encoded) ==
    RestrictDomain(encoded, LAMBDA k : k = "id_token" \/ encoded[k] # "")

\* the order in which the stage inserts keys, so urlencode writes them
PAYLOAD_ORDER == <<"access_token", "id_token", "code", "token_type", "expires_in", "state">>

(***************************************************************************)
(* uri.fragment + urlencode(...), line 584: the payload is written right  *)
(* after the existing fragment (one key=value pair), with no "&" between. *)
(* The RP reads the existing key's value running on into the first       *)
(* payload pair, and that pair's key is gone.                             *)
(***************************************************************************)
AppendFragment(fragment, payload) ==
    LET first == Head(SelectSeq(PAYLOAD_ORDER, LAMBDA k : k \in DOMAIN payload))
    IN  IF DOMAIN fragment = {} THEN payload
        ELSE [k \in DOMAIN fragment |-> fragment[k] \o first \o "=..."]
             @@ RestrictDomain(payload, LAMBDA k : k # first)

\* str(state) if state else ""
StateParam(p) == IF p.state \in {NoState, ""} THEN "" ELSE p.state

(***************************************************************************)
(* create_implicit_response, lines 611-668: the access token and its      *)
(* id_token; c_hash for code id_token, at_hash when a token is returned.  *)
(***************************************************************************)
\* fault: c_hash only for "code id_token"
IdTokenClaims_mutant(p, code) ==
    [nonce |-> p.nonce,
     c_hash |-> IF p.response_type = CODE_ID_TOKEN THEN Hash(code) ELSE NoClaim,
     at_hash |-> IF p.response_type \in {ID_TOKEN_TOKEN, CODE_ID_TOKEN_TOKEN,
                                        CODE_TOKEN}
                 THEN Hash(TokenValue) ELSE NoClaim]

IdTokenClaims(p, code) ==
    [nonce |-> p.nonce,
     c_hash |-> IF p.response_type \in {CODE_ID_TOKEN, CODE_ID_TOKEN_TOKEN}
                THEN Hash(code) ELSE NoClaim,
     at_hash |-> IF p.response_type \in {ID_TOKEN_TOKEN, CODE_ID_TOKEN_TOKEN,
                                        CODE_TOKEN}
                 THEN Hash(TokenValue) ELSE NoClaim]

ReturnsIdToken(p) ==
    p.response_type \in {ID_TOKEN, ID_TOKEN_TOKEN, CODE_ID_TOKEN, CODE_ID_TOKEN_TOKEN}

ImplicitResponse(p, code) ==
    LET withToken == IF p.response_type \in {ID_TOKEN_TOKEN, CODE_ID_TOKEN_TOKEN,
                                            CODE_TOKEN}
                     THEN ("access_token" :> TokenValue) ELSE <<>>
        withIdToken == IF ReturnsIdToken(p)
                       THEN ("id_token" :> IdTokenClaims(p, code)) ELSE <<>>
        withCode == IF p.grant_type = "hybrid" THEN ("code" :> code) ELSE <<>>
    IN  withToken @@ withIdToken @@ withCode
          @@ ("token_type" :> TOKEN_TYPE) @@ ("expires_in" :> ExpiresIn)
          @@ ("state" :> StateParam(p))

\* the AccessToken row saved by create_implicit_response, line 657; the
\* id_token is the one serialised at line 655 when the response carries it
TokenRow(p, code) ==
    [token |-> TokenValue,
     id_token |-> IF ReturnsIdToken(p) THEN {IdTokenClaims(p, code)} ELSE {}]

(***************************************************************************)
(* create_response_uri, lines 553-609, and redirect, lines 481-513.  In   *)
(* query mode code.code is read even when no code was made (implicit);    *)
(* the AttributeError escapes the stage and the executor shows an error   *)
(* page.  A query or fragment reaches the RP as urlencode wrote it       *)
(* ("state=" included); in query mode it is added to parse_qs of the      *)
(* redirect URI's own query (uri_query); in form_post mode the autosubmit *)
(* form's fields are parse_qs of the encoded payload, which drops blank   *)
(* values, and the URI's own query stays in its action URL.              *)
(***************************************************************************)
MakesCode(p) == p.grant_type \in {"authorization_code", "hybrid"}

(***************************************************************************)
(* create_code, lines 312-333: the AuthorizationCode row keeps the nonce, *)
(* and the PKCE challenge and its method only when both are truthy ("" is *)
(* None or empty).  The user, session, scope and expiry are left out.     *)
(***************************************************************************)
CreateCode(p) ==
    LET pkce == p.code_challenge # "" /\ p.code_challenge_method # "" IN
    [code |-> CodeValue, nonce |-> p.nonce,
     code_challenge |-> IF pkce THEN p.code_challenge ELSE "",
     code_challenge_method |-> IF pkce THEN p.code_challenge_method ELSE ""]

CodeOnly(p) == ("code" :> CodeValue) @@ ("state" :> StateParam(p))

Payload(p) ==
    IF p.grant_type = "authorization_code" THEN CodeOnly(p)
    ELSE ImplicitResponse(p, IF MakesCode(p) THEN CodeValue ELSE NoClaim)

Delivery(p) ==
    CASE p.response_mode = "query" /\ ~MakesCode(p) ->
            [kind |-> "error_page"]
      [] p.response_mode = "query" ->
            [kind |-> "redirect", part |-> "query",
             fields |-> CodeOnly(p) @@ ParseQs(p.uri_query)]
      [] p.response_mode = "fragment" ->
            [kind |-> "redirect", part |-> "fragment",
             fields |-> AppendFragment(p.uri_fragment, Payload(p))]
      [] p.response_mode = "form_post" ->
            [kind |-> "form", part |-> "form", fields |-> ParseQs(Payload(p))]

\* fault: token.save() only on the fragment path
SavesToken_mutant(p) ==
    p.grant_type \in {"implicit", "hybrid"} /\ p.response_mode = "fragment"

SavesToken(p) ==
    p.grant_type \in {"implicit", "hybrid"} /\ p.response_mode # "query"

-----------------------------------------------------------------------------
Init ==
    /\ params \in ParamsDomain
    /\ phase = "pending"
    /\ codes = {}
    /\ tokens = {}
    /\ events = 0
    /\ delivered = NoDelivery

(***************************************************************************)
(* OAuthFulfillmentStage.get, lines 536-542: the event is written, then   *)
(* create_response_uri saves the code (line 565) and the token (line      *)
(* 657) and the browser gets the redirect or the autosubmit form.         *)
(***************************************************************************)
\* line 521: the params are still in the plan context (not yet popped)
ParamsInContext == phase = "pending"

Fulfil ==
    /\ ParamsInContext
    /\ phase' = "done"
    /\ events' = events + 1
    /\ codes' = codes \cup (IF MakesCode(params) THEN {CreateCode(params)} ELSE {})
    /\ tokens' = tokens \cup
                 (IF SavesToken(params)
                  THEN {TokenRow(params, IF MakesCode(params) THEN CodeValue
                                                              ELSE NoClaim)}
                  ELSE {})
    /\ delivered' = Delivery(params)
    /\ UNCHANGED params

Next == Fulfil

Spec == Init /\ [][Next]_vars

-----------------------------------------------------------------------------
Ref == INSTANCE ResponseSpec

(***************************************************************************)
(* create_response_uri and redirect against spec.md: the RP is handed     *)
(* exactly the fields the spec gives the params (credentials per          *)
(* response_type, state echoed, hash claims binding the id_token) in the  *)
(* part the response_mode names.                                          *)
(***************************************************************************)
ResponseMatchesSpec ==
    phase = "done" => delivered = Ref!Expected(params)

(***************************************************************************)
(* Ordering (spec.md section 5, lines 564-565 and 657): every code and    *)
(* access token handed to the RP is a saved row, and the saved access     *)
(* token carries the very id_token the RP got.                            *)
(***************************************************************************)
DeliveredCredentialsSaved ==
    delivered.kind \in {"redirect", "form"} =>
        LET f == delivered.fields IN
        /\ "code" \in DOMAIN f => \E c \in codes : c.code = f["code"]
        /\ "access_token" \in DOMAIN f =>
              \E t \in tokens : t.token = f["access_token"]
        /\ "id_token" \in DOMAIN f =>
              \E t \in tokens : f["id_token"] \in t.id_token

=============================================================================
