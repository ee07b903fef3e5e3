---------------------------- MODULE OAuthParams ----------------------------
(***************************************************************************)
(* OAuthAuthorizationParams (providers/oauth2/views/authorize.py, lines   *)
(* 80-311): parsing an authorization request and the checks of            *)
(* __post_init__, for concurrent requests against one OAuth2Provider row. *)
(* __post_init__ reads the provider (line 144) and, when its redirect_uris *)
(* are empty, saves the request's URI into it (line 200); other requests  *)
(* may read or save the row in between, so the read and the rest of the   *)
(* validation are two steps.                                              *)
(*                                                                        *)
(* Strings the code compares are model values or short strings; a         *)
(* response_type is the sequence of its space-separated words, so string  *)
(* equality is sequence equality.  A regular expression is a model value  *)
(* whose full matches are given by RegexMatches.                          *)
(***************************************************************************)
EXTENDS Integers, Sequences, SequencesExt, FiniteSets

CONSTANTS
    Requests,            \* concurrent authorization requests
    ProviderClientId,    \* client_id of the one OAuth2Provider row
    URIs,                \* redirect URIs a request may carry
    Patterns,            \* regular expressions an admin may register
    RegexMatches,        \* pairs <<pattern, uri>> that re.fullmatch accepts
    BadPatterns,         \* patterns re.fullmatch raises RegexError on
    SchemeOf,            \* urlparse(uri).scheme for each uri
    ProviderScopes,      \* scope_name of the provider's ScopeMappings
    SCOPE_GITHUB,        \* GitHub-compatibility scope names
    InitialRedirectURIs, \* possible redirect_uris of the provider at start
    RequestDomain        \* the query dicts a request may carry

ASSUME RegexMatches \subseteq Patterns \X URIs
ASSUME BadPatterns \subseteq Patterns
ASSUME SchemeOf \in [URIs -> STRING]

VARIABLES
    redirectUris,  \* OAuth2Provider.redirect_uris as stored in the database
    phase,         \* how far each request's __post_init__ has got
    query,         \* the query dict of each request
    loaded,        \* each request's in-memory copy of the provider's URIs
    outcome        \* the validated params or the error of each request

vars == <<redirectUris, phase, query, loaded, outcome>>

Pending == [error |-> "pending"]

(***************************************************************************)
(* Constants of providers/oauth2 the code compares with.                  *)
(***************************************************************************)
CODE == <<"code">>
ID_TOKEN == <<"id_token">>
ID_TOKEN_TOKEN == <<"id_token", "token">>
CODE_TOKEN == <<"code", "token">>
CODE_ID_TOKEN == <<"code", "id_token">>
CODE_ID_TOKEN_TOKEN == <<"code", "id_token", "token">>

ResponseModes == {"query", "fragment", "form_post"}
FORBIDDEN_URI_SCHEMES == {"javascript", "data", "vbscript"}
SCOPE_OPENID == "openid"
SCOPE_OFFLINE_ACCESS == "offline_access"
PKCE_METHODS == {"plain", "S256"}

RedirectURI == [matching_mode : {"strict", "regex"}, url : URIs \cup Patterns]

(***************************************************************************)
(* check_grant, lines 160-186: the grant type is looked up by the exact   *)
(* response_type string; an unknown response_mode becomes the grant's     *)
(* default.                                                               *)
(***************************************************************************)
GrantType(rt) ==
    CASE rt = CODE -> "authorization_code"
      [] rt \in {ID_TOKEN, ID_TOKEN_TOKEN} -> "implicit"
      [] rt \in {CODE_TOKEN, CODE_ID_TOKEN, CODE_ID_TOKEN_TOKEN} -> "hybrid"
      [] OTHER -> ""

\* fault: the supplied response_mode kept without checking it is known
ResponseMode_mutant(q, grant) ==
    IF q.response_mode # "absent" THEN q.response_mode
    ELSE IF grant \in {"implicit", "hybrid"} THEN "fragment"
    ELSE "query"

ResponseMode(q, grant) ==
    IF q.response_mode \in ResponseModes THEN q.response_mode
    ELSE IF grant \in {"implicit", "hybrid"} THEN "fragment"
    ELSE "query"

(***************************************************************************)
(* check_redirect_uri, lines 188-229.  An empty list is replaced by the   *)
(* request's URI in strict mode and saved; a malformed pattern is logged  *)
(* and skipped.                                                           *)
(***************************************************************************)
\* line 195: len(allowed_redirect_urls) < 1
ProvisionsFor(uris) == Len(uris) < 1

Provisioned(q, uris) ==
    IF ProvisionsFor(uris)
    THEN <<[matching_mode |-> "strict", url |-> q.redirect_uri]>>
    ELSE uris

Allows(allowed, uri) ==
    \/ allowed.matching_mode = "strict" /\ allowed.url = uri
    \/ /\ allowed.matching_mode = "regex"
       /\ allowed.url \notin BadPatterns
       /\ <<allowed.url, uri>> \in RegexMatches

RedirectMatches(uri, uris) == \E i \in 1..Len(uris) : Allows(uris[i], uri)

(***************************************************************************)
(* check_scope, lines 231-276: no scope means every configured one; with  *)
(* github_compat the GitHub names are not checked; an unconfigured scope  *)
(* cuts the set down to the configured ones.                              *)
(***************************************************************************)
RequestedScope(q) == IF q.scope = {} THEN ProviderScopes ELSE q.scope

AllowedScope(q) ==
    LET scope == RequestedScope(q)
        toCheck == IF q.github_compat THEN scope \ SCOPE_GITHUB ELSE scope
    IN  IF toCheck \subseteq ProviderScopes THEN scope
                                            ELSE scope \cap ProviderScopes

\* fault: openid demanded of id_token and id_token token only, not of hybrid types
OpenIdMissing_mutant(q, grant) ==
    /\ SCOPE_OPENID \notin AllowedScope(q)
    /\ q.response_type \in {ID_TOKEN, ID_TOKEN_TOKEN}

OpenIdMissing(q, grant) ==
    /\ SCOPE_OPENID \notin AllowedScope(q)
    /\ grant = "hybrid" \/ q.response_type \in {ID_TOKEN, ID_TOKEN_TOKEN}

\* fault: offline_access kept for response types without a code
FinalScope_mutant(q) == AllowedScope(q)

FinalScope(q) ==
    IF q.response_type \in {CODE, CODE_TOKEN, CODE_ID_TOKEN, CODE_ID_TOKEN_TOKEN}
    THEN AllowedScope(q)
    ELSE AllowedScope(q) \ {SCOPE_OFFLINE_ACCESS}

(***************************************************************************)
(* check_nonce, lines 278-297, and check_code_challenge, lines 299-311.   *)
(* An empty nonce, request or code_challenge is falsy.                    *)
(***************************************************************************)
NonceMissing(q) ==
    /\ q.response_type \in {ID_TOKEN, ID_TOKEN_TOKEN, CODE_ID_TOKEN,
                            CODE_ID_TOKEN_TOKEN}
    /\ SCOPE_OPENID \in FinalScope(q)
    /\ q.nonce = ""

\* fault: only an unknown non-empty method refused
ChallengeMethodInvalid_mutant(q) ==
    q.code_challenge # "" /\ q.code_challenge_method \notin PKCE_METHODS \cup {""}

ChallengeMethodInvalid(q) ==
    q.code_challenge # "" /\ q.code_challenge_method \notin PKCE_METHODS

(***************************************************************************)
(* __post_init__, lines 150-158, after the provider was found: the checks *)
(* in the order they run; the first that fails raises.                    *)
(***************************************************************************)
Checks(q, uris) ==
    LET grant == GrantType(q.response_type) IN
    << <<"redirect_uri_no_match", ~RedirectMatches(q.redirect_uri, uris)>>,
       <<"redirect_uri_forbidden_scheme",
                  SchemeOf[q.redirect_uri] \in FORBIDDEN_URI_SCHEMES>>,
       <<"unsupported_response_type", grant = "">>,
       <<"invalid_scope", OpenIdMissing(q, grant)>>,
       <<"request_not_supported", q.request # "">>,
       <<"nonce_missing", NonceMissing(q)>>,
       <<"invalid_request", ChallengeMethodInvalid(q)>> >>

Validated(q, uris) ==
    LET checks == Checks(q, uris)
        failed == SelectInSeq(checks, LAMBDA c : c[2])
        grant == GrantType(q.response_type)
    IN  IF failed # 0 THEN [error |-> checks[failed][1]]
        ELSE [error |-> "none", grant_type |-> grant,
              response_mode |-> ResponseMode(q, grant),
              scope |-> FinalScope(q)]

-----------------------------------------------------------------------------
Init ==
    /\ redirectUris \in InitialRedirectURIs
    /\ phase = [r \in Requests |-> "new"]
    /\ query \in [Requests -> RequestDomain]
    /\ loaded = [r \in Requests |-> <<>>]
    /\ outcome = [r \in Requests |-> Pending]

\* from_request, lines 105-141: the RP's query dict was read in Init;
\* __post_init__, lines 144-149: OAuth2Provider.objects.filter(...).first()
LoadProvider(r) ==
    /\ phase[r] = "new"
    /\ IF query[r].client_id = ProviderClientId
       THEN /\ loaded' = [loaded EXCEPT ![r] = redirectUris]
            /\ phase' = [phase EXCEPT ![r] = "loaded"]
            /\ UNCHANGED outcome
       ELSE /\ outcome' = [outcome EXCEPT ![r] = [error |-> "client_id"]]
            /\ phase' = [phase EXCEPT ![r] = "done"]
            /\ UNCHANGED loaded
    /\ UNCHANGED <<redirectUris, query>>

\* __post_init__, lines 150-158, on the in-memory provider; the empty-list
\* branch of check_redirect_uri saves the whole row (provider.save())
Validate(r) ==
    LET q == query[r]
        uris == loaded[r]
    IN
    /\ phase[r] = "loaded"
    /\ phase' = [phase EXCEPT ![r] = "done"]
    /\ IF q.redirect_uri = ""
       THEN /\ outcome' = [outcome EXCEPT ![r] = [error |-> "redirect_uri_missing"]]
            /\ UNCHANGED <<redirectUris, loaded>>
       ELSE /\ outcome' = [outcome EXCEPT ![r] = Validated(q, Provisioned(q, uris))]
            /\ loaded' = [loaded EXCEPT ![r] = Provisioned(q, uris)]
            /\ redirectUris' = IF ProvisionsFor(uris) THEN Provisioned(q, uris)
                                                   ELSE redirectUris
    /\ UNCHANGED query

Next == \E r \in Requests : LoadProvider(r) \/ Validate(r)

Spec == Init /\ [][Next]_vars

-----------------------------------------------------------------------------
Ref == INSTANCE AuthorizeRequestSpec

TypeOK ==
    /\ redirectUris \in Seq(RedirectURI)
    /\ phase \in [Requests -> {"new", "loaded", "done"}]
    /\ query \in [Requests -> RequestDomain]
    /\ loaded \in [Requests -> Seq(RedirectURI)]
    /\ \A r \in Requests : outcome[r].error = "none" =>
          /\ outcome[r].grant_type \in {"authorization_code", "implicit", "hybrid"}
          /\ outcome[r].response_mode \in ResponseModes
    /\ \A r \in Requests : outcome[r].error \in
          {"pending", "none", "client_id", "redirect_uri_missing",
           "redirect_uri_no_match", "redirect_uri_forbidden_scheme",
           "unsupported_response_type", "invalid_scope",
           "request_not_supported", "nonce_missing", "invalid_request"}

(***************************************************************************)
(* __post_init__ against spec.md: every request it accepts gets the grant *)
(* type, response mode and scope the spec gives its response_type token   *)
(* set, and every error it raises is one the spec's rules give for that   *)
(* request (checked against the provider URIs the request validated on).  *)
(***************************************************************************)
ValidationAgreesWithSpec ==
    \A r \in Requests :
        LET o == outcome[r] IN
        /\ o.error = "none" => Ref!Accepts(query[r], loaded[r], o)
        /\ o.error \notin {"none", "pending"} =>
              Ref!Justified(query[r], loaded[r], o.error)

(***************************************************************************)
(* Redirect URI auto-provisioning (check_redirect_uri, lines 195-201): a  *)
(* request is only accepted for a redirect URI the provider's stored      *)
(* redirect_uris allow.                                                   *)
(***************************************************************************)
AcceptedRedirectRegistered ==
    \A r \in Requests :
        outcome[r].error = "none" => RedirectMatches(query[r].redirect_uri, redirectUris)

=============================================================================
