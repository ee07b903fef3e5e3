------------------------- MODULE AuthorizeRequestSpec -------------------------
(***************************************************************************)
(* What spec.md (sections 3.2, 4.1 and 8.1) promises of the validation of *)
(* an authorization request, stated independently of how the code checks  *)
(* it: which params an accepted request gets, and when each error may be  *)
(* raised.  The response_type is a SET of words ("response_type token     *)
(* set", section 4.1.1); a request is the same query dict OAuthParams     *)
(* reads.                                                                 *)
(***************************************************************************)
EXTENDS Sequences, SequencesExt

CONSTANTS ProviderClientId, RegexMatches, BadPatterns, SchemeOf,
          ProviderScopes, SCOPE_GITHUB

Tokens(q) == ToSet(q.response_type)

\* section 4.1.1
GrantOfTokens ==
    {<<{"code"}, "authorization_code">>,
     <<{"id_token"}, "implicit">>, <<{"id_token", "token"}, "implicit">>,
     <<{"code", "token"}, "hybrid">>, <<{"code", "id_token"}, "hybrid">>,
     <<{"code", "id_token", "token"}, "hybrid">>}

KnownTokenSet(q) == \E g \in GrantOfTokens : g[1] = Tokens(q)

Grant(q) == (CHOOSE g \in GrantOfTokens : g[1] = Tokens(q))[2]

\* section 3.2: a supplied mode outside the three is rewritten to the default
Mode(q) ==
    IF q.response_mode \in {"query", "fragment", "form_post"} THEN q.response_mode
    ELSE IF Grant(q) = "authorization_code" THEN "query" ELSE "fragment"

\* section 4.1.2 / 4.2: strict is equality, regex is a full match, a
\* malformed regex never matches
Permitted(uri, uris) ==
    \E e \in ToSet(uris) :
        \/ e.matching_mode = "strict" /\ e.url = uri
        \/ e.matching_mode = "regex" /\ e.url \notin BadPatterns
                                    /\ <<e.url, uri>> \in RegexMatches

ForbiddenScheme(uri) == SchemeOf[uri] \in {"javascript", "data", "vbscript"}

\* section 4.1.3, before the openid and offline_access rules
Resolved(q) ==
    LET asked == IF q.scope = {} THEN ProviderScopes ELSE q.scope
        checked == IF q.github_compat THEN asked \ SCOPE_GITHUB ELSE asked
    IN  IF checked \subseteq ProviderScopes THEN asked ELSE asked \cap ProviderScopes

Scope(q) ==
    IF "code" \in Tokens(q) THEN Resolved(q) ELSE Resolved(q) \ {"offline_access"}

(***************************************************************************)
(* An accepted request: sections 3.2 and 8.1 (1)-(5).                     *)
(***************************************************************************)
Accepts(q, uris, params) ==
    /\ q.client_id = ProviderClientId
    /\ Permitted(q.redirect_uri, uris)
    /\ ~ForbiddenScheme(q.redirect_uri)
    /\ KnownTokenSet(q)
    /\ params.grant_type = Grant(q)
    /\ params.response_mode = Mode(q)
    /\ params.scope = Scope(q)
    /\ Grant(q) # "authorization_code" => "openid" \in params.scope
    /\ "id_token" \in Tokens(q) /\ "openid" \in params.scope => q.nonce # ""
    /\ "offline_access" \in params.scope => "code" \in Tokens(q)
    /\ q.request = ""
    /\ q.code_challenge # "" => q.code_challenge_method \in {"plain", "S256"}

(***************************************************************************)
(* A rejected request: the condition sections 4.1.2-4.1.5 give for the    *)
(* error raised holds of the request.                                     *)
(***************************************************************************)
Justified(q, uris, error) ==
    CASE error = "client_id" -> q.client_id # ProviderClientId
      [] error = "redirect_uri_missing" -> q.redirect_uri = ""
      [] error = "redirect_uri_no_match" -> ~Permitted(q.redirect_uri, uris)
      [] error = "redirect_uri_forbidden_scheme" -> ForbiddenScheme(q.redirect_uri)
      [] error = "unsupported_response_type" -> ~KnownTokenSet(q)
      [] error = "invalid_scope" ->
            KnownTokenSet(q) /\ Grant(q) # "authorization_code"
                             /\ "openid" \notin Resolved(q)
      [] error = "request_not_supported" -> q.request # ""
      [] error = "nonce_missing" ->
            "id_token" \in Tokens(q) /\ "openid" \in Scope(q) /\ q.nonce = ""
      [] error = "invalid_request" ->
            q.code_challenge # ""
            /\ q.code_challenge_method \notin {"plain", "S256"}
      [] OTHER -> FALSE

=============================================================================
