--------------------------- MODULE MCOAuthParams ---------------------------
(* Model-checking instance of OAuthParams. *)
EXTENDS OAuthParams

RP == "https://rp.example/cb"
SUB == "https://us.rp.example/cb"
JS == "javascript:alert(1)"
SUBDOMAINS == "https://.*\\.rp\\.example/cb"
BROKEN == "https://(rp"

MCURIs == {RP, SUB, JS}
MCPatterns == {SUBDOMAINS, BROKEN}
MCRegexMatches == {<<SUBDOMAINS, SUB>>}
MCBadPatterns == {BROKEN}
MCSchemeOf == [u \in MCURIs |-> IF u = JS THEN "javascript" ELSE "https"]
MCProviderScopes == {"openid", "offline_access"}
MCScopeGithub == {"user"}

Strict(u) == [matching_mode |-> "strict", url |-> u]
Regex(p) == [matching_mode |-> "regex", url |-> p]

\* empty (auto-provisioning), a strict entry, a broken regex before a good
\* one, and a maliciously registered javascript: URI
MCInitialRedirectURIs ==
    {<<>>, <<Strict(RP)>>, <<Regex(BROKEN), Regex(SUBDOMAINS)>>, <<Strict(JS)>>}

\* the response_type strings of ResponseTypes, and "token" alone
MCResponseTypes ==
    {CODE, ID_TOKEN, ID_TOKEN_TOKEN, CODE_TOKEN, CODE_ID_TOKEN,
     CODE_ID_TOKEN_TOKEN, <<"token">>}

QueryDicts(clients, uris, rtypes, modes, scopes) ==
    [client_id : clients, redirect_uri : uris, response_type : rtypes,
     response_mode : modes, scope : scopes, nonce : {"", "n"},
     request : {"", "jwt"}, code_challenge : {"", "c"},
     code_challenge_method : {"plain", "bogus"}, github_compat : BOOLEAN]

\* every combination for a known client, one request of an unknown one
MCRequestDomain ==
    QueryDicts({"cid"}, {"", RP, SUB, JS}, MCResponseTypes,
               {"absent", "query", "form_post", "bogus"},
               SUBSET {"openid", "offline_access", "profile", "user"})
    \cup QueryDicts({"unknown"}, {RP}, {CODE}, {"absent"}, {{}})

\* two RPs racing on a provider with no redirect URIs yet
MCRaceInitial == {<<>>}
MCRaceDomain ==
    QueryDicts({"cid"}, {RP, SUB}, {CODE}, {"absent"}, {{"openid"}})
=============================================================================
