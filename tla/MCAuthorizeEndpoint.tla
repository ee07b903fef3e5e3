------------------------- MODULE MCAuthorizeEndpoint -------------------------
(* Model-checking instance of AuthorizeEndpoint: one RP, one registered URI. *)
EXTENDS AuthorizeEndpoint

RP == "https://rp.example/cb"

MCURIs == {RP}
MCSchemeOf == [u \in MCURIs |-> "https"]
MCInitialRedirectURIs == {<<[matching_mode |-> "strict", url |-> RP]>>}
MCProviderScopes == {"openid", "offline_access"}
MCStates == {NoState, "xyz"}

\* every response_type ResponseTypes knows, every mode, every scope set
MCRequestDomain ==
    [client_id : {"cid"}, redirect_uri : {RP},
     response_type : {<<"code">>, <<"id_token">>, <<"id_token", "token">>,
                      <<"code", "token">>, <<"code", "id_token">>,
                      <<"code", "id_token", "token">>},
     response_mode : {"absent", "query", "fragment", "form_post"},
     scope : SUBSET {"openid", "offline_access", "profile"},
     nonce : {"", "n"}, request : {""}, code_challenge : {"", "c"},
     code_challenge_method : {"plain", "S256", "", "bogus"}, github_compat : {FALSE}]
=============================================================================
