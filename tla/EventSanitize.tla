---------------------------- MODULE EventSanitize ----------------------------
(***************************************************************************)
(* The event context utilities of events/utils.py: sanitize_item and      *)
(* sanitize_dict turn an event's keyword arguments into JSON-able data,   *)
(* cleanse_item and cleanse_dict mask values under sensitive keys.  An     *)
(* event's context goes through sanitize_dict, then cleanse_dict (the     *)
(* order Event.new uses, outside these sources), then is stored in a JSON *)
(* field.                                                                 *)
(*                                                                        *)
(* A Python value is a pair <<type, payload>>: <<"str", s>>, <<"int", n>>, *)
(* <<"bool", b>>, <<"none", 0>>, <<"list", items>>, <<"tuple", items>>,   *)
(* <<"set", items>>, <<"dict", entries>> (a sequence of <<key, value>>),  *)
(* <<"request", 0>> (an HttpRequest), <<"ellipsis", 0>>, <<"uuid", hex>>, *)
(* <<"model", name>>, <<"user", kind>>, <<"enum", value>> and             *)
(* <<"policy_request", user>> (a PolicyRequest dataclass holding an        *)
(* HttpRequest), and <<"strlike", s>> for the values sanitize_item turns  *)
(* into the string s (Path, Exception, YAMLTag, datetime, date, naive     *)
(* time, timedelta).  A set's items are listed in its iteration order.    *)
(***************************************************************************)
EXTENDS Integers, Sequences

CONSTANTS
    Inputs,         \* the keyword-argument dicts an event may be created with
    HiddenKeys,     \* keys SafeExceptionReporterFilter.hidden_settings matches
    AllowedKeys,    \* keys ALLOWED_SPECIAL_KEYS matches
    NonStrKeys      \* keys that are not str (re.search raises TypeError on them)

VARIABLES
    input,      \* the context dict handed to the event
    stage,      \* "raw", "sanitized" or "cleansed"
    sanitized,  \* sanitize_dict(input)
    cleansed    \* cleanse_dict(sanitized)

vars == <<input, stage, sanitized, cleansed>>

Str(s) == <<"str", s>>
IntV(n) == <<"int", n>>
NoneValue == <<"none", 0>>
Ellipsis == <<"ellipsis", 0>>
Raise == <<"raise", "TypeError">>
Dict(entries) == <<"dict", entries>>

\* SafeExceptionReporterFilter.cleansed_substitute
CLEANSED_SUBSTITUTE == Str("********************")

\* Python truthiness of a sanitized value, line 117
Truthy(v) ==
    CASE v[1] = "str" -> v[2] # ""
      [] v[1] \in {"list", "tuple", "set", "dict"} -> v[2] # <<>>
      [] v[1] = "int" -> v[2] # 0
      [] v[1] = "bool" -> v[2]
      [] v[1] = "none" -> FALSE
      [] OTHER -> TRUE

(***************************************************************************)
(* model_to_dict, lines 64-74, and get_user, lines 77-91.  A user's kind  *)
(* is "regular", "anonymous" (guardian's anonymous user exists) or        *)
(* "anonymous_missing" (get_anonymous_user raises DoesNotExist).          *)
(***************************************************************************)
ModelToDict(name) ==
    << <<"app", Str("authentik_core")>>, <<"model_name", Str("application")>>,
       <<"pk", IntV(1)>>, <<"name", Str(name)>> >>

GetUser(kind) ==
    CASE kind = "anonymous_missing" -> <<>>
      [] kind = "anonymous" ->
            << <<"username", Str("AnonymousUser")>>, <<"pk", IntV(-1)>>,
               <<"email", Str("")>>, <<"is_anonymous", <<"bool", TRUE>> >> >>
      [] kind = "regular" ->
            << <<"username", Str("akadmin")>>, <<"pk", IntV(1)>>,
               <<"email", Str("")>> >>

\* lines 105-108: copy, drop http_request, asdict
PolicyRequestAsDict(user) ==
    << <<"user", user>>, <<"http_request", NoneValue>>, <<"obj", NoneValue>>,
       <<"context", Dict(<<>>)>>, <<"debug", <<"bool", FALSE>> >> >>

(***************************************************************************)
(* sanitize_item, lines 94-175, with sanitize_dict, lines 178-190: a dict  *)
(* drops the entries whose value became ..., a list, tuple or set becomes  *)
(* a list of its truthy sanitized items.  Ellipsis itself is no JSON type *)
(* and DjangoJSONEncoder refuses it, so it becomes str(...).              *)
(***************************************************************************)
RECURSIVE SanitizeItem(_), SanitizeDict(_)

\* fault: the `is not ...` test of sanitize_dict left out
SanitizeDict_mutant(es) ==
    [i \in 1..Len(es) |-> <<es[i][1], SanitizeItem(es[i][2])>>]

SanitizeDict(es) ==
    SelectSeq([i \in 1..Len(es) |-> <<es[i][1], SanitizeItem(es[i][2])>>],
              LAMBDA e : e[2][1] # "ellipsis")

SanitizeItem(v) ==
    LET t == v[1]
        p == v[2]
    IN
    CASE t = "policy_request" -> Dict(SanitizeDict(PolicyRequestAsDict(p)))
      [] t = "dict" -> Dict(SanitizeDict(p))
      [] t \in {"list", "tuple", "set"} ->
            <<"list", SelectSeq([i \in 1..Len(p) |-> SanitizeItem(p[i])], Truthy)>>
      [] t = "user" -> Dict(SanitizeDict(GetUser(p)))
      [] t = "model" -> Dict(SanitizeDict(ModelToDict(p)))
      [] t = "uuid" -> Str(p)
      [] t = "strlike" -> Str(p)
      [] t = "request" -> Ellipsis
      [] t = "enum" -> p
      [] t \in {"str", "int", "bool", "none"} -> v
      [] t = "ellipsis" -> Str("Ellipsis")

(***************************************************************************)
(* cleanse_item, lines 36-51, with cleanse_dict, lines 54-61: a dict is    *)
(* cleansed by its own keys, a list item by the key of the list; a tuple  *)
(* or set item is assigned in place, which raises TypeError; a value      *)
(* under a hidden key that is not an allowed special key is replaced.     *)
(***************************************************************************)
\* fault: the ALLOWED_SPECIAL_KEYS test inverted
Sensitive_mutant(k) == k \notin NonStrKeys /\ k \in HiddenKeys /\ k \in AllowedKeys

\* lines 44-51; the except branch is a key re.search cannot scan
Sensitive(k) == k \notin NonStrKeys /\ k \in HiddenKeys /\ k \notin AllowedKeys

RECURSIVE CleanseItem(_, _)
CleanseItem(k, v) ==
    LET p == v[2]
        Raised(s) == \E i \in 1..Len(s) : s[i][1] = "raise"
        values == [i \in 1..Len(p) |-> IF v[1] = "dict" THEN CleanseItem(p[i][1], p[i][2])
                                                       ELSE CleanseItem(k, p[i])]
    IN
    CASE v[1] = "dict" ->
            IF Raised(values) THEN Raise
            ELSE Dict(SelectSeq([i \in 1..Len(p) |-> <<p[i][1], values[i]>>],
                                LAMBDA e : e[2][1] # "ellipsis"))
      [] v[1] = "list" -> IF Raised(values) THEN Raise ELSE <<"list", values>>
      [] v[1] \in {"tuple", "set"} -> IF p = <<>> THEN v ELSE Raise
      [] Sensitive(k) -> CLEANSED_SUBSTITUTE
      [] OTHER -> v

CleanseDict(d) == CleanseItem("", d)

-----------------------------------------------------------------------------
Init ==
    /\ input \in Inputs
    /\ stage = "raw"
    /\ sanitized = NoneValue
    /\ cleansed = NoneValue

\* sanitize_dict(kwargs)
Sanitize ==
    /\ stage = "raw"
    /\ sanitized' = SanitizeItem(input)
    /\ stage' = "sanitized"
    /\ UNCHANGED <<input, cleansed>>

\* cleanse_dict(sanitize_dict(kwargs))
Cleanse ==
    /\ stage = "sanitized"
    /\ cleansed' = CleanseDict(sanitized)
    /\ stage' = "cleansed"
    /\ UNCHANGED <<input, sanitized>>

Next == Sanitize \/ Cleanse

Spec == Init /\ [][Next]_vars

-----------------------------------------------------------------------------
(***************************************************************************)
(* The JSON normaliser the sanitizer is meant to be ("ensure it is JSON   *)
(* parsable", line 95; spec.md section 1): every value is converted, an   *)
(* HttpRequest is left out wherever it occurs, and nothing else is lost.  *)
(***************************************************************************)
RECURSIVE Normalize(_)
Normalize(v) ==
    LET t == v[1]
        p == v[2]
        Kept(x) == x[1] # "request"
        Entries(es) ==
            LET kept == SelectSeq(es, LAMBDA e : Kept(e[2])) IN
            [i \in 1..Len(kept) |-> <<kept[i][1], Normalize(kept[i][2])>>]
    IN
    CASE t = "dict" -> Dict(Entries(p))
      [] t \in {"list", "tuple", "set"} ->
            LET kept == SelectSeq(p, Kept) IN
            <<"list", [i \in 1..Len(kept) |-> Normalize(kept[i])]>>
      [] t = "policy_request" -> Dict(Entries(PolicyRequestAsDict(p)))
      [] t = "user" -> Dict(Entries(GetUser(p)))
      [] t = "model" -> Dict(Entries(ModelToDict(p)))
      [] t \in {"uuid", "strlike"} -> Str(p)
      [] t = "enum" -> p
      [] OTHER -> v

RECURSIVE IsJson(_)
IsJson(v) ==
    \/ v[1] \in {"str", "int", "bool", "none"}
    \/ v[1] = "list" /\ \A i \in 1..Len(v[2]) : IsJson(v[2][i])
    \/ v[1] = "dict" /\ \A i \in 1..Len(v[2]) : IsJson(v[2][i][2])

\* a secret key: a str key hidden_settings matches and ALLOWED_SPECIAL_KEYS not
Secret(k) == k \in HiddenKeys \ (AllowedKeys \cup NonStrKeys)

\* a leaf other than the substitute whose nearest enclosing key is secret
RECURSIVE Exposed(_, _)
Exposed(v, under) ==
    CASE v[1] = "dict" ->
            \E i \in 1..Len(v[2]) : Exposed(v[2][i][2], Secret(v[2][i][1]))
      [] v[1] = "list" -> \E i \in 1..Len(v[2]) : Exposed(v[2][i], under)
      [] OTHER -> under /\ v # CLEANSED_SUBSTITUTE

(***************************************************************************)
(* sanitize_item against the normaliser: the stored context is the input  *)
(* with every value converted and only HttpRequests left out, at any      *)
(* depth (lists included).                                                *)
(***************************************************************************)
SanitizeMatchesReference ==
    stage # "raw" => sanitized = Normalize(input)

(***************************************************************************)
(* The sanitized context can be stored in the event's JSON field: no      *)
(* Ellipsis, request or other non-JSON value is left at any depth.        *)
(***************************************************************************)
ContextIsJson ==
    stage # "raw" => IsJson(sanitized)

(***************************************************************************)
(* cleanse_dict masks every secret of the sanitized context: no scalar   *)
(* whose nearest enclosing key hidden_settings matches (and               *)
(* ALLOWED_SPECIAL_KEYS does not) reaches the event in clear, whether it  *)
(* is the key's value or an item of a list under it, at any depth.  A     *)
(* dict under such a key is cleansed by its own keys, as the code intends *)
(* (an "authorized_application" model stays readable).                    *)
(***************************************************************************)
SecretsCleansed ==
    stage = "cleansed" /\ cleansed # Raise => ~Exposed(cleansed, FALSE)

=============================================================================
