---------------------------- MODULE CeremonyOrigin ----------------------------
(***************************************************************************)
(* Which origin and RP ID a passkey ceremony may use, and whether the sid  *)
(* cookie reaches an extension: the rules of webauthn-server.ts and        *)
(* cookie-cross-site.ts as operators over one deployment, one request and  *)
(* one stored challenge.  An optional value is None when it is absent.  A  *)
(* URL is its parts; an RP ID is a name, or a URL when a browser hashes    *)
(* the whole chrome-extension://<id>.                                      *)
(***************************************************************************)
CONSTANTS
  ExtensionIds,  \* strings of the form of a Chrome extension id
  Names,         \* host names
  Ports,         \* ports a host name may be followed by
  NoPort,        \* no port
  None,          \* an absent header, field or setting
  Malformed,     \* a body field that is a string of another form
  NotText        \* a body field that is no string

ASSUME OriginAssumption ==
  /\ NoPort \in Ports
  /\ ExtensionIds \cap Names = {}
  /\ {None, Malformed, NotText} \cap (ExtensionIds \cup Names) = {}
  /\ Malformed # NotText /\ None # Malformed /\ None # NotText

Schemes == {"http", "https", "chrome-extension"}

Url == [scheme : Schemes, name : ExtensionIds \cup Names, port : Ports]

Host == [name : Names, port : Ports]

\* The settings of a deployment that the rules read from the environment.
Deployment == [production : BOOLEAN, allowed : SUBSET ExtensionIds, cors : BOOLEAN,
               origin : Url \cup {None}, rpId : Names \cup {None}]

Request == [host : Host, proto : {"http", "https", None},
            origin : Url \cup {None}, referer : Url \cup {None},
            header : ExtensionIds \cup {None, Malformed},
            body : ExtensionIds \cup {None, Malformed, NotText}]

RpIds == ExtensionIds \cup Names \cup Url

-----------------------------------------------------------------------------
ExtensionUrl(e) == [scheme |-> "chrome-extension", name |-> e, port |-> NoPort]

\* Chromium hashes the bare id or the whole URL of an extension.
Candidates(e) == {e, ExtensionUrl(e)}

\* The extension a URL belongs to: a set of at most one id.
ExtensionOf(url) ==
  IF url # None /\ url.scheme = "chrome-extension" THEN {url.name} \cap ExtensionIds ELSE {}

HeaderHint(req) == {req.header} \cap ExtensionIds

OriginHint(req) ==
  IF ExtensionOf(req.origin) # {} THEN ExtensionOf(req.origin) ELSE ExtensionOf(req.referer)

\* Begin ignores a body field that is no string and keeps a malformed one.
BeginHints(req) == ({req.body} \ {None, NotText}) \cup HeaderHint(req) \cup OriginHint(req)

\* What begin makes of a request: no extension, or one that is listed.
BeginAccepts(env, req) ==
  BeginHints(req) = {} \/ \E e \in ExtensionIds \cap env.allowed : BeginHints(req) = {e}

RpIdOfHost(env, req) == IF env.rpId # None THEN env.rpId ELSE req.host.name

\* Variant: without a proxy's header there is no protocol.
OriginOfHost_ProxyOnly(env, req) ==
  IF env.origin # None THEN env.origin
  ELSE [scheme |-> req.proto, name |-> req.host.name, port |-> req.host.port]

OriginOfHost(env, req) ==
  IF env.origin # None THEN env.origin
  ELSE [scheme |-> IF req.proto # None THEN req.proto ELSE "http",
        name |-> req.host.name, port |-> req.host.port]

\* The RP ID offered and the origin stored by a begin request that is accepted.
Context(env, req) ==
  IF BeginHints(req) = {}
  THEN [rpId |-> RpIdOfHost(env, req), origin |-> OriginOfHost(env, req)]
  ELSE LET e == CHOOSE e \in ExtensionIds : e \in BeginHints(req)
       IN  [rpId |-> e, origin |-> ExtensionUrl(e)]

-----------------------------------------------------------------------------
\* Finish goes by the origin that the browser has put into the signed data.
FinishHints(req, signed) == ({req.body} \ {None}) \cup HeaderHint(req) \cup ExtensionOf(signed)

FinishAccepts(env, challenge, req, signed) ==
  \/ FinishHints(req, signed) = {} /\ signed = challenge.origin
  \/ \E e \in ExtensionIds \cap env.allowed :
       FinishHints(req, signed) = {e} /\ signed = ExtensionUrl(e)

\* Variant: an extension must have the RP ID of the stored challenge.
ExpectedRpIds_OfRow(challenge, req, signed) == {challenge.rpId}

(* The RP IDs whose hash the verification takes: both forms of an          *)
(* extension, whatever the challenge row says, or the row's own and those  *)
(* of the extensions it names.                                             *)
ExpectedRpIds(challenge, req, signed) ==
  IF FinishHints(req, signed) # {}
  THEN UNION {Candidates(e) : e \in FinishHints(req, signed)}
  ELSE {challenge.rpId} \cup
       UNION {Candidates(e) : e \in ({challenge.rpId} \cap ExtensionIds)
                                      \cup ExtensionOf(challenge.origin)
                                      \cup ExtensionOf(signed)}

\* Finish takes a response for this challenge, signed at an origin for an RP ID.
Verified(env, challenge, req, signed, rpId) ==
  /\ FinishAccepts(env, challenge, req, signed)
  /\ rpId \in ExpectedRpIds(challenge, req, signed)

-----------------------------------------------------------------------------
\* Variant: only production asks for a cookie that crosses sites.
CrossSite_InProduction(env) == env.production

\* The sid cookie is SameSite=None, so that an extension's fetch carries it.
CrossSite(env) == env.production \/ env.allowed # {} \/ env.cors

=============================================================================
