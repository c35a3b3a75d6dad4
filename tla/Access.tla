------------------------------- MODULE Access -------------------------------
(***************************************************************************)
(* Who may do what: the authenticator with its verifiers and the MAC       *)
(* provider, the ASGI middleware, the webhook receiver and the replay      *)
(* endpoint of a source, the access checks of the two user streams, and    *)
(* the scrubbing of secrets.                                               *)
(*                                                                         *)
(* A string is the sequence of its parts between colons; its hash is       *)
(* itself.  A part is a text or the MAC of a message under a key version.  *)
(***************************************************************************)
EXTENDS Case, Integers, Sequences, SequencesExt, FiniteSets

Text(x) == [text |-> x]
Mac(version, message) == [key |-> version, of |-> message]
A == Text("a")
B == Text("b")

-----------------------------------------------------------------------------
(* Verifying a presented string against a credential.                      *)

\* str.split(":", maxsplit=2)
Split(s) == IF Len(s) <= 2 THEN [i \in 1 .. Len(s) |-> <<s[i]>>]
            ELSE <<<<s[1]>>, <<s[2]>>, SubSeq(s, 3, Len(s))>>

Rejected == [ok |-> FALSE, consumer |-> 0, audit |-> "failure", raises |-> FALSE]
Raised == [ok |-> FALSE, consumer |-> 0, audit |-> "none", raises |-> TRUE]
Accepted(c) == [ok |-> TRUE, consumer |-> c.id, audit |-> "success", raises |-> FALSE]

\* EnvMacProvider.verify: any registered version of the key may have signed.
MacMatches(message, signature) ==
    \E version \in case.versions : signature = <<Mac(version, message)>>

\* The consumer of a credential must exist and not be disabled.
Served(c) == c.consumer = "enabled"

\* HashCredentialVerifier.verify
VerifyHash(c, s) == IF c.hash = s /\ Served(c) THEN Accepted(c) ELSE Rejected

\* HmacCredentialVerifier.verify; an unknown algorithm is a ValueError.
VerifyHmac(c, s) ==
    IF c.secret = "none" \/ Len(Split(s)) # 3 THEN Rejected
    ELSE IF c.secret = "unsupported" THEN Raised
    ELSE IF MacMatches(Split(s)[3], Split(s)[2]) /\ Served(c) THEN Accepted(c)
    ELSE Rejected

\* Authenticator._verify_with_record
VerifyWithRecord(c, s) ==
    IF c.type \notin case.verifiers THEN Rejected
    ELSE IF c.type = "hmac" THEN VerifyHmac(c, s)
    ELSE VerifyHash(c, s)

\* Authenticator.authenticate: by the identifier of a string of three parts, and
\* if nothing has that hash, by the whole.  Of several rows with the hash the
\* database may return any.
Authenticate(s) ==
    LET identifier == IF Len(Split(s)) = 3 THEN Split(s)[1] ELSE s
        HasHash(h) == {c \in case.credentials : c.hash = h}
        found == IF HasHash(identifier) = {} /\ identifier # s THEN HasHash(s)
                 ELSE HasHash(identifier)
    IN  IF found = {} THEN {Rejected} ELSE {VerifyWithRecord(c, s) : c \in found}

-----------------------------------------------------------------------------
(* The middleware: what the application sees, what the client is sent.     *)

Passed(consumer) == [app |-> TRUE, context |-> consumer, messages |-> <<>>]
Turned(messages) == [app |-> FALSE, context |-> 0, messages |-> messages]

\* _handle_http and _handle_websocket turn away with their own messages;
\* _reject_websocket consumes the connect before it closes.
Rejection(type) ==
    IF type = "http" THEN <<"start 401", "body">> ELSE <<"receive connect", "close 4001">>

\* auth_middleware; an empty header is none.
Middleware(type, header) ==
    IF type \notin {"http", "websocket"} THEN {Passed(0)}
    ELSE IF header = <<>> THEN {Turned(Rejection(type))}
    ELSE {IF r.ok THEN Passed(r.consumer) ELSE Turned(Rejection(type)) :
              r \in Authenticate(header)}

-----------------------------------------------------------------------------
(* The webhook of a source.  A body has the bytes that were signed, the    *)
(* text they decode to, and what a JSON parser makes of it.                *)

\* _build_presented_credential: <<>> is the missing header.
Presented(req) ==
    IF case.source.signed
    THEN IF req.signature = <<>> THEN <<>>
         ELSE <<Text("_")>> \o req.signature \o req.body.text
    ELSE req.authorization

\* _extract_event_type: "none" is the _ExtractionError.
EventType(req) ==
    CASE case.source.typed = "header" -> req.typeHeader
      [] case.source.typed = "json_field" -> IF req.body.json THEN req.body.type ELSE "none"
      [] case.source.typed = "constant" -> "constant"
      [] OTHER -> "none"

\* fire_event with write_event's unique key: 0 is none.
FireEvent(events, req) ==
    IF req.key # 0 /\ \E i \in 1 .. Len(events) : events[i].key = req.key THEN events
    ELSE Append(events, [key |-> req.key, body |-> req.body, by |-> case.source.principal,
                         type |-> EventType(req)])

Answer(status, events) == [status |-> status, events |-> events]

\* Mutant: the body is looked at before the credential.
WebhookParsesFirst(req, events) ==
    LET source == case.source
        presented == Presented(req)
        verified == VerifyWithRecord(source.credential, presented)
    IN  IF req.large THEN Answer(413, events)
        ELSE IF ~source.exists THEN Answer(404, events)
        ELSE IF source.credential.id = 0 THEN Answer(403, events)
        ELSE IF EventType(req) = "none" \/ ~req.body.json THEN Answer(400, events)
        ELSE IF presented = <<>> THEN Answer(401, events)
        ELSE IF verified.raises THEN Answer(500, events)
        ELSE IF ~verified.ok THEN Answer(401, events)
        ELSE IF source.principal = 0 THEN Answer(500, events)
        ELSE Answer(202, FireEvent(events, req))

\* webhook_handler, check by check.
Webhook(req, events) ==
    LET source == case.source
        presented == Presented(req)
        verified == VerifyWithRecord(source.credential, presented)
    IN  IF req.large THEN Answer(413, events)
        ELSE IF ~source.exists THEN Answer(404, events)
        ELSE IF source.credential.id = 0 THEN Answer(403, events)
        ELSE IF presented = <<>> THEN Answer(401, events)
        ELSE IF verified.raises THEN Answer(500, events)
        ELSE IF ~verified.ok THEN Answer(401, events)
        ELSE IF source.principal = 0 THEN Answer(500, events)
        ELSE IF EventType(req) = "none" \/ ~req.body.json THEN Answer(400, events)
        ELSE Answer(202, FireEvent(events, req))

\* A sender that tries again until it has its answer.
Delivered(n, req) ==
    LET After[i \in 0 .. n] == IF i = 0 THEN Answer(0, <<>>)
                               ELSE Webhook(req, After[i - 1].events)
    IN  After[n]

\* replay_handler, up to the query: the principal whose events are returned, or
\* the status.  It never looks at the signature header.
ReplayEndpoint(req) ==
    LET source == case.source
        verified == VerifyWithRecord(source.credential, req.authorization)
    IN  IF ~source.exists THEN Answer(404, 0)
        ELSE IF source.credential.id = 0 THEN Answer(403, 0)
        ELSE IF req.authorization = <<>> THEN Answer(401, 0)
        ELSE IF verified.raises THEN Answer(500, 0)
        ELSE IF ~verified.ok THEN Answer(401, 0)
        ELSE IF source.principal = 0 THEN Answer(500, 0)
        ELSE Answer(200, source.principal)

\* stream_handler of the source's stream.
SourceStream(req) == ReplayEndpoint(req)

-----------------------------------------------------------------------------
(* The streams of a user.  Principal 0 is the system's, and nobody's is -1. *)

\* resolve_caller_principal; -1 is the RuntimeError.
ResolveCaller(auth) ==
    IF auth.tier = "system" THEN IF case.seeded THEN 0 ELSE -1
    ELSE IF auth.consumer # 0 /\ auth.consumer \in case.principals THEN auth.consumer
    ELSE -1

\* The notification stream's handler: whose deliveries are streamed.
NotificationTarget(auth, asked) ==
    LET caller == ResolveCaller(auth)
    IN  IF caller = -1 THEN -1
        ELSE IF asked.is = "none" THEN caller
        ELSE IF asked.is = "invalid" THEN -1
        ELSE IF asked.principal # caller /\ auth.tier # "system" THEN -1
        ELSE asked.principal

\* _check_run_access: owner -1 is an id that is unknown or no id at all.
RunAccess(auth, run) ==
    IF auth.tier = "system" THEN "granted"
    ELSE IF ResolveCaller(auth) = -1 THEN "raises"
    ELSE IF run.owner = -1 THEN "404"
    ELSE IF run.owner # ResolveCaller(auth) THEN "403"
    ELSE "granted"

-----------------------------------------------------------------------------
(* Secrets.  Here a text is a sequence of letters and placeholders.        *)

Placeholder(name) == [secret |-> name]
Letter(x) == [letter |-> x]

\* A text made from left to right: at i it gets out[i], and goes on at next[i].
Emitted(out, next) ==
    LET n == Len(out)
        From[i \in 1 .. n + 1] == IF i > n THEN <<>> ELSE out[i] \o From[next[i]]
    IN  From[1]

\* str.replace: the leftmost occurrences, none overlapping the one before.
Replaced(text, value, by) ==
    LET Starts(i) == /\ i + Len(value) - 1 <= Len(text)
                     /\ \A j \in 1 .. Len(value) : text[i + j - 1] = value[j]
    IN  Emitted([i \in 1 .. Len(text) |-> IF Starts(i) THEN <<by>> ELSE <<text[i]>>],
                [i \in 1 .. Len(text) |-> IF Starts(i) THEN i + Len(value) ELSE i + 1])

\* _scrub_order: longest values first; those of one length in the order they came.
ScrubOrders(secrets) ==
    {order \in [1 .. Cardinality(DOMAIN secrets) -> DOMAIN secrets] :
        \A i, j \in DOMAIN order :
           i < j => order[i] # order[j] /\ Len(secrets[order[i]]) >= Len(secrets[order[j]])}

Scrub(text, secrets, order) ==
    LET After[i \in 0 .. Len(order)] ==
            IF i = 0 THEN text
            ELSE Replaced(After[i - 1], secrets[order[i]], Placeholder(order[i]))
    IN  After[Len(order)]

\* substitute: an unknown name stays as it is.
Substitute(text, secrets) ==
    LET Value(c) == IF "secret" \in DOMAIN c /\ c.secret \in DOMAIN secrets
                    THEN secrets[c.secret] ELSE <<c>>
    IN  Emitted([i \in 1 .. Len(text) |-> Value(text[i])], [i \in 1 .. Len(text) |-> i + 1])

-----------------------------------------------------------------------------
(* Inputs.                                                                 *)

Hashes == {<<A>>, <<B>>, <<A, B>>, <<A, B, B>>}
Strings == Hashes \union {<<A, Mac(0, <<B>>), B>>, <<A, Mac(1, <<B>>), B>>,
                          <<B, Mac(0, <<B, A>>), B, A>>, <<A, Mac(0, <<A>>), B>>}
Kinds == {<<"bearer", "none">>, <<"api_key", "none">>, <<"hmac", "none">>,
          <<"hmac", "key">>, <<"hmac", "unsupported">>}
Credential(id, kind, hash, consumer) ==
    [id |-> id, type |-> kind[1], secret |-> kind[2], hash |-> hash, consumer |-> consumer]
Consumers == {"enabled", "disabled", "absent"}
NoCredential == Credential(0, <<"none", "none">>, <<>>, "absent")

Verifiers == {{"bearer", "api_key", "hmac"}, {"bearer", "api_key"}}

Bodies == {[bytes |-> <<B>>, text |-> <<B>>, json |-> TRUE, type |-> "t"],
           [bytes |-> <<B>>, text |-> <<B>>, json |-> TRUE, type |-> "none"],
           [bytes |-> <<A, B>>, text |-> <<A, B>>, json |-> FALSE, type |-> "none"],
           \* not UTF-8: errors="replace" decodes it to something else
           [bytes |-> <<Text("raw")>>, text |-> <<Text("replaced")>>, json |-> FALSE,
            type |-> "none"]}
WebhookRequests == [large : BOOLEAN, body : Bodies, typeHeader : {"none", "h"}, key : {0, 1},
             signature : {<<>>} \union {<<Mac(v, m)>> : v \in {0, 2}, m \in {<<B>>, <<A, B>>, <<Text("raw")>>}},
             authorization : {<<>>, <<A>>, <<B>>, <<B, Mac(0, <<A>>), A>>}]
SourceCredentials == {NoCredential, Credential(1, <<"bearer", "none">>, <<A>>, "enabled"),
                      Credential(1, <<"hmac", "key">>, <<A>>, "enabled"),
                      Credential(1, <<"hmac", "key">>, <<A>>, "disabled"),
                      Credential(1, <<"hmac", "unsupported">>, <<A>>, "enabled")}
Sources == [exists : BOOLEAN, credential : SourceCredentials, principal : {0, 7},
            signed : BOOLEAN, typed : {"none", "header", "json_field", "constant"}]

Letters == {Letter("x"), Letter("y")}
Values == SeqOf(Letters, 2) \ {<<>>}

AccessInit ==
    \/ \E kind \in Kinds, hash \in Hashes, consumer \in Consumers, versions \in SUBSET {0, 1},
          verifiers \in Verifiers, s \in Strings \union {<<>>},
          others \in {{}} \union {{Credential(2, k, h, "enabled")} : k \in Kinds, h \in Hashes} :
          case = [on |-> "auth", versions |-> versions, verifiers |-> verifiers, string |-> s,
                  credentials |-> {Credential(1, kind, hash, consumer)} \union others]
    \/ \E source \in Sources, req \in WebhookRequests :
          /\ req.large => source.exists /\ source.principal = 7
          /\ ~source.exists => source.credential = NoCredential
          /\ case = [on |-> "webhook", source |-> source, request |-> req,
                     versions |-> {0}, verifiers |-> {"bearer", "hmac"}]
    \/ \E tier \in {"identified", "verified", "system"}, consumer \in 0 .. 2,
          seeded \in BOOLEAN, principals \in SUBSET {1, 2},
          asked \in [is : {"none", "invalid", "id"}, principal : -1 .. 2], owner \in -1 .. 2 :
          case = [on |-> "stream", seeded |-> seeded, principals |-> principals,
                  auth |-> [tier |-> tier, consumer |-> consumer],
                  asked |-> asked, run |-> [owner |-> owner]]
    \/ \E v, w \in Values, text \in SeqOf(Letters, 4) :
          \E order \in ScrubOrders([v |-> v, w |-> w]) :
             case = [on |-> "secret", text |-> text, secrets |-> [v |-> v, w |-> w],
                     order |-> order]

-----------------------------------------------------------------------------
(* Properties.                                                             *)

\* Whatever rows share a hash, whatever colons a string has and whichever
\* verifiers are registered, only the owner of a credential is let in: a token
\* that is exactly the credential, or an identifier whose message a registered
\* version of the key signed, of a consumer that exists and is not disabled.
\* Every attempt is audited with its outcome unless the verifier itself raised.
AuthenticSound ==
    case.on = "auth" /\ case.string # <<>> =>
        \A r \in Authenticate(case.string) :
            /\ r.ok => \E c \in case.credentials :
                   /\ c.id = r.consumer /\ c.consumer = "enabled"
                   /\ c.type \in case.verifiers
                   /\ \/ c.type # "hmac" /\ c.hash = case.string
                      \/ /\ c.type = "hmac" /\ c.secret = "key"
                         /\ c.hash \in {case.string, <<case.string[1]>>}
                         /\ \E v \in case.versions :
                                case.string[2] = Mac(v, SubSeq(case.string, 3, Len(case.string)))
            /\ r.audit = IF r.raises THEN "none" ELSE IF r.ok THEN "success" ELSE "failure"

\* A token authenticates its consumer even if it contains colons, unless its hash
\* is not its own, or its first part is a whole credential of someone else: that
\* row is then tried, refuses, and the token is not looked up (authenticate).
AuthenticComplete ==
    case.on = "auth" =>
        \A c \in case.credentials :
            (/\ c.type \in case.verifiers \ {"hmac"} /\ c.consumer = "enabled"
             /\ \A d \in case.credentials \ {c} :
                    d.hash # c.hash /\ (Len(c.hash) >= 3 => d.hash # <<c.hash[1]>>))
            => Authenticate(c.hash) = {Accepted(c)}

\* Nothing but an authenticated http or websocket request reaches the
\* application, not even when verification raises; the others get exactly one
\* complete rejection in their protocol's order (auth_middleware).
WallHolds ==
    case.on = "auth" =>
        \A type \in {"http", "websocket", "lifespan"} :
            \A r \in Middleware(type, case.string) :
                /\ r.app = (r.messages = <<>>)
                /\ type # "lifespan" /\ r.app =>
                       \E c \in case.credentials : c.id = r.context /\ c.consumer = "enabled"
                /\ type = "lifespan" => r.app

\* An event of a source is stored only for a verified request, under the source's
\* principal, and where a signature is configured its body is what was signed;
\* nobody who is not verified is told anything about the body or the principal;
\* a sender that repeats a request under one key stores one event; and a
\* correctly signed request is only refused for its body's own sake.
WebhooksAuthentic ==
    case.on = "webhook" =>
        LET source == case.source
            req == case.request
            once == Webhook(req, <<>>)
            twice == Delivered(2, req)
            signed == \E v \in case.versions : req.signature = <<Mac(v, req.body.bytes)>>
        IN  /\ once.events # <<>> =>
                   /\ once.status = 202 /\ source.credential.consumer = "enabled"
                   /\ once.events[1].by = source.principal /\ source.principal # 0
                   /\ source.signed => signed
            /\ once.status = 400 => VerifyWithRecord(source.credential, Presented(req)).ok
            /\ twice.status = once.status
            /\ req.key # 0 => twice.events = once.events
            /\ (/\ signed /\ source.signed /\ source.exists /\ source.principal # 0
                /\ source.credential.id # 0 /\ source.credential.consumer = "enabled"
                /\ source.credential.type = "hmac" /\ source.credential.secret = "key"
                /\ "hmac" \in case.verifiers /\ source.typed = "constant" /\ ~req.large)
               => once.status = IF req.body.bytes # req.body.text THEN 401
                                ELSE IF req.body.json THEN 202 ELSE 400
            /\ ReplayEndpoint(req).status = 200 =>
                   /\ SourceStream(req).events = source.principal
                   /\ \/ /\ source.credential.type # "hmac"
                         /\ req.authorization = source.credential.hash
                      \/ /\ source.credential.type = "hmac"
                         /\ \E v \in case.versions : req.authorization[2] =
                                Mac(v, SubSeq(req.authorization, 3, Len(req.authorization)))

\* Below the system tier nobody streams the notifications or the run of another
\* principal, whatever the request asks for, and an unseeded or unregistered
\* caller gets nothing at all (stream_handler, _check_run_access).
TenantsApart ==
    case.on = "stream" =>
        LET auth == case.auth
            caller == ResolveCaller(auth)
            target == NotificationTarget(auth, case.asked)
        IN  /\ target # -1 => caller # -1 /\ (target = caller \/ auth.tier = "system")
            /\ RunAccess(auth, case.run) = "granted" /\ auth.tier # "system" =>
                   /\ case.run.owner = caller /\ caller = auth.consumer
                   /\ caller \in case.principals

\* Scrubbing leaves no secret's value in a text, turns a text that is a secret's value
\* into the placeholder of a secret with that value alone, even if it contains
\* another's, and loses nothing: substituting gives the text back.
ScrubbedClean ==
    case.on = "secret" =>
        LET secrets == case.secrets
            out == Scrub(case.text, secrets, case.order)
        IN  /\ \A n \in DOMAIN secrets : Replaced(out, secrets[n], 0) = out
            /\ \A n \in DOMAIN secrets : \E m \in DOMAIN secrets :
                  /\ secrets[m] = secrets[n]
                  /\ Scrub(secrets[n], secrets, case.order) = <<Placeholder(m)>>
            /\ Substitute(out, secrets) = case.text

\* Who gets in, and what they get to see: credentials, the wall, webhooks, streams
\* and secrets.
AccessGuarded ==
    /\ AuthenticSound /\ AuthenticComplete /\ WallHolds
    /\ WebhooksAuthentic /\ TenantsApart /\ ScrubbedClean
=============================================================================
