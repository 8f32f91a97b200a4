--------------------------------- MODULE Doors ---------------------------------
(***************************************************************************)
(* The ways into the services: a request through the gateway (its          *)
(* middleware, handler and gRPC client, then the service's gRPC server),   *)
(* straight to a gRPC server, or to a service's own HTTP handler.  One     *)
(* request is followed at a time; an action is one layer.                  *)
(*                                                                         *)
(* What a service makes of a request is in the modules of the services:    *)
(* here it accepts or answers any kind of error it has, except that it     *)
(* never stores a name it does not know.  The rate limit and the           *)
(* idempotency key are in GatewayRateLimit and GatewayIdempotency: here    *)
(* they let through or refuse.                                             *)
(***************************************************************************)
EXTENDS GatewayDoors, HttpDoors, Integers, FiniteSets

CONSTANTS MaxLeftOut,  \* how many of the fields a door knows a body may leave out
          MaxGarbled   \* how many of the texts it gives may be ones nobody can read

ASSUME MaxLeftOutAssumption == MaxLeftOut \in Nat
ASSUME MaxGarbledAssumption == MaxGarbled \in Nat

VARIABLE request  \* the request under way and what the layers have made of it

doorsVars == <<request>>

-----------------------------------------------------------------------------
\* The names a field may carry: those the services' domain packages accept.

DocumentStatuses == {"draft", "assigned", "in_progress", "completed", "overdue", "archived"}
DocumentTypes == {"contract", "invoice", "report", "memo", "order", "other"}
TaskStatuses == {"open", "in_progress", "done", "overdue"}
TaskPriorities == {"low", "medium", "high", "critical"}
EventTypes == {"deadline", "task", "meeting", "reminder"}
Roles == {"employee", "manager", "admin"}
NotificationCategories == {"document_assigned", "status_changed", "deadline_reminder", "overdue",
                           "task_assigned", "mention", "system"}
JobStatuses == {"queued", "processing", "sent", "failed", "bounced", "cancelled"}
MailCategories == NotificationCategories \cup {"password_reset", "verification"}

Domain == [auth |-> [role |-> Roles], user |-> [role |-> Roles],
           document |-> [status |-> DocumentStatuses, doc_type |-> DocumentTypes],
           task |-> [status |-> TaskStatuses, priority |-> TaskPriorities],
           calendar |-> [event_type |-> EventTypes],
           notification |-> [category |-> NotificationCategories],
           mail |-> [category |-> MailCategories, status |-> JobStatuses]]

\* "bogus" stands for any other name, "unset" for the zero value of an enum or string.
Words(q) == (IF q.service = "notification" /\ q.door = "grpc" THEN NotificationTypes
             ELSE Domain[q.service][q.field]) \cup {"bogus"}

\* A table of names, where a layer has one for the field.
Table(tables, q) == IF q.service \in DOMAIN tables THEN IF q.field \in DOMAIN tables[q.service]
                    THEN tables[q.service][q.field] ELSE {} ELSE {}

\* What a layer passes on for a name, given what it does with those it has no case for.
Named(rule, known, word) ==
    CASE word \in known \/ rule = "raw"                             -> word
      [] word \notin known /\ rule = "reminder_if_given"            -> IF word = "unset" THEN "unset" ELSE "reminder"
      [] word \notin known /\ rule \notin {"raw", "reminder_if_given"} -> rule

\* The operations that put the name into a row: there the service refuses one it does
\* not know.  Elsewhere such a name selects nothing, or is taken for "system" (mail).
Stores == {"CreateDocument", "UpdateDocument", "ChangeStatus", "CreateTask", "UpdateTask",
           "ChangeTaskStatus", "CreateEvent", "Register", "CreateUser", "UpdateUser"}

-----------------------------------------------------------------------------
\* Requests: everything a door can be given but for MaxLeftOut of those fields, or only
\* the ones it cannot do without; at most one named field, each of its names in turn.

Choices(needs, may) ==
    {needs} \cup {given \in SUBSET (needs \cup may) :
                     Cardinality((needs \cup may) \ given) <= MaxLeftOut}

\* The fields given whose text nobody can read; a message has them typed.
Garbles(door, given) ==
    LET texts == IF door = "grpc" THEN {} ELSE given \cap (Dates \cup Numbers)
    IN  {garbled \in SUBSET texts : Cardinality(garbled) <= MaxGarbled}

Ask(door, service, op, gives, field, word, callers, keys) ==
    UNION {{[door |-> door, service |-> service, op |-> op, gives |-> g, garbled |-> b,
             field |-> field, word |-> word, caller |-> c, keyed |-> k, about |-> a] :
               b \in Garbles(door, g), c \in callers, k \in keys,
               a \in IF op = "CreateNotification" THEN {"nothing", "task", "document"} ELSE {"nothing"}} :
           g \in gives}

Asking(door, service, op, path, needs, may, named, callers, keys) ==
    LET gives == {path \cup body : body \in Choices(needs \ named, may \ named)}
    IN  Ask(door, service, op, gives, "none", "unset", callers, keys)
        \cup UNION {UNION {Ask(door, service, op, gives, f, w, callers, keys) :
                               w \in Words([door |-> door, service |-> service, field |-> f])} : f \in named}

Through(service, op) ==
    LET route == Routes[service][op]  form == FormOf(service, op)
        row == GatewayHandlers[service][op]
    IN  Asking("gateway", service, op, route.fields \ DOMAIN row.names, form.needs,
               form.may \cup (route.fields \cap DOMAIN row.names), DOMAIN row.names,
               {"nobody", "employee", "manager", "admin"}, BOOLEAN)

Straight(service, op) ==
    LET row == Servers[service][op]
    IN  Asking("grpc", service, op, {}, row.needs, row.reads \ row.needs, DOMAIN row.names, {"nobody"}, {FALSE})

Beside(service, op) ==
    LET row == Pages[service][op]
    IN  Asking("http", service, op, row.path, row.needs, row.reads \ (row.path \cup row.needs),
               DOMAIN row.names, {"nobody"}, {FALSE})

Asked == (UNION {UNION {Through(s, op) : op \in DOMAIN Routes[s]} : s \in DOMAIN Routes})
         \cup (UNION {UNION {Straight(s, op) : op \in DOMAIN Servers[s]} : s \in DOMAIN Servers})
         \cup (UNION {UNION {Beside(s, op) : op \in DOMAIN Pages[s]} : s \in DOMAIN Pages})

-----------------------------------------------------------------------------

\* holds are the fields passed on so far, word the name among them, actor whose name
\* it is in, blanks the fields of an update written though nobody gave them.
NoRequest == [step |-> "none"]

Onward(step) == request' = [request EXCEPT !.step = step]
Respond(code, cause) == request' = [request EXCEPT !.step = "answered", !.code = code, !.cause = cause]

\* A request comes in: the public routes have no middleware, the services' doors none at all.
Take == /\ request = NoRequest
        /\ \E q \in Asked :
              request' = [step |-> CASE q.door = "grpc" -> "server" [] q.door = "http" -> "page"
                                     [] q.door = "gateway" /\ q.service = "auth" -> "handler" [] OTHER -> "token",
                          asked |-> q, holds |-> q.gives, word |-> q.word,
                          actor |-> IF "actor" \in q.gives THEN "named" ELSE "nobody",
                          blanks |-> {}, code |-> 0, cause |-> "none"]

AtStep(step) == request.step = step
Row(table) == table[request.asked.service][request.asked.op]
Verb == Row(Routes).verb
Holding == request.holds \cup (IF request.word = "unset" THEN {} ELSE {request.asked.field})

\* JWTMiddleware asks the auth service, and takes any error for a bad token.
CheckToken == /\ AtStep("token")
              /\ \/ request.asked.caller # "nobody" /\ Onward("limit")
                 \/ request.asked.caller = "nobody" /\ Respond(401, "unauthorized")
                 \/ Respond(401, "failed")

PassLimit == AtStep("limit") /\ (Onward("key") \/ Respond(429, "limited"))

RequireKey == /\ AtStep("key")
              /\ IF Verb \in {"POST", "PATCH", "PUT"} /\ ~request.asked.keyed
                 THEN Respond(400, "invalid") ELSE Onward("role")

\* RBACMiddleware stands before the routes that list roles; an admin has them all.
CheckRole == /\ AtStep("role")
             /\ IF Row(Routes).roles = {} \/ request.asked.caller \in Row(Routes).roles \cup {"admin"}
                THEN Onward("handler") ELSE Respond(403, "forbidden")

\* Whose name a handler puts on the request.
Signs(rule, q) ==
    LET caller == IF q.service = "auth" THEN "nobody" ELSE "caller"
        named == "actor" \in q.gives
    IN  CASE rule = "caller"            -> caller
          [] rule = "named"             -> IF named THEN "named" ELSE "nobody"
          [] rule = "named_or_caller"   -> IF named THEN "named" ELSE caller
          [] rule = "named_by_an_admin" -> IF named /\ q.caller = "admin" THEN "named" ELSE caller
          [] OTHER                      -> "nobody"

\* A gateway handler binds the body, turns the names and calls its client, which adds
\* nothing.  A text it cannot read is left out if the handler parses it, and is an error
\* of binding if not.
Handle ==
    LET row == Row(GatewayHandlers)  q == request.asked
        rule == IF q.field = "none" THEN "unset" ELSE row.names[q.field]
        word == Named(rule, Table(GatewayKnows, q), q.word)
    IN  /\ AtStep("handler")
        /\ IF \/ ~(FormOf(q.service, q.op).needs \subseteq Holding)
              \/ ~(q.garbled \subseteq row.parses)
              \/ q.field # "none" /\ word = "refused"
           THEN Respond(400, "invalid")
           ELSE request' = [request EXCEPT !.step = "server", !.holds = (@ \cap row.passes) \ q.garbled,
                                           !.word = word, !.actor = Signs(row.actor, q)]

\* The name as a gRPC server hands it to its service.
ServerWord(row, q, word) ==
    IF q.field \notin DOMAIN row.names THEN "unset"
    ELSE IF row.names[q.field] = "categoryFromProto" THEN categoryFromProto(word, q.about)
    ELSE Named(row.names[q.field], Table(ServerKnows, q), word)

\* The fields the server writes though the request leaves them out.
Blanks(row) == row.clears \ request.asked.gives

\* A gRPC server asks for what it needs and reads what it knows of.
ServerReads ==
    LET row == Row(Servers)  q == request.asked
        present == Holding \cup (IF request.actor = "nobody" THEN {} ELSE {"actor"})
    IN  /\ AtStep("server")
        /\ IF row.needs \subseteq present
           THEN request' = [request EXCEPT !.step = "service", !.holds = @ \cap row.reads,
                                           !.word = ServerWord(row, q, @), !.blanks = Blanks(row),
                                           !.actor = IF "actor" \in row.reads THEN @ ELSE "nobody"]
           ELSE Respond(IF q.door = "gateway" THEN Row(GatewayHandlers).fails ELSE InvalidArgument, "invalid")

\* The gateway cannot reach the service.
Unreachable == /\ AtStep("server") /\ request.asked.door = "gateway"
               /\ Respond(Row(GatewayHandlers).fails, "failed")

\* A service's HTTP handler.
PageReads ==
    LET row == Row(Pages)  q == request.asked
    IN  /\ AtStep("page")
        /\ IF row.needs \subseteq Holding /\ q.garbled \subseteq row.parses
           THEN request' = [request EXCEPT !.step = "service", !.blanks = Blanks(row),
                               !.holds = @ \ q.garbled,
                               !.word = IF q.field = "none" THEN "unset" ELSE
                                        Named(row.names[q.field], Domain[q.service][q.field], @)]
           ELSE Respond(400, "invalid")

\* The code a door answers one of the service's errors with.
CodeOf(kind) ==
    LET q == request.asked
    IN  CASE q.door = "gateway" -> Row(GatewayHandlers).fails
          [] q.door = "grpc"    -> GrpcCodes[q.service][kind]
          [] OTHER -> IF Row(Pages).code # 0 THEN Row(Pages).code ELSE PageCodes[q.service][kind]

\* The service answers.
Decide ==
    LET q == request.asked
        refuses == request.word = "bogus" /\ q.op \in Stores
        kinds == IF q.door = "http" /\ q.service \in DOMAIN PageCodes
                 THEN DOMAIN PageCodes[q.service] ELSE DOMAIN GrpcCodes[q.service]
        done == CASE q.door = "gateway" -> Row(GatewayHandlers).done
                  [] q.door = "grpc" -> OK [] OTHER -> Row(Pages).done
    IN  /\ AtStep("service")
        /\ \/ ~refuses /\ Respond(done, "done")
           \/ \E kind \in IF refuses THEN {"invalid"} ELSE kinds : Respond(CodeOf(kind), kind)

\* The answer is out.
Leave == AtStep("answered") /\ request' = NoRequest

DoorsInit == request = NoRequest

DoorsNext == \/ Take \/ CheckToken \/ PassLimit \/ RequireKey \/ CheckRole \/ Handle
             \/ ServerReads \/ Unreachable \/ PageReads \/ Decide \/ Leave

DoorsSpec == DoorsInit /\ [][DoorsNext]_doorsVars

-----------------------------------------------------------------------------
\* Properties of a request that was done.

Done == IF AtStep("answered") THEN request.cause = "done" ELSE FALSE
Is(q, service, op) == q.service = service /\ q.op = op

\* The fields a request may give in vain.
InVain(q) ==
    CASE Is(q, "document", "CreateDocument") /\ q.door = "gateway" -> {"file_url", "tags", "responsible"}
      [] Is(q, "user", "CreateUser") -> {"password"}
      [] Is(q, "user", "UpdateUser") -> {"path_id"}
      [] Is(q, "mail", "UpdateTemplate") -> {"name"}
      [] OTHER -> {}

\* The operations that store what they are given.
Keeps == {"CreateDocument", "UpdateDocument", "CreateTask", "UpdateTask", "CreateEvent", "UpdateEvent",
          "SubmitMailJob", "UpdatePreferences", "UpdateTemplate"}

\* The texts that may get lost because they cannot be read: any of a question, and of what
\* is stored the dates, at the gateway.
Unread(q) == IF q.op \notin Keeps THEN q.garbled
             ELSE IF q.door = "gateway" THEN q.garbled \cap Dates ELSE {}

\* What a request that is done gave has reached the service through every layer, but
\* for what is lost without a word: the fields InVain lists, the file, the tags and the
\* responsible of a new document among them, and the texts Unread lists, a deadline or a
\* start that is not RFC 3339 among them.  The services' own doors lose no date they are
\* to store: they refuse it.
GivenFieldsArrive ==
    LET q == request.asked
    IN  Done => q.gives \ (InVain(q) \cup Unread(q) \cup {"actor"}) \subseteq request.holds

\* The updates that write what they are not given.
Rewrites(q) == Is(q, "notification", "UpdatePreferences") \/ Is(q, "mail", "UpdateTemplate")

\* What an update leaves out stays as it was, through whichever door it comes; only the
\* preferences and the mail templates are written over as a whole.
OmittedFieldsStay == Done => request.blanks = {} \/ Rewrites(request.asked)

\* The name the service shows again for the one it was handed.
Shown(q, word) == IF q.service = "notification" THEN protoTypeFromCategory(word)
                  ELSE IF word \in Table(ServerShows, q) THEN word ELSE "unset"
HasShown(q) == q.door # "http" /\ (q.service = "notification" \/ Table(ServerShows, q) # {})

\* Every name the services' domains have reaches the service as itself and is shown
\* as itself; any other is refused, dropped or replaced by the door's default, and
\* what the service stores is a name it knows.  A notification keeps its type unless
\* it is a system one whose title speaks of a task or a document.
NamedValuesArrive ==
    LET q == request.asked
        type == q.service = "notification" /\ q.door = "grpc"
        default == {"unset", "reminder", "employee", "system", "queued"}
    IN  Done /\ q.field # "none" =>
            IF q.word = "bogus"
            THEN request.word \in default \cup (IF q.op \in Stores THEN {} ELSE {"bogus"}) \/ type
            ELSE /\ ~type => request.word = q.word
                 /\ HasShown(q) => Shown(q, request.word) = q.word \/ (type /\ q.word = "system" /\ q.about # "nothing")

\* Through the gateway a service acts in the caller's name: in another's only where the
\* request may name one (a new event, a mail, its job, and an admin who reads another's
\* notifications), and in nobody's only on the public routes and for a mail job.
ActorIsCaller ==
    LET q == request.asked
        signed == "actor" \in Servers[q.service][q.op].reads
    IN  Done /\ q.door = "gateway" /\ signed =>
            \/ request.actor = "caller"
            \/ request.actor = "named" /\ (q.op \in {"CreateEvent", "SendEmail", "SubmitMailJob"} \/ q.service = "auth")
            \/ request.actor = "named" /\ q.op = "GetNotificationHistory" /\ q.caller = "admin"
            \/ request.actor = "nobody" /\ (q.op = "SubmitMailJob" \/ q.service = "auth")

\* The operations whose door blames the caller, or an absence, for any failure.
Blamed(q) ==
    CASE q.door = "gateway" -> {"Login", "RefreshToken", "GetUser", "GetUserByEmail", "CheckUserExists",
                                "GetDocument", "GetTask", "GetMailJob", "GetTemplate"}
      [] q.door = "http" -> {"GetDocument", "GetTask", "ChangeStatus", "ChangeTaskStatus", "Login",
                             "RefreshToken", "ValidateToken", "VerifyEmail", "ResetPassword",
                             "ChangePassword", "GetSession"}
      [] OTHER -> {}

\* A service that failed of itself is not answered for as the caller's mistake, but for
\* the token check and the operations Blamed lists.
FailuresAreOwned ==
    LET q == request.asked
        ours == IF q.door = "grpc" THEN {Unknown, Internal} ELSE 500 .. 599
    IN  AtStep("answered") => (request.cause = "failed" =>
            \/ request.code \in ours
            \/ q.op \in Blamed(q)
            \/ q.door = "gateway" /\ q.service # "auth" /\ request.code = 401)

=============================================================================
