------------------------------ MODULE GatewayDoors ------------------------------
(***************************************************************************)
(* api-gateway: its routes (cmd/main.go) and what each handler of          *)
(* internal/handlers makes of a request before it calls a service.         *)
(*                                                                         *)
(* A request is the set of fields it gives: the keys of its JSON body, its *)
(* path and its query, named as the services name them.  "actor" is the    *)
(* person the request is made in the name of, "page" stands for page and   *)
(* page_size.  A handler is described by what it passes on, by the person  *)
(* it puts down as the actor, and by the codes it answers.                 *)
(***************************************************************************)
EXTENDS Tables

\* A route: its method, the fields in its path or query, and the roles
\* RBACMiddleware lets through, all when there are none.
Route(verb, fields) == [verb |-> verb, fields |-> fields, roles |-> {}]
For(roles, route) == [route EXCEPT !.roles = roles]

\* A JSON body: the fields binding requires, and the others.
Form(needs, may) == [needs |-> needs, may |-> may]

\* A handler that passes these fields in nobody's name; names says, for each field
\* that carries a name, what becomes of a name its switch or map does not have; parses
\* are the fields it reads with time.Parse or parseQueryInt and goes on without.
Passes(fields) == [passes |-> fields, names |-> NoRule, parses |-> {}, actor |-> "nobody",
                   fails |-> 500, done |-> 200]
Naming(fields, rule, row) == [row EXCEPT !.names = Ruled(fields, rule, @)]
As(who, row) == [row EXCEPT !.actor = who]
Answering(code, row) == [row EXCEPT !.fails = code]
Creating(row) == [row EXCEPT !.done = 201]

-----------------------------------------------------------------------------
\* cmd/main.go

\* No middleware stands before these.
AuthRoutes == [op \in {"Register", "Login", "RefreshToken", "Logout", "VerifyEmail",
                       "ForgotPassword", "ResetPassword", "ChangePassword"} |-> Route("POST", {})]

UserRoutes ==
    [ListUsers      |-> Route("GET", {"page"}),  GetUser         |-> Route("GET", {"id"}),
     CreateUser     |-> Route("POST", {}),       UpdateUser      |-> Route("PUT", {"path_id"}),
     DeleteUser     |-> Route("DELETE", {"id"}), GetUserByEmail  |-> Route("GET", {"email"}),
     BanUser        |-> For({"admin"}, Route("POST", {"id"})),
     CheckUserExists |-> Route("GET", {"email"})]

DocumentRoutes ==
    [ListDocuments   |-> Route("GET", {"page"}),  CreateDocument  |-> Route("POST", {}),
     ExportDocuments |-> Route("GET", {"status", "doc_type"}),
     FilterDocuments |-> Route("POST", {}),       GetDocument     |-> Route("GET", {"id"}),
     MarkOverdue     |-> For({"admin", "manager"}, Route("POST", {})),
     UpdateDocument  |-> Route("PATCH", {"id"}),  DeleteDocument  |-> Route("DELETE", {"id"}),
     AssignResponsible |-> For({"admin", "manager"}, Route("POST", {"id"})),
     ChangeStatus    |-> Route("POST", {"id"}),
     ArchiveDocument |-> For({"admin", "manager"}, Route("POST", {"id"})),
     GetDocumentHistory |-> Route("GET", {"id"})]

TaskRoutes ==
    [ListTasksByDocument |-> Route("GET", {"document", "page"}),
     ListTasksByAssignee |-> Route("GET", {"assignee", "page"}),
     FilterTasks      |-> Route("POST", {}),       CreateTask   |-> Route("POST", {}),
     MarkTasksOverdue |-> For({"admin", "manager"}, Route("POST", {})),
     GetTask          |-> Route("GET", {"id"}),    UpdateTask   |-> Route("PATCH", {"id"}),
     DeleteTask       |-> Route("DELETE", {"id"}), AssignTask   |-> Route("POST", {"id"}),
     ChangeTaskStatus |-> Route("POST", {"id"}),
     GetTaskHistory   |-> Route("GET", {"id"}),    GetTaskStats |-> Route("GET", {})]

CalendarRoutes ==
    [CreateEvent      |-> Route("POST", {}),
     GetEventsByDay   |-> Route("GET", {"user", "year", "month", "day"}),
     GetEventsByWeek  |-> Route("GET", {"user", "year", "week"}),
     GetEventsByMonth |-> Route("GET", {"user", "year", "month"}),
     GetEventsByUser  |-> Route("GET", {"user", "page"}),
     GetUpcomingDeadlines |-> Route("GET", {"user", "days"}),
     GetEventStats    |-> Route("GET", {"user"}), FilterEvents |-> Route("POST", {}),
     DeleteEvent      |-> Route("DELETE", {"id"}), UpdateEvent |-> Route("PATCH", {"id"})]

NotificationRoutes ==
    [SendEmail     |-> For({"admin", "manager"}, Route("POST", {})),
     SendBulkEmail |-> For({"admin"}, Route("POST", {})),
     CreateNotification |-> Route("POST", {}),
     GetNotificationHistory |-> Route("GET", {"actor", "page"}),
     GetUnreadCount |-> Route("GET", {}),      MarkAllRead |-> Route("POST", {}),
     MarkNotificationRead |-> Route("POST", {"id"}),
     DeleteNotification   |-> Route("DELETE", {"id"}),
     GetTemplate   |-> Route("GET", {"id"}),   UpdatePreferences |-> Route("POST", {}),
     GetPreferences |-> Route("GET", {})]

MailRoutes ==
    [SendEmail     |-> Route("POST", {}),      SendBulkEmail |-> Route("POST", {}),
     SubmitMailJob |-> Route("POST", {}),      GetMailJob    |-> Route("GET", {"id"}),
     ListMailJobs  |-> Route("GET", {"page", "status", "category"}),
     ListTemplates |-> Route("GET", {}),       GetTemplate   |-> Route("GET", {"id"}),
     UpdateTemplate |-> Route("PUT", {"id"}),  GetStats      |-> Route("GET", {"from_date", "to_date"})]

Routes == [auth |-> AuthRoutes, user |-> UserRoutes, document |-> DocumentRoutes,
           task |-> TaskRoutes, calendar |-> CalendarRoutes,
           notification |-> NotificationRoutes, mail |-> MailRoutes]

-----------------------------------------------------------------------------
\* The request types at the end of each file of internal/handlers.

AuthForms ==
    [Register       |-> Form({"email", "password", "name"}, {}),
     Login          |-> Form({"email", "password"}, {}),
     RefreshToken   |-> Form({"refresh_token"}, {}),
     Logout         |-> Form({"refresh_token"}, {"actor"}),
     VerifyEmail    |-> Form({"token"}, {}),
     ForgotPassword |-> Form({"email"}, {}),
     ResetPassword  |-> Form({"token", "new_password"}, {}),
     ChangePassword |-> Form({"old_password", "new_password"}, {"actor"})]

UserForms == [CreateUser |-> Form({"email", "name"}, {"role", "password"}),
              UpdateUser |-> Form({"id"}, {"name", "role"}),
              BanUser    |-> Form({"reason"}, {})]

DocumentForms ==
    [CreateDocument    |-> Form({"title", "file_url", "doc_type"},
                                {"description", "responsible", "tags", "deadline"}),
     UpdateDocument    |-> Form({}, {"title", "description", "doc_type", "deadline"}),
     AssignResponsible |-> Form({"responsible"}, {}),
     ChangeStatus      |-> Form({"status"}, {}),
     FilterDocuments   |-> Form({}, {"status", "doc_type", "responsible", "creator", "page"})]

TaskForms ==
    [CreateTask       |-> Form({"document", "title"}, {"description"}),
     UpdateTask       |-> Form({}, {"title", "description"}),
     AssignTask       |-> Form({"assignee"}, {}),
     ChangeTaskStatus |-> Form({"status"}, {}),
     FilterTasks      |-> Form({}, {"document", "assignee", "status", "priority", "page"})]

CalendarForms ==
    [CreateEvent  |-> Form({"title"}, {"description", "event_type", "actor", "start", "end"}),
     UpdateEvent  |-> Form({}, {"title", "description", "start", "end"}),
     FilterEvents |-> Form({}, {"user", "event_type", "ref_type", "from_date", "to_date", "page"})]

Flags == {"email_enabled", "push_enabled", "deadline_notif", "assigned_notif",
          "status_notif", "overdue_notif"}

NotificationForms ==
    [SendEmail          |-> Form({"to", "subject", "body"}, {}),
     SendBulkEmail      |-> Form({"to", "subject", "body"}, {}),
     CreateNotification |-> Form({"title", "body"}, {"ref_id", "ref_type"}),
     UpdatePreferences  |-> Form({}, Flags)]

Letter == {"template", "vars", "category"}

MailForms ==
    [SendEmail      |-> Form({"to", "subject", "body"}, Letter \cup {"actor"}),
     SendBulkEmail  |-> Form({"to", "subject", "body"}, Letter),
     SubmitMailJob  |-> Form({"to"}, Letter \cup {"subject", "body", "actor", "status",
                                                  "notification", "attempts", "times"}),
     UpdateTemplate |-> Form({}, {"name", "subject", "body", "channel", "is_active"})]

NoForm == Form({}, {})
FormOf(service, op) ==
    LET forms == CASE service = "auth" -> AuthForms         [] service = "user" -> UserForms
                   [] service = "document" -> DocumentForms [] service = "task" -> TaskForms
                   [] service = "calendar" -> CalendarForms [] service = "mail" -> MailForms
                   [] service = "notification" -> NotificationForms
    IN  IF op \in DOMAIN forms THEN forms[op] ELSE NoForm

-----------------------------------------------------------------------------
\* The handlers.  On the public routes no middleware has set a caller, so the
\* fallback to it in Logout and ChangePassword finds nobody.

AuthSessions ==
    [Register     |-> Creating(Passes({"email", "password", "name"})),
     Login        |-> Answering(401, Passes({"email", "password"})),
     RefreshToken |-> Answering(401, Passes({"refresh_token"})),
     Logout       |-> As("named_or_caller", Passes({"refresh_token"}))]

AuthPasswords ==
    [VerifyEmail    |-> Passes({"token"}),
     ForgotPassword |-> Passes({"email"}),
     ResetPassword  |-> Passes({"token", "new_password"}),
     ChangePassword |-> As("named_or_caller", Passes({"old_password", "new_password"}))]

\* CheckUserExists asks for the user and takes any error for an absence.
UserHandlers ==
    [GetUser         |-> Answering(404, Passes({"id"})),
     ListUsers       |-> Parsing({"page"}, Passes({"page"})),
     CreateUser      |-> Creating(Naming({"role"}, "unset", Passes({"email", "name", "role", "password"}))),
     GetUserByEmail  |-> Answering(404, Passes({"email"})),
     UpdateUser      |-> Naming({"role"}, "unset", Passes({"id", "name", "role"})),
     DeleteUser      |-> Passes({"id"}),
     CheckUserExists |-> Answering(200, Passes({"email"})),
     BanUser         |-> As("caller", Passes({"id", "reason"}))]

DocumentBasics ==
    [ListDocuments  |-> Parsing({"page"}, Passes({"page"})),
     CreateDocument |-> Parsing({"deadline"}, As("caller", Creating(Naming({"doc_type"}, "raw",
                            Passes({"title", "description", "doc_type", "deadline"}))))),
     GetDocument    |-> Answering(404, Passes({"id"})),
     UpdateDocument |-> Parsing({"deadline"}, As("caller", Naming({"doc_type"}, "raw",
                            Passes({"id", "title", "description", "doc_type", "deadline"})))),
     DeleteDocument |-> As("caller", Passes({"id"})),
     AssignResponsible |-> As("caller", Passes({"id", "responsible"}))]

\* Mutation: the handler that changes a status forgets who asked.
DocumentMovesOfNobody ==
    [ChangeStatus    |-> Naming({"status"}, "refused", Passes({"id", "status"})),
     ArchiveDocument |-> As("nobody", Passes({"id"})),
     GetDocumentHistory |-> Passes({"id"}),
     FilterDocuments |-> Naming({"status"}, "unset", Naming({"doc_type"}, "raw",
                             Passes({"status", "doc_type", "responsible", "creator", "page"}))),
     MarkOverdue     |-> Passes({}),
     ExportDocuments |-> Naming({"status"}, "unset", Naming({"doc_type"}, "raw", Passes({"status", "doc_type"})))]

DocumentMoves ==
    [ChangeStatus    |-> As("caller", Naming({"status"}, "refused", Passes({"id", "status"}))),
     ArchiveDocument |-> As("caller", Passes({"id"})),
     GetDocumentHistory |-> Passes({"id"}),
     FilterDocuments |-> Naming({"status"}, "unset", Naming({"doc_type"}, "raw",
                             Passes({"status", "doc_type", "responsible", "creator", "page"}))),
     MarkOverdue     |-> Passes({}),
     ExportDocuments |-> Naming({"status"}, "unset", Naming({"doc_type"}, "raw", Passes({"status", "doc_type"})))]

TaskBasics ==
    [ListTasksByDocument |-> Parsing({"page"}, Passes({"document", "page"})),
     ListTasksByAssignee |-> Parsing({"page"}, Passes({"assignee", "page"})),
     GetTask    |-> Answering(404, Passes({"id"})),
     CreateTask |-> As("caller", Creating(Passes({"document", "title", "description"}))),
     UpdateTask |-> As("caller", Passes({"id", "title", "description"})),
     DeleteTask |-> As("caller", Passes({"id"})),
     AssignTask |-> As("caller", Passes({"id", "assignee"}))]

TaskMoves ==
    [ChangeTaskStatus |-> As("caller", Naming({"status"}, "refused", Passes({"id", "status"}))),
     GetTaskHistory   |-> Passes({"id"}),
     GetTaskStats     |-> Passes({}),
     FilterTasks      |-> Naming({"status", "priority"}, "unset",
                              Passes({"document", "assignee", "status", "priority", "page"})),
     MarkTasksOverdue |-> Passes({})]

CalendarViews ==
    [GetEventsByDay   |-> Parsing(Numbers, Passes({"user", "year", "month", "day"})),
     GetEventsByWeek  |-> Parsing(Numbers, Passes({"user", "year", "week"})),
     GetEventsByMonth |-> Parsing(Numbers, Passes({"user", "year", "month"})),
     GetEventsByUser  |-> Parsing(Numbers, Passes({"user", "page"})),
     GetUpcomingDeadlines |-> Parsing(Numbers, Passes({"user", "days"})),
     GetEventStats    |-> Passes({"user"})]

CalendarNew ==
    [CreateEvent |-> Parsing({"start", "end"}, As("named_or_caller", Creating(
                         Naming({"event_type"}, "unset",
                             Passes({"title", "description", "event_type", "start", "end"})))))]

CalendarChanges ==
    [DeleteEvent  |-> As("caller", Passes({"id"})),
     UpdateEvent  |-> Parsing({"start", "end"},
                          As("caller", Passes({"id", "title", "description", "start", "end"}))),
     FilterEvents |-> Parsing({"from_date", "to_date"}, Naming({"event_type"}, "unset",
                          Passes({"user", "event_type", "ref_type", "from_date", "to_date", "page"})))]

NotificationInboxDoor ==
    [SendEmail     |-> Passes({"to", "subject", "body"}),
     SendBulkEmail |-> Passes({"to", "subject", "body"}),
     CreateNotification |-> As("caller", Creating(Passes({"title", "body", "ref_id", "ref_type"}))),
     GetNotificationHistory |-> Parsing({"page"}, As("named_by_an_admin", Passes({"page"}))),
     MarkNotificationRead   |-> As("caller", Passes({"id"})),
     MarkAllRead    |-> As("caller", Passes({})),
     GetUnreadCount |-> As("caller", Passes({}))]

NotificationChoices ==
    [DeleteNotification |-> As("caller", Passes({"id"})),
     GetTemplate        |-> Answering(404, Passes({"id"})),
     UpdatePreferences  |-> As("caller", Passes(Flags)),
     GetPreferences     |-> As("caller", Passes({}))]

MailJobsDoor ==
    [SendEmail     |-> As("named_or_caller", Naming({"category"}, "raw",
                           Passes(Letter \cup {"to", "subject", "body"}))),
     SendBulkEmail |-> Naming({"category"}, "raw", Passes(Letter \cup {"to", "subject", "body"})),
     SubmitMailJob |-> Parsing({"times"}, As("named", Creating(Naming({"category", "status"}, "unset",
                           Passes(Letter \cup {"to", "subject", "body", "status", "notification",
                                               "attempts", "times"}))))),
     GetMailJob    |-> Answering(404, Passes({"id"})),
     ListMailJobs  |-> Parsing({"page"}, Naming({"category", "status"}, "raw",
                           Passes({"page", "status", "category"})))]

MailTemplatesDoor ==
    [GetTemplate    |-> Answering(404, Passes({"id"})),
     ListTemplates  |-> Passes({}),
     UpdateTemplate |-> Passes({"id", "name", "subject", "body", "channel", "is_active"}),
     GetStats       |-> Parsing({"from_date", "to_date"}, Passes({"from_date", "to_date"}))]

GatewayHandlers ==
    [auth         |-> Together(AuthSessions, AuthPasswords),
     user         |-> UserHandlers,
     document     |-> Together(DocumentBasics, DocumentMoves),
     task         |-> Together(TaskBasics, TaskMoves),
     calendar     |-> Together(CalendarViews, Together(CalendarNew, CalendarChanges)),
     notification |-> Together(NotificationInboxDoor, NotificationChoices),
     mail         |-> Together(MailJobsDoor, MailTemplatesDoor)]

-----------------------------------------------------------------------------
\* The names the handlers' switches and maps have.

TaskStatusMap == {"open", "in_progress", "done", "overdue"}
TaskPriorityMap == {"low", "medium", "high", "critical"}
DocumentStatusMap == {"draft", "assigned", "in_progress", "completed", "overdue", "archived"}
eventTypeMap == {"deadline", "task", "meeting", "reminder"}
userRole == {"employee", "manager", "admin"}
mailCategory == {"document_assigned", "status_changed", "deadline_reminder", "overdue", "mention",
                 "task_assigned", "verification", "password_reset", "system"}
mailStatus == {"queued", "processing", "sent", "failed", "bounced", "cancelled"}

GatewayKnows == [user     |-> [role |-> userRole],
                 document |-> [status |-> DocumentStatusMap],
                 task     |-> [status |-> TaskStatusMap, priority |-> TaskPriorityMap],
                 calendar |-> [event_type |-> eventTypeMap],
                 mail     |-> [category |-> mailCategory, status |-> mailStatus]]

=============================================================================
