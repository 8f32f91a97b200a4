------------------------------- MODULE GrpcDoors -------------------------------
(***************************************************************************)
(* The gRPC servers (internal/transport/grpc/server.go of each service):   *)
(* what each method reads of its request and hands to the service, what it *)
(* refuses itself, how it converts the enums both ways, and the code it    *)
(* answers an error with.                                                  *)
(*                                                                         *)
(* Fields are named as in GatewayDoors.  "clears" are the fields of an     *)
(* update that are written even when the request leaves them out: proto3   *)
(* and JSON give an absent field its zero value, and these methods take it *)
(* for a value.                                                            *)
(***************************************************************************)
EXTENDS Tables

\* A method that reads these fields, answers itself when one of needs is missing.
Reads(fields, needs) == [reads |-> fields, needs |-> needs, names |-> NoRule, clears |-> {}]
Turning(fields, rule, row) == [row EXCEPT !.names = Ruled(fields, rule, @)]
Clearing(fields, row) == [row EXCEPT !.clears = fields]

Mine == {"actor"}
Paged == {"page"}

-----------------------------------------------------------------------------

AuthServer ==
    [Register       |-> Reads({"email", "password", "name"}, {}),
     Login          |-> Reads({"email", "password"}, {}),
     RefreshToken   |-> Reads({"refresh_token"}, {}),
     Logout         |-> Reads({"refresh_token", "actor"}, {}),
     ValidateToken  |-> Reads({"access_token"}, {}),
     VerifyEmail    |-> Reads({"token"}, {}),
     ForgotPassword |-> Reads({"email"}, {}),
     ResetPassword  |-> Reads({"token", "new_password"}, {}),
     ChangePassword |-> Reads({"actor", "old_password", "new_password"}, {}),
     GetSession     |-> Reads(Mine, {}),
     RevokeAllSessions |-> Reads(Mine, {})]

\* The password of CreateUser is not read; CheckUserExists reads the e-mail
\* from the field of the id.
UserServer ==
    [CreateUser     |-> Turning({"role"}, "employee", Reads({"email", "name", "role"}, {})),
     GetUser        |-> Reads({"id"}, {"id"}),
     GetUserByEmail |-> Reads({"email"}, {"email"}),
     UpdateUser     |-> Turning({"role"}, "unset", Reads({"id", "name", "role"}, {"id"})),
     DeleteUser     |-> Reads({"id"}, {"id"}),
     ListUsers      |-> Reads(Paged, {}),
     GetUsersBatch  |-> Reads({"ids"}, {}),
     CheckUserExists |-> Reads({"email"}, {"email"}),
     VerifyUserEmail |-> Reads({"id"}, {"id"})]

UserAdmin == [GetUserStats |-> Reads({}, {}),
              BanUser      |-> Reads({"id", "actor", "reason"}, {"id", "actor"})]

\* Mutation: the deadline of a new document is not read.
DocumentServerBasicsUndated ==
    [CreateDocument |-> Turning({"doc_type"}, "raw",
                            Reads({"title", "description", "doc_type", "actor"}, {})),
     GetDocument    |-> Reads({"id"}, {}),
     UpdateDocument |-> Turning({"doc_type"}, "raw",
                            Reads({"id", "title", "description", "doc_type", "deadline", "actor"}, {})),
     DeleteDocument |-> Reads({"id", "actor"}, {}),
     ListDocuments  |-> Reads(Paged, {}),
     AssignResponsible |-> Reads({"id", "responsible", "actor"}, {})]

\* file_url, tags and responsible of a new document have no place in the message.
DocumentServerBasics ==
    [CreateDocument |-> Turning({"doc_type"}, "raw",
                            Reads({"title", "description", "doc_type", "actor", "deadline"}, {})),
     GetDocument    |-> Reads({"id"}, {}),
     UpdateDocument |-> Turning({"doc_type"}, "raw",
                            Reads({"id", "title", "description", "doc_type", "deadline", "actor"}, {})),
     DeleteDocument |-> Reads({"id", "actor"}, {}),
     ListDocuments  |-> Reads(Paged, {}),
     AssignResponsible |-> Reads({"id", "responsible", "actor"}, {})]

DocumentServerMoves ==
    [ChangeStatus    |-> Turning({"status"}, "unset", Reads({"id", "status", "actor"}, {})),
     ArchiveDocument |-> Reads({"id", "actor"}, {}),
     GetDocumentHistory |-> Reads({"id"}, {}),
     FilterDocuments |-> Turning({"status"}, "unset", Turning({"doc_type"}, "raw",
                             Reads({"status", "doc_type", "responsible", "creator",
                                    "from_date", "to_date", "page"}, {}))),
     MarkOverdue     |-> Reads({}, {}),
     ExportDocuments |-> Turning({"status"}, "unset", Turning({"doc_type"}, "raw", Reads({"status", "doc_type"}, {}))),
     GetDocumentStats |-> Reads({}, {})]

TaskServerBasics ==
    [CreateTask |-> Turning({"priority"}, "unset",
                        Reads({"title", "description", "document", "actor", "priority", "deadline"}, {})),
     GetTask    |-> Reads({"id"}, {}),
     UpdateTask |-> Turning({"priority"}, "unset",
                        Reads({"id", "title", "description", "priority", "deadline", "actor"}, {})),
     DeleteTask |-> Reads({"id", "actor"}, {}),
     ListTasksByDocument |-> Reads({"document", "page"}, {}),
     ListTasksByAssignee |-> Reads({"assignee", "page"}, {}),
     AssignTask |-> Reads({"id", "assignee", "actor"}, {})]

TaskServerMoves ==
    [ChangeTaskStatus |-> Turning({"status"}, "unset", Reads({"id", "status", "actor"}, {})),
     GetTaskHistory   |-> Reads({"id"}, {}),
     FilterTasks      |-> Turning({"status", "priority"}, "unset",
                              Reads({"status", "priority", "assignee", "document",
                                     "from_date", "to_date", "page"}, {})),
     MarkTasksOverdue |-> Reads({}, {}),
     GetTaskStats     |-> Reads({}, {})]

CalendarServerViews ==
    [CreateEvent |-> Turning({"event_type"}, "reminder",
                         Reads({"title", "description", "event_type", "actor", "ref_id", "ref_type",
                                "start", "end"}, {"title", "actor", "start"})),
     GetEventsByDay   |-> Reads({"user", "year", "month", "day"}, {"user"}),
     GetEventsByWeek  |-> Reads({"user", "year", "week"}, {"user"}),
     GetEventsByMonth |-> Reads({"user", "year", "month"}, {"user"}),
     GetEventsByUser  |-> Reads({"user", "page"}, {"user"}),
     GetUpcomingDeadlines |-> Reads({"user", "days"}, {"user"})]

\* Mutation: an absent title or description is passed on as an empty one.
CalendarServerChangesBlank ==
    [DeleteEvent   |-> Reads({"id", "actor"}, {"id", "actor"}),
     UpdateEvent   |-> Clearing({"title", "description"},
                           Reads({"id", "title", "description", "start", "end", "actor"}, {"id", "actor"})),
     FilterEvents  |-> Turning({"event_type"}, "reminder_if_given",
                           Reads({"user", "event_type", "ref_type", "from_date", "to_date", "page"}, {})),
     GetEventStats |-> Reads({"user"}, {})]

CalendarServerChanges ==
    [DeleteEvent   |-> Reads({"id", "actor"}, {"id", "actor"}),
     UpdateEvent   |-> Reads({"id", "title", "description", "start", "end", "actor"}, {"id", "actor"}),
     FilterEvents  |-> Turning({"event_type"}, "reminder_if_given",
                           Reads({"user", "event_type", "ref_type", "from_date", "to_date", "page"}, {})),
     GetEventStats |-> Reads({"user"}, {})]

Booleans == {"email_enabled", "push_enabled", "deadline_notif", "assigned_notif",
             "status_notif", "overdue_notif"}

\* StreamNotifications is in NotificationHub.
NotificationServer ==
    [SendEmail     |-> Reads({"to", "subject", "body", "template", "vars"}, {}),
     SendBulkEmail |-> Reads({"to", "subject", "body", "template", "vars"}, {}),
     CreateNotification |-> Turning({"category"}, "categoryFromProto",
                                Reads({"actor", "title", "body", "category", "ref_id", "ref_type"}, {})),
     GetNotificationHistory |-> Reads({"actor", "page"}, {}),
     MarkNotificationRead   |-> Reads({"id", "actor"}, {"id", "actor"}),
     MarkAllRead    |-> Reads(Mine, Mine),
     GetUnreadCount |-> Reads(Mine, Mine),
     DeleteNotification |-> Reads({"id", "actor"}, {"id", "actor"}),
     GetTemplate    |-> Reads({"id"}, {"id"})]

NotificationChoicesServer ==
    [UpdatePreferences |-> Clearing(Booleans, Reads(Booleans \cup Mine, {})),
     GetPreferences    |-> Reads(Mine, Mine)]

Mail == {"to", "subject", "body", "template", "vars", "category"}

MailServer ==
    [SendEmail     |-> Turning({"category"}, "raw", Reads(Mail \cup Mine, {})),
     SendBulkEmail |-> Turning({"category"}, "raw", Reads(Mail, {})),
     SubmitMailJob |-> Turning({"category"}, "system", Turning({"status"}, "queued",
                           Reads(Mail \cup {"actor", "status", "notification", "attempts", "times"}, {}))),
     GetMailJob    |-> Reads({"id"}, {}),
     ListMailJobs  |-> Turning({"category", "status"}, "raw",
                           Reads({"page", "status", "category"}, {}))]

\* protoToDomainTemplate leaves the name out and takes every other field as it is.
MailTemplatesServer ==
    [GetTemplate    |-> Reads({"id"}, {}),
     ListTemplates  |-> Reads({}, {}),
     UpdateTemplate |-> Clearing({"subject", "body", "channel", "is_active"},
                            Reads({"id", "subject", "body", "channel", "is_active"}, {})),
     GetStats       |-> Reads({"from_date", "to_date"}, {})]

Servers ==
    [auth         |-> AuthServer,
     user         |-> Together(UserServer, UserAdmin),
     document     |-> Together(DocumentServerBasics, DocumentServerMoves),
     task         |-> Together(TaskServerBasics, TaskServerMoves),
     calendar     |-> Together(CalendarServerViews, CalendarServerChanges),
     notification |-> Together(NotificationServer, NotificationChoicesServer),
     mail         |-> Together(MailServer, MailTemplatesServer)]

-----------------------------------------------------------------------------
\* Enums: the names each conversion from a request has a case for.

statusFromProto == {"draft", "assigned", "in_progress", "completed", "overdue", "archived"}
taskStatusFromProto == {"open", "in_progress", "done", "overdue"}
taskPriorityFromProto == {"low", "medium", "high", "critical"}
protoEventTypeToDomain == {"deadline", "task", "meeting", "reminder"}
protoRoleToDomain == {"employee", "manager", "admin"}
protoStatusToDomain == {"queued", "processing", "sent", "failed", "bounced", "cancelled"}

\* Mutation: one category is missing.
protoCategoryToDomainShort == {"document_assigned", "status_changed", "deadline_reminder", "overdue",
                               "task_assigned", "mention", "system", "verification"}

protoCategoryToDomain == {"document_assigned", "status_changed", "deadline_reminder", "overdue",
                          "task_assigned", "mention", "system", "verification", "password_reset"}

\* The type of a notification: an assignment is of a task or of a document by the
\* reference, and a system message or an untyped one by what its title contains.
\* about is what that is.
categoryFromProto(type, about) ==
    CASE type = "deadline"   -> "deadline_reminder"
      [] type = "assigned"   -> IF about = "task" THEN "task_assigned" ELSE "document_assigned"
      [] type = "changed"    -> "status_changed"
      [] type = "overdue"    -> "overdue"
      [] type = "mention"    -> "mention"
      [] OTHER -> CASE about = "task"     -> "task_assigned"
                    [] about = "document" -> "document_assigned"
                    [] OTHER              -> "system"

NotificationTypes == {"deadline", "assigned", "changed", "overdue", "mention", "system"}

ServerKnows == [user     |-> [role |-> protoRoleToDomain],
                document |-> [status |-> statusFromProto],
                task     |-> [status |-> taskStatusFromProto, priority |-> taskPriorityFromProto],
                calendar |-> [event_type |-> protoEventTypeToDomain],
                notification |-> [category |-> NotificationTypes],
                mail     |-> [category |-> protoCategoryToDomain, status |-> protoStatusToDomain]]

\* And the names each conversion into an answer has a case for.
statusToProto == {"draft", "assigned", "in_progress", "completed", "overdue", "archived"}
taskStatusToProto == {"open", "in_progress", "done", "overdue"}
taskPriorityToProto == {"low", "medium", "high", "critical"}
domainEventTypeToProto == {"deadline", "task", "meeting", "reminder"}
domainToProtoRole == {"employee", "manager", "admin"}
toProtoStatus == {"queued", "processing", "sent", "failed", "bounced", "cancelled"}
toProtoCategory == {"document_assigned", "status_changed", "deadline_reminder", "overdue",
                    "task_assigned", "mention", "system", "verification", "password_reset"}

protoTypeFromCategory(category) ==
    CASE category = "deadline_reminder" -> "deadline"
      [] category \in {"task_assigned", "document_assigned"} -> "assigned"
      [] category = "status_changed"    -> "changed"
      [] category = "overdue"           -> "overdue"
      [] category = "mention"           -> "mention"
      [] OTHER                          -> "system"

ServerShows == [user     |-> [role |-> domainToProtoRole],
                document |-> [status |-> statusToProto],
                task     |-> [status |-> taskStatusToProto, priority |-> taskPriorityToProto],
                calendar |-> [event_type |-> domainEventTypeToProto],
                mail     |-> [category |-> toProtoCategory, status |-> toProtoStatus]]

-----------------------------------------------------------------------------
\* Errors: the gRPC code of each kind of error a service returns.

OK == 0
Unknown == 2
InvalidArgument == 3
NotFound == 5
AlreadyExists == 6
PermissionDenied == 7
FailedPrecondition == 9
Internal == 13
Unauthenticated == 16

documentToGRPCError == [missing |-> NotFound, invalid |-> InvalidArgument, forbidden |-> PermissionDenied,
                        transition |-> FailedPrecondition, failed |-> Internal]
taskToGRPCError == documentToGRPCError
authMapError == [missing |-> NotFound, invalid |-> InvalidArgument, taken |-> AlreadyExists,
                 unauthorized |-> Unauthenticated, forbidden |-> PermissionDenied, failed |-> Internal]
\* Mutation: an unexpected error is taken for an absence.
userMapErrorVague == [missing |-> NotFound, invalid |-> InvalidArgument, taken |-> AlreadyExists,
                      forbidden |-> PermissionDenied, failed |-> NotFound]
userMapError == [missing |-> NotFound, invalid |-> InvalidArgument, taken |-> AlreadyExists,
                 forbidden |-> PermissionDenied, failed |-> Internal]
notificationMapErr == [missing |-> NotFound, invalid |-> InvalidArgument, failed |-> Internal]
\* By the words the message contains.
domainErrToStatus == [missing |-> NotFound, invalid |-> InvalidArgument,
                      forbidden |-> PermissionDenied, failed |-> Internal]
\* The mail server returns the service's errors as they are.
mailErrors == [missing |-> Unknown, invalid |-> Unknown, failed |-> Unknown]

GrpcCodes == [auth |-> authMapError, user |-> userMapError, document |-> documentToGRPCError,
              task |-> taskToGRPCError, calendar |-> domainErrToStatus,
              notification |-> notificationMapErr, mail |-> mailErrors]

=============================================================================
