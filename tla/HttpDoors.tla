------------------------------- MODULE HttpDoors -------------------------------
(***************************************************************************)
(* The services' own HTTP handlers (internal/transport/http/handler.go),   *)
(* which stand beside the gRPC servers and lead to the same services: what *)
(* each takes of its path and body, what binding requires, what becomes of *)
(* an unknown name, and the status it answers an error with.  No           *)
(* middleware stands before them: the actor is whoever the body names.     *)
(***************************************************************************)
EXTENDS GrpcDoors

\* A handler with these fields in its path, which binding requires needs of and lets
\* may be; parses are those it turns into numbers or dates itself, dropping the error;
\* code answers every error, or codes by its kind where code is 0.
Binds(path, needs, may) == [path |-> path, reads |-> path \cup needs \cup may, needs |-> needs,
                            names |-> NoRule, parses |-> {}, clears |-> {}, code |-> 0, done |-> 200]
Coded(code, row) == [row EXCEPT !.code = code]
Made(row) == [row EXCEPT !.done = 201]
NoContent(row) == [row EXCEPT !.done = 204]

Id == {"id"}

-----------------------------------------------------------------------------

AuthRegistration ==
    [Register     |-> Coded(500, Made(Turning({"role"}, "raw",
                          Binds({}, {"email", "password", "name"}, {"role"})))),
     Login        |-> Coded(401, Binds({}, {"email", "password"}, {})),
     RefreshToken |-> Coded(401, Binds({}, {"refresh_token"}, {})),
     ValidateToken |-> Coded(401, Binds({}, {"access_token"}, {})),
     Logout       |-> Coded(500, Binds({}, {"actor", "refresh_token"}, {}))]

AuthCredentials ==
    [VerifyEmail    |-> Coded(400, Binds({}, {"token"}, {})),
     ForgotPassword |-> Coded(500, Binds({}, {"email"}, {})),
     ResetPassword  |-> Coded(400, Binds({}, {"token", "new_password"}, {})),
     ChangePassword |-> Coded(400, Binds({}, {"actor", "old_password", "new_password"}, {})),
     GetSession     |-> Coded(404, Binds({}, Mine, {})),
     RevokeAllSessions |-> Coded(500, Binds({}, Mine, {}))]

UserProfiles ==
    [CreateUser     |-> Made(Turning({"role"}, "employee",
                            Binds({}, {}, {"email", "name", "role"}))),
     GetUser        |-> Binds(Id, {}, {}),
     GetUserByEmail |-> Binds({}, {"email"}, {}),
     UpdateUser     |-> Turning({"role"}, "unset", Binds(Id, {}, {"name", "role"})),
     DeleteUser     |-> NoContent(Binds(Id, {}, {})),
     ListUsers      |-> Parsing(Paged, Turning({"role"}, "raw", Binds({}, {}, {"page", "role"})))]

UserChecks ==
    [GetUsersBatch   |-> Binds({}, {"ids"}, {}),
     CheckUserExists |-> Binds({}, {"email"}, {}),
     VerifyUserEmail |-> Binds(Id, {}, {}),
     BanUser         |-> Binds(Id, {}, {"actor", "reason"}),
     GetUserStats    |-> Binds({}, {}, {})]

DocumentRecords ==
    [CreateDocument |-> Coded(500, Made(Turning({"doc_type"}, "raw",
                            Binds({}, {"title", "doc_type", "actor", "file_url"},
                                  {"description", "responsible", "deadline", "tags"})))),
     ListDocuments  |-> Parsing(Paged, Coded(500, Binds({}, {}, {"page", "creator", "responsible"}))),
     GetDocument    |-> Coded(404, Binds(Id, {}, {})),
     UpdateDocument |-> Coded(500, Turning({"doc_type"}, "raw", Binds(Id, Mine,
                            {"title", "description", "doc_type", "deadline", "file_url", "tags"}))),
     DeleteDocument |-> Coded(500, Binds(Id, Mine, {}))]

DocumentWorkflow ==
    [AssignResponsible |-> Coded(500, Binds(Id, {"responsible", "actor"}, {})),
     ChangeStatus    |-> Coded(400, Turning({"status"}, "raw",
                             Binds(Id, {"status", "actor"}, {"comment"}))),
     ArchiveDocument |-> Coded(500, Binds(Id, Mine, {})),
     GetDocumentHistory |-> Parsing(Paged, Coded(500, Binds(Id, {}, Paged))),
     FilterDocuments |-> Coded(500, Turning({"status", "doc_type"}, "raw",
                             Binds({}, {}, {"status", "doc_type", "responsible", "creator",
                                            "from_date", "to_date", "page"})))]

DocumentReports ==
    [MarkOverdue      |-> Coded(500, Binds({}, {}, {})),
     ExportDocuments  |-> Coded(500, Turning({"status", "doc_type"}, "raw",
                              Binds({}, {}, {"status", "doc_type", "responsible", "creator"}))),
     GetDocumentStats |-> Coded(500, Binds({}, {}, {}))]

TaskRecords ==
    [CreateTask |-> Coded(500, Made(Turning({"priority"}, "raw",
                        Binds({}, {"title", "document", "actor"}, {"description", "priority", "deadline"})))),
     GetTask    |-> Coded(404, Binds(Id, {}, {})),
     UpdateTask |-> Coded(500, Turning({"priority"}, "raw",
                        Binds(Id, Mine, {"title", "description", "priority", "deadline"}))),
     DeleteTask |-> Coded(500, Binds(Id, Mine, {}))]

TaskWorkflow ==
    [ListTasksByDocument |-> Parsing(Paged, Coded(500, Binds({"document"}, {}, Paged))),
     ListTasksByAssignee |-> Parsing(Paged, Coded(500, Binds({"assignee"}, {}, Paged))),
     AssignTask       |-> Coded(500, Binds(Id, {"assignee", "actor"}, {})),
     ChangeTaskStatus |-> Coded(400, Turning({"status"}, "raw", Binds(Id, {"status", "actor"}, {}))),
     GetTaskHistory   |-> Coded(500, Binds(Id, {}, {}))]

TaskReports ==
    [FilterTasks      |-> Coded(500, Turning({"status", "priority"}, "raw",
                              Binds({}, {}, {"status", "priority", "assignee", "document",
                                             "from_date", "to_date", "page"}))),
     MarkTasksOverdue |-> Coded(500, Binds({}, {}, {})),
     GetTaskStats     |-> Coded(500, Binds({}, {}, {}))]

\* An update takes an empty string or a zero time for an absence.
CalendarRecords ==
    [CreateEvent |-> Coded(500, Made(Turning({"event_type"}, "raw",
                         Binds({}, {"title", "actor", "start"},
                               {"description", "event_type", "ref_id", "ref_type", "end"})))),
     UpdateEvent |-> Coded(500, Binds(Id, Mine, {"title", "description", "start", "end"})),
     DeleteEvent |-> Coded(500, Binds(Id, Mine, {}))]

CalendarPages ==
    [GetEventsByDay   |-> Parsing(Numbers, Coded(500, Binds({}, {"user"}, {"year", "month", "day"}))),
     GetEventsByWeek  |-> Parsing(Numbers, Coded(500, Binds({}, {"user"}, {"year", "week"}))),
     GetEventsByMonth |-> Parsing(Numbers, Coded(500, Binds({}, {"user"}, {"year", "month"}))),
     GetEventsByUser  |-> Parsing(Numbers, Coded(500, Binds({"user"}, {}, Paged))),
     GetUpcomingDeadlines |-> Parsing(Numbers, Coded(500, Binds({"user"}, {}, {"days"})))]

CalendarReports ==
    [FilterEvents  |-> Coded(500, Binds({}, {"user"}, {"ref_type", "page"})),
     GetEventStats |-> Coded(500, Binds({"user"}, {}, {}))]

NotificationSending ==
    [SendEmail     |-> Binds({}, {}, {"to", "subject", "body", "template", "vars", "actor"}),
     SendBulkEmail |-> Binds({}, {}, {"to", "subject", "body", "template", "vars"}),
     CreateNotification |-> Made(Turning({"category"}, "system",
                                Binds({}, {}, {"actor", "title", "body", "category",
                                               "ref_id", "ref_type"})))]

NotificationReading ==
    [GetNotificationHistory |-> Parsing(Paged, Binds({}, Mine, Paged)),
     GetUnreadCount       |-> Binds({}, Mine, {}),
     MarkNotificationRead |-> Binds(Id, Mine, {}),
     MarkAllRead          |-> Binds({}, Mine, {}),
     DeleteNotification   |-> Binds(Id, Mine, {})]

NotificationSettings ==
    [GetPreferences    |-> Binds(Mine, {}, {}),
     UpdatePreferences |-> Clearing(Booleans, Binds(Mine, {}, Booleans)),
     GetTemplate       |-> Binds(Id, {}, {})]

MailSending ==
    [SendEmail     |-> Turning({"category"}, "raw", Binds({}, {}, Mail \cup Mine)),
     SendBulkEmail |-> Turning({"category"}, "raw", Binds({}, {}, Mail)),
     ListMailJobs  |-> Parsing(Paged, Coded(500, Turning({"category", "status"}, "raw",
                           Binds({}, {}, {"page", "status", "category"})))),
     GetMailJob    |-> Binds(Id, {}, {})]

\* The name of a template has no place in the request.
MailTemplatePages ==
    [ListTemplates  |-> Coded(500, Binds({}, {}, {})),
     GetTemplate    |-> Binds(Id, {}, {}),
     UpdateTemplate |-> Clearing({"subject", "body", "channel", "is_active"},
                            Binds(Id, {}, {"subject", "body", "channel", "is_active"})),
     GetStats       |-> Parsing({"from_date", "to_date"}, Coded(500, Binds({}, {}, {"from_date", "to_date"})))]

Pages ==
    [auth         |-> Together(AuthRegistration, AuthCredentials),
     user         |-> Together(UserProfiles, UserChecks),
     document     |-> Together(DocumentRecords, Together(DocumentWorkflow, DocumentReports)),
     task         |-> Together(TaskRecords, Together(TaskWorkflow, TaskReports)),
     calendar     |-> Together(CalendarRecords, Together(CalendarPages, CalendarReports)),
     notification |-> Together(NotificationSending, Together(NotificationReading, NotificationSettings)),
     mail         |-> Together(MailSending, MailTemplatePages)]

-----------------------------------------------------------------------------
\* The status of an error where a handler tells the kinds apart.  They compare with
\* ==, so a wrapped error is answered like a failure.

handleServiceError == [missing |-> 404, taken |-> 409, invalid |-> 400, forbidden |-> 403, failed |-> 500]
handleError == [invalid |-> 400, missing |-> 404, failed |-> 500]
handleErr == [missing |-> 404, invalid |-> 400, failed |-> 500]

PageCodes == [user |-> handleServiceError, notification |-> handleError, mail |-> handleErr]

=============================================================================
