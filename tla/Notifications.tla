---------------------------- MODULE Notifications ---------------------------
(***************************************************************************)
(* src/src/notifications/: rows created by handlers, the single worker of  *)
(* the NOTIFICATION queue, and users that read. Its jobs are tried once.   *)
(***************************************************************************)
EXTENDS CommunityRecords

NoticeRest == <<scope, social, peak, late>>

\* Beyond the bound of the model nobody is told.
NobodyTold(r) ==
    /\ request[r].pc = "announce" /\ Len(notice) >= scope.notices
    /\ Leave(r)
    /\ UNCHANGED <<mail, NoticeRest>>

\* createMany: for each recipient a row, then its job.
AnnounceCreate(r, u) ==
    /\ request[r].pc = "announce" /\ u \in request[r].to
    /\ Len(notice) < scope.notices
    /\ notice' = Append(notice, [to |-> u, status |-> "PENDING",
                                 sentAt |-> FALSE, readAt |-> FALSE])
    /\ Goto(r, [pc |-> "enqueue", notice |-> Len(notice) + 1, to |-> request[r].to \ {u}])
    /\ UNCHANGED <<noticeQueue, noticeWorker, deliveries, dropped, NoticeRest>>

AnnounceQueue(r) ==
    /\ request[r].pc = "enqueue"
    /\ noticeQueue' = Append(noticeQueue, [notice |-> request[r].notice, redelivered |-> FALSE])
    /\ Announce(r, request[r].to)
    /\ UNCHANGED <<notice, noticeWorker, deliveries, dropped, NoticeRest>>

\* markRead; the row it reads before only supplies the time.
MarkRead(r, u, n) ==
    /\ Arrives(r, "read", u)
    /\ n \in DOMAIN notice /\ notice[n].to = u
    /\ notice' = [notice EXCEPT ![n].readAt = TRUE, ![n].status = "READ"]
    /\ UNCHANGED <<noticeQueue, noticeWorker, deliveries, dropped, request, NoticeRest>>

MarkAllRead(r, u) ==
    /\ Arrives(r, "readAll", u)
    /\ notice' = [n \in DOMAIN notice |->
         IF notice[n].to = u /\ ~ notice[n].readAt
         THEN [notice[n] EXCEPT !.readAt = TRUE, !.status = "READ"]
         ELSE notice[n]]
    /\ UNCHANGED <<noticeQueue, noticeWorker, deliveries, dropped, request, NoticeRest>>

\* The steps of NotificationProcessor.process and dispatch after a job is taken.
Advance(pc) == noticeWorker' = [noticeWorker EXCEPT !.pc = pc]

SettledOnceRead(n) == notice[n].status = "READ"   \* a slip
Settled(n)         == notice[n].status \in {"SENT", "READ"}

TakeNotice ==
    /\ noticeWorker = Idle
    /\ noticeQueue # <<>>
    /\ noticeQueue' = Tail(noticeQueue)
    /\ noticeWorker' = [pc |-> IF Settled(Head(noticeQueue).notice) THEN "done" ELSE "deliver",
                        job |-> Head(noticeQueue), readAt |-> FALSE]
    /\ UNCHANGED <<notice, deliveries, dropped, request, NoticeRest>>

Deliver ==
    /\ noticeWorker.pc = "deliver"
    /\ deliveries' = [deliveries EXCEPT ![noticeWorker.job.notice] = @ + 1]
    /\ Advance("markRead")
    /\ UNCHANGED <<notice, noticeQueue, dropped, request, NoticeRest>>

\* markSent reads readAt first, and writes the status it implies later.
MarkSentRead ==
    /\ noticeWorker.pc = "markRead"
    /\ noticeWorker' = [noticeWorker EXCEPT !.pc = "markWrite",
                        !.readAt = notice[noticeWorker.job.notice].readAt]
    /\ UNCHANGED <<notice, noticeQueue, deliveries, dropped, request, NoticeRest>>

MarkSent ==
    LET n == noticeWorker.job.notice
    IN  /\ noticeWorker.pc = "markWrite"
        /\ notice' = [notice EXCEPT ![n].sentAt = TRUE,
                         ![n].status = IF noticeWorker.readAt THEN "READ" ELSE "SENT"]
        /\ Advance("done")
        /\ UNCHANGED <<noticeQueue, deliveries, dropped, request, NoticeRest>>

JobDone ==
    /\ noticeWorker.pc = "done"
    /\ noticeWorker' = Idle
    /\ UNCHANGED <<notice, noticeQueue, deliveries, dropped, request, NoticeRest>>

DropSilently == noticeWorker' = Idle /\ UNCHANGED <<noticeQueue, dropped>>   \* a slip

Drop ==
    /\ noticeWorker' = Idle
    /\ dropped' = dropped \cup {noticeWorker.job.notice}
    /\ UNCHANGED noticeQueue

\* A query or the delivery fails, and with it the job.
NoticeFails ==
    /\ noticeWorker.pc \in {"deliver", "markRead", "markWrite"}
    /\ Drop
    /\ UNCHANGED <<notice, deliveries, request, NoticeRest>>

HandOutAgain(redelivered) ==
    /\ noticeWorker' = Idle
    /\ noticeQueue' = Append(noticeQueue,
                             [noticeWorker.job EXCEPT !.redelivered = redelivered])
    /\ UNCHANGED dropped

RedeliverForever == HandOutAgain(FALSE)   \* a slip
Redeliver        == IF noticeWorker.job.redelivered THEN Drop ELSE HandOutAgain(TRUE)

\* The process restarts: BullMQ hands the job out again, once.
NoticeCrash ==
    /\ noticeWorker # Idle
    /\ Redeliver
    /\ UNCHANGED <<notice, deliveries, request, NoticeRest>>

NoticeStep ==
    \/ TakeNotice \/ Deliver \/ MarkSentRead \/ MarkSent \/ JobDone
    \/ NoticeFails \/ NoticeCrash
=============================================================================
