-------------------------- MODULE CommissionMailer --------------------------
(***************************************************************************)
(* The weekly job of the report worker (cron_email_reports.py,             *)
(* service/mailer.py) beside the P&L service: it mails the commissions     *)
(* that are payable and not sent, and marks them as sent.  A run is one    *)
(* process; cron starts it on Mondays, and an operator may start another.  *)
(* The table commission_monthly is shared with the P&L service, which      *)
(* writes it, and with mark_commission_paid() of the trading bot.          *)
(***************************************************************************)
EXTENDS PnLService

CONSTANTS Runs,        \* the processes that may run the job at the same time
          MaxRetries,  \* max_retries: the attempts to send one mail
          MaxMails     \* bounds the mails of a follower before a run starts

ASSUME MailerAssumption ==
    /\ IsFiniteSet(Runs) /\ Runs # {}
    /\ MaxRetries \in Nat \ {0} /\ MaxMails \in Nat

VARIABLES
    infoLogged,  \* INFO is enabled, as cron_email_reports.py has it
    overlap,     \* two runs may be in progress at the same time
    run,         \* what each run is at
    pdf,         \* the followers whose file is in /tmp/commission_reports
    mails        \* the mails that SendGrid took, by follower

mailVars == <<infoLogged, overlap, run, pdf, mails>>
vars == <<pnlVars, mailVars>>
otherPnlVars == <<mode, timeVars, processVars, loopVars, tableVars>>

(* A run: where it is, the followers whose entries it has yet to mail, the *)
(* one in hand and the attempts made.                                      *)
RunIdle == [at |-> "idle", queue |-> {}, f |-> None, attempt |-> 0]

Init ==
    /\ PnlInit
    /\ infoLogged \in BOOLEAN /\ overlap \in BOOLEAN
    /\ mode # "steady" => ~infoLogged /\ ~overlap
    /\ run = [r \in Runs |-> RunIdle]
    /\ pdf = {}
    /\ mails = [f \in Followers |-> 0]

\* Mutant: what was sent is pending still.
PendingForEver == {f \in Followers : commissions[f] # <<>> /\ commissions[f][1].payable}

\* send_pending_reports() looks for sent == False and is_payable == True.
Pending == {f \in Followers :
              commissions[f] # <<>> /\ commissions[f][1].payable /\ ~commissions[f][1].sent}

\* send_weekly_commission_reports().  A run that finds nothing ends at once.
StartRun(r) ==
    /\ run[r].at = "idle" /\ Pending # {}
    /\ \A f \in Pending : mails[f] < MaxMails
    /\ overlap \/ \A q \in Runs : run[q].at = "idle"
    /\ run' = [run EXCEPT ![r] = [RunIdle EXCEPT !.at = "next", !.queue = Pending]]
    /\ UNCHANGED <<pnlVars, infoLogged, overlap, pdf, mails>>

EndRun(r) ==
    /\ run[r].at = "next" /\ run[r].queue = {}
    /\ run' = [run EXCEPT ![r] = RunIdle]
    /\ UNCHANGED <<pnlVars, infoLogged, overlap, pdf, mails>>

\* The next record fails, or is done: _send_commission_email() ends.
Done(r) == [run[r] EXCEPT !.at = "next", !.f = None, !.attempt = 0]

\* _generate_pdf_report(), get_signed_url() and the message.  Both calls log
\* with keywords, which raises when INFO is enabled.
Prepare(r) ==
    /\ run[r].at = "next"
    /\ \E f \in run[r].queue :
        LET taken == [run[r] EXCEPT !.queue = @ \ {f}]
        IN  /\ pdf' = pdf \union {f}
            /\ \/ /\ ~infoLogged /\ NoneFails
                  /\ run' = [run EXCEPT ![r] = [taken EXCEPT !.at = "open", !.f = f]]
               \/ /\ (infoLogged /\ NoneFails) \/ Fails
                  /\ run' = [run EXCEPT ![r] = taken]
    /\ UNCHANGED <<otherPnlVars, infoLogged, overlap, mails>>

\* open(pdf_path): another run may have removed the file.
Attach(r) ==
    /\ run[r].at = "open"
    /\ run' = [run EXCEPT ![r] = IF run[r].f \in pdf
                                 THEN [run[r] EXCEPT !.at = "send", !.attempt = 1]
                                 ELSE Done(r)]
    /\ UNCHANGED <<pnlVars, infoLogged, overlap, pdf, mails>>

\* An attempt raises: the next one follows after a while, or the record fails.
AttemptFails(r) ==
    IF run[r].attempt < MaxRetries
    THEN [run[r] EXCEPT !.at = "send", !.attempt = @ + 1]
    ELSE Done(r)

\* Mutant: the status code is not looked at.
SendUnchecked(r) ==
    /\ run[r].at = "send"
    /\ \/ mails' = [mails EXCEPT ![run[r].f] = @ + 1] /\ NoneFails
       \/ Fails /\ UNCHANGED mails
    /\ run' = [run EXCEPT ![r].at = "commit"]
    /\ UNCHANGED <<otherPnlVars, infoLogged, overlap, pdf>>

\* sg.send(): SendGrid takes the mail and says so, takes it and the answer is
\* lost, or does not take it.
Send(r) ==
    /\ run[r].at = "send"
    /\ \/ /\ mails' = [mails EXCEPT ![run[r].f] = @ + 1]
          /\ \/ NoneFails /\ run' = [run EXCEPT ![r].at = "commit"]
             \/ Fails /\ run' = [run EXCEPT ![r] = AttemptFails(r)]
       \/ /\ Fails
          /\ run' = [run EXCEPT ![r] = AttemptFails(r)]
          /\ UNCHANGED mails
    /\ UNCHANGED <<otherPnlVars, infoLogged, overlap, pdf>>

MarkSent(f) == commissions' = [commissions EXCEPT ![f][1].sent = TRUE]

\* record.sent = True, db.commit(): done, or raised with or without effect.
Commit(r) ==
    /\ run[r].at = "commit"
    /\ \/ /\ MarkSent(run[r].f) /\ NoneFails
          /\ run' = [run EXCEPT ![r].at = "remove"]
       \/ /\ Fails
          /\ MarkSent(run[r].f) \/ UNCHANGED commissions
          /\ run' = [run EXCEPT ![r] = AttemptFails(r)]
    /\ UNCHANGED <<mode, timeVars, processVars, loopVars, snapshots, dailyRows,
                   monthlyRows, infoLogged, overlap, pdf, mails>>

\* os.remove(pdf_path), inside the try block of the attempt: when the file is
\* not there any more, the mail is sent again.
RemovePdf(r) ==
    /\ run[r].at = "remove"
    /\ pdf' = pdf \ {run[r].f}
    /\ run' = [run EXCEPT ![r] = IF run[r].f \in pdf THEN Done(r) ELSE AttemptFails(r)]
    /\ UNCHANGED <<pnlVars, infoLogged, overlap, mails>>

\* mark_commission_paid() of the trading bot.
MarkCommissionPaid(f) ==
    /\ commissions[f] # <<>> /\ ~commissions[f][1].paid
    /\ commissions' = [commissions EXCEPT ![f][1].paid = TRUE]
    /\ UNCHANGED <<mode, failures, timeVars, processVars, loopVars, snapshots,
                   dailyRows, monthlyRows, mailVars>>

MailerStep(r) == EndRun(r) \/ Prepare(r) \/ Attach(r) \/ Send(r) \/ Commit(r) \/ RemovePdf(r)

Next ==
    \/ PnlNext /\ UNCHANGED mailVars
    \/ \E r \in Runs : StartRun(r) \/ MailerStep(r)
    \/ \E f \in Followers : MarkCommissionPaid(f)

Spec == Init /\ [][Next]_vars
=============================================================================
