----------------------------- MODULE ForwardSync -----------------------------
(***************************************************************************)
(* The audit trail on its way to the SIEM (internal/api/forward.go): one   *)
(* scheduler per pod and one administrator's PutConfig, over one Secret    *)
(* that holds the configuration and the cursor.  The trail is a table all  *)
(* pods share, or, without a database, a ring in each pod's memory.  Only  *)
(* the audit signal is modelled: the others are sent whole each time.      *)
(***************************************************************************)
EXTENDS Naturals, Sequences, FiniteSets

CONSTANTS Pods,        \* pods that run a scheduler
          Editor,      \* PutConfig, the other writer of the Secret
          Targets,     \* where events can be sent
          Syslog,      \* those of them that are told by datagrams
          Choices,     \* the targets an administrator may choose together
          Page,        \* entries one List returns, the newest ones
          MaxLogged,   \* audit entries, bounds the model
          MaxEdits     \* requests to change the configuration, bounds the model

ASSUME ForwardAssumption ==
  /\ Editor \notin Pods /\ Syslog \subseteq Targets /\ Choices \subseteq SUBSET Targets
  /\ Page \in Nat \ {0} /\ MaxLogged \in Nat /\ MaxEdits \in Nat

VARIABLES store,    \* where the entries are: in the database, or in rings
          stamps,   \* the times of the audit entries, in the order they were logged
          trail,    \* the entries each pod can list
          saved,    \* of rings: the entries in the ConfigMap
          lost,     \* entries that some pod could not list, now or once
          conf,     \* the Secret: who is told, and the time of the last entry told
          task,     \* what each scheduler, and PutConfig, is doing
          served,   \* entries that every target of a run but syslog was given
          edits,    \* requests to change the configuration so far
          rests     \* nobody edits, logs or fails any more

auditVars == <<store, stamps, trail, saved, lost>>
forwardVars == <<auditVars, conf, task, served, edits, rests>>

Writers == Pods \cup {Editor}
Logged == 1 .. Len(stamps)
Stamp == 0 .. MaxLogged              \* 0: no cursor

\* The configuration; to is empty when forwarding is disabled, as in the default
\* that one that is absent reads as.
Config == [there : BOOLEAN, audit : BOOLEAN, to : SUBSET Targets, cursor : Stamp]
DefaultConfig == [there |-> FALSE, audit |-> FALSE, to |-> {}, cursor |-> 0]
StoredConfig == [there |-> TRUE, audit |-> TRUE, to |-> Targets, cursor |-> 0]

\* Of a writer: how far it is, the configuration it has read or will save, the
\* entries to send, the newest of their times, and what it knows of the Secret:
\* that it must be created, or a resourceVersion that is current or not.
Task == [at : {"idle", "load", "collect", "send", "record", "get", "write"},
         cfg : Config, batch : SUBSET (1 .. MaxLogged), newest : Stamp,
         holds : {"none", "current", "old"}]
Fresh == [at |-> "load", cfg |-> DefaultConfig, batch |-> {}, newest |-> 0,
          holds |-> "none"]

ForwardTypeOK ==
  /\ store \in {"database", "rings"}
  /\ stamps \in Seq(Stamp \ {0}) /\ Len(stamps) <= MaxLogged
  /\ trail \in [Pods -> SUBSET Logged] /\ saved \subseteq Logged /\ lost \subseteq Logged
  /\ conf \in Config
  /\ task \in [Writers -> Task]
  /\ served \subseteq Logged /\ edits \in 0 .. MaxEdits
  /\ rests \in BOOLEAN

Becomes(w, t) == task' = [task EXCEPT ![w] = t]
Waiting(t) == [Fresh EXCEPT !.at = "idle"]

-----------------------------------------------------------------------------
\* The pods that can list an entry once it is recorded.
Readers == IF store = "database" THEN {Pods} ELSE {{p} : p \in Pods}

\* The time an entry gets after one of the time last: of a ring its own, to the
\* nanosecond; from Postgres cut to the second, and so the same for several.
Times(last) ==
  IF store = "database" THEN {last, last + 1} \ {0} ELSE {last + 1}

\* AuditRecorder: an entry is recorded in the table, or in this pod's ring.
Log ==
  /\ ~rests /\ Len(stamps) < MaxLogged
  /\ LET n == Len(stamps) + 1
         last == IF stamps = <<>> THEN 0 ELSE stamps[Len(stamps)] IN
       /\ \E t \in Times(last) : stamps' = Append(stamps, t)
       /\ \E readers \in Readers :
            /\ trail' = [p \in Pods |-> IF p \in readers THEN trail[p] \cup {n} ELSE trail[p]]
            /\ lost' = IF readers = Pods THEN lost ELSE lost \cup {n}
  /\ UNCHANGED <<store, saved, conf, task, served, edits, rests>>

\* ConfigMapStore.Flush, while a restart may still come; AuditStore has its steps.
Flush(p) ==
  /\ ~rests /\ store = "rings" /\ saved # trail[p] /\ saved' = trail[p]
  /\ UNCHANGED <<store, stamps, trail, lost, conf, task, served, edits, rests>>

\* loadConfig, unless the call fails.
Loaded(c) == IF ~rests THEN c \in {conf, DefaultConfig} ELSE c = conf

\* A cycle of RunScheduler begins with the configuration; without one that is
\* enabled it waits.
RunLoads(p) ==
  /\ task[p].at = "load"
  /\ \E c \in {conf, DefaultConfig} :
       /\ Loaded(c)
       /\ Becomes(p, IF c.to # {}
                     THEN [Fresh EXCEPT !.at = "collect", !.cfg = c]
                     ELSE Waiting(task[p]))
  /\ UNCHANGED <<auditVars, conf, served, edits, rests>>

\* A fault: the oldest Page of the trail is listed.
AfterOldest(p, cursor) ==
  {e \in trail[p] : Cardinality({f \in trail[p] : f < e}) < Page /\ stamps[e] > cursor}

\* collectAudit: the entries after the cursor, of the newest Page this pod lists.
After(p, cursor) ==
  {e \in trail[p] : Cardinality({f \in trail[p] : f > e}) < Page /\ stamps[e] > cursor}

Newest(batch) ==
  IF batch = {} THEN 0
  ELSE CHOOSE t \in {stamps[e] : e \in batch} : \A e \in batch : stamps[e] <= t

\* A query that fails lists nothing.
Batches(p) ==
  LET all == IF task[p].cfg.audit THEN After(p, task[p].cfg.cursor) ELSE {} IN
    IF store = "database" /\ ~rests THEN {all, {}} ELSE {all}

RunCollects(p) ==
  /\ task[p].at = "collect"
  /\ \E batch \in Batches(p) :
       Becomes(p, [task[p] EXCEPT !.at = "send", !.batch = batch, !.newest = Newest(batch)])
  /\ UNCHANGED <<auditVars, conf, served, edits, rests>>

\* A fault: the cursor advances although a target failed.
KeptAlways(t, failed) == t.newest

\* dispatch: each target answers or fails on its own; one that fails may have
\* taken the batch.  Any error keeps the cursor where it is.  sendSyslog reports
\* no datagram it could not write: it need not have sent what it counts as sent.
Kept(t, failed) == IF failed = {} THEN t.newest ELSE 0

RunSends(p) ==
  /\ task[p].at = "send"
  /\ \E failed \in SUBSET task[p].cfg.to, took \in SUBSET task[p].cfg.to :
       /\ task[p].cfg.to \ (failed \cup Syslog) \subseteq took
       /\ rests => failed = {}
       /\ Becomes(p, [Fresh EXCEPT !.at = "record", !.newest = Kept(task[p], failed)])
       /\ served' = IF task[p].cfg.to \subseteq took \cup Syslog
                    THEN served \cup task[p].batch ELSE served
  /\ UNCHANGED <<auditVars, conf, edits, rests>>

\* recordRun: the configuration is read again, and saved with the new cursor.
Recorded(c, newest) == IF newest # 0 THEN [c EXCEPT !.cursor = newest] ELSE c

RunRecords(p) ==
  /\ task[p].at = "record"
  /\ \/ /\ conf.there
        /\ Becomes(p, [Fresh EXCEPT !.at = "get", !.cfg = Recorded(conf, task[p].newest)])
     \/ (~rests \/ ~conf.there) /\ Becomes(p, Waiting(task[p]))
  /\ UNCHANGED <<auditVars, conf, served, edits, rests>>

\* The timer of the interval, or of a minute.
RunAgain(p) ==
  /\ task[p].at = "idle" /\ Becomes(p, Fresh)
  /\ UNCHANGED <<auditVars, conf, served, edits, rests>>

\* The pod dies and another starts, with what it finds in the ConfigMap, or
\* nothing if it cannot be read; a table stays.
Found(p) == IF store = "database" THEN {trail[p]} ELSE {saved, {}}

Restart(p) ==
  /\ ~rests /\ Becomes(p, Fresh)
  /\ \E found \in Found(p) :
       /\ trail' = [trail EXCEPT ![p] = found]
       /\ lost' = lost \cup (trail[p] \ found)
  /\ UNCHANGED <<store, stamps, saved, conf, served, edits, rests>>

-----------------------------------------------------------------------------
\* PutConfig: what the administrator wants, with the cursor that was stored, or
\* none if it could not be read.
PutConfig ==
  /\ ~rests /\ task[Editor].at = "idle" /\ edits < MaxEdits /\ edits' = edits + 1
  /\ \E audit \in BOOLEAN, to \in Choices, c \in {conf, DefaultConfig} :
       Becomes(Editor, [Fresh EXCEPT !.at = "get",
                          !.cfg = [there |-> TRUE, audit |-> audit,
                                   to |-> to, cursor |-> c.cursor]])
  /\ UNCHANGED <<auditVars, conf, served, rests>>

\* saveConfig: a Get of the Secret, any error of which reads as absent, then a
\* Create or an Update of the version that was got.
SaveGets(w) ==
  /\ task[w].at = "get"
  /\ \E h \in {"none", "current"} :
       /\ h = "current" => conf.there
       /\ rests /\ conf.there => h = "current"
       /\ Becomes(w, [task[w] EXCEPT !.at = "write", !.holds = h])
  /\ UNCHANGED <<auditVars, conf, served, edits, rests>>

Accepted(t) == IF t.holds = "none" THEN ~conf.there ELSE t.holds = "current"

SaveWrites(w) ==
  /\ task[w].at = "write"
  /\ \/ /\ Accepted(task[w])
        /\ conf' = task[w].cfg
        /\ task' = [v \in Writers |->
                      IF v = w THEN Waiting(task[v])
                      ELSE [task[v] EXCEPT !.holds = IF @ = "none" THEN @ ELSE "old"]]
     \/ /\ ~rests \/ ~Accepted(task[w])
        /\ Becomes(w, Waiting(task[w])) /\ UNCHANGED conf
  /\ UNCHANGED <<auditVars, served, edits, rests>>

\* Edits, new entries, failures and restarts come to an end.
ForwardRests ==
  /\ ~rests /\ task[Editor].at = "idle" /\ rests' = TRUE
  /\ UNCHANGED <<auditVars, conf, task, served, edits>>

-----------------------------------------------------------------------------
\* Forwarding has never been set up, or has been, to every target.
ForwardInit ==
  /\ store \in {"database", "rings"}
  /\ stamps = <<>> /\ trail = [p \in Pods |-> {}] /\ saved = {} /\ lost = {}
  /\ conf \in {DefaultConfig, StoredConfig} /\ served = {} /\ edits = 0 /\ rests = FALSE
  /\ task = [w \in Writers |-> IF w = Editor THEN Waiting(Fresh) ELSE Fresh]

Run(p) ==
  \/ RunLoads(p) \/ RunCollects(p) \/ RunSends(p) \/ RunRecords(p)
  \/ SaveGets(p) \/ SaveWrites(p) \/ RunAgain(p)

ForwardNext ==
  \/ \E p \in Pods : Run(p) \/ Flush(p) \/ Restart(p)
  \/ PutConfig \/ SaveGets(Editor) \/ SaveWrites(Editor)
  \/ Log \/ ForwardRests

ForwardSpec == ForwardInit /\ [][ForwardNext]_forwardVars

-----------------------------------------------------------------------------
\* Entries one cannot expect: of the same second as another; pushed off the
\* page by newer ones; and gone with the ring of a pod, or never in it while
\* another pod's ring has them.
Excused(e) ==
  \/ \E f \in Logged \ {e} : stamps[f] = stamps[e]
  \/ Len(stamps) - e >= Page
  \/ e \in lost

\* The cursor passes nothing that was not sent: an entry it has passed was
\* given to every target of a run but syslog, whatever failed, restarted or was
\* edited meanwhile.
NoneSkipped ==
  \A e \in Logged : stamps[e] <= conf.cursor => e \in served \/ Excused(e)

Forwarding == conf.audit /\ conf.to # {}

\* Once everything works and forwarding is on, every entry is sent: errors,
\* restarts and lost saves delay the schedulers and never stop them.
AuditReaches ==
  rests /\ [](rests => Forwarding) ~> \A e \in Logged : e \in served \/ Excused(e)
=============================================================================
