------------------------------- MODULE Notices -------------------------------
(***************************************************************************)
(* Telling parents of a mark, each mark in a task that nobody waits for    *)
(* (src/modules/attendance).  A task chooses an advertisement if the       *)
(* student's package asks for one, then sends on every channel of the      *)
(* package that the advertisement supports, each with its retries.         *)
(***************************************************************************)
EXTENDS Advertising, SequencesExt

CONSTANTS Kin,         \* each student's parents, the first of them primary
          Emergency,   \* a student's emergency contact, or NoRow
          Contacts,    \* the channels on which somebody can be reached
          PackageOf,   \* the package of students and parents
          Available    \* the channels the environment configures

VARIABLES notices,     \* the tasks: a function of <<request, student>>
          told         \* messages that arrived

noticeVars == <<notices, told>>

\* NOTIFICATION_PACKAGES_CONFIG, four of its packages.
Package == [FREE      |-> [channels |-> {"email", "sms", "telegram"}, ads |-> TRUE, retries |-> 1],
            BASIC     |-> [channels |-> {"telegram"}, ads |-> TRUE, retries |-> 1],
            EMAIL     |-> [channels |-> {"email"}, ads |-> TRUE, retries |-> 2],
            PRO_EMAIL |-> [channels |-> {"email", "telegram"}, ads |-> FALSE, retries |-> 3]]

PackageFor(u) == Package[PackageOf[u]]

NoticesInit == notices = [t \in {} |-> NoRow] /\ told = {}

NoticesOver == DOMAIN notices = {}

\* Whom a task tells: an institute card leaves the emergency contact out.  (The
\* telephone of that contact beside a parent who has none is left out.)
Primary(r, u) == IF Kin[u] # <<>> THEN Kin[u][1]
                 ELSE IF r.way = "card" THEN NoRow ELSE Emergency[u]

\* An institute card asks only whether there is somebody to tell; the other ways
\* also whether a channel is configured, with the names they are sent by (or
\* EMAIL_API_URL alone, by which nothing is sent, and which is left out).
Worthwhile(r, u) ==
  /\ Primary(r, u) # NoRow
  /\ r.way # "card" => Available \cap {"whatsapp", "telegram", "email"} # {}

\* The tasks that a request starts for students.
Scheduled(r, students) ==
  [t \in {<<r, u>> : u \in {v \in students : Worthwhile(r, v)}}
     |-> [stage |-> "begin", ad |-> NoRow, found |-> NoRow, count |-> NoRow, left |-> {}]] ++ notices

\* The sendings that one message to somebody takes: on the channels of the
\* package that the advertisement supports, if it has any.
Sendings_Mutant(who, package, supported) ==
  {[to |-> who, channel |-> c, retries |-> package.retries]
     : c \in {d \in package.channels \cap Available : ~package.ads \/ d \in supported}}
Sendings(who, package, supported) ==
  {[to |-> who, channel |-> c, retries |-> package.retries]
     : c \in {d \in package.channels \cap Available
              : supported = {} \/ ~package.ads \/ d \in supported}}

Platforms(ad) == IF ad = NoRow THEN {} ELSE ad.platforms

Set(t, notice) == notices' = [notices EXCEPT ![t] = notice]

\* The message goes out with this advertisement, or with a default one; the
\* student's package decides on the channels.
Send(t, ad, name) ==
  Set(t, [stage |-> "send", ad |-> ad, found |-> NoRow, count |-> name,
          left |-> Sendings(Primary(t[1], t[2]), PackageFor(t[2]), Platforms(ad))])

BeginNotice(t) ==
  /\ notices[t].stage = "begin"
  /\ IF PackageFor(t[2]).ads /\ world.fromDb
     THEN Set(t, [notices[t] EXCEPT !.stage = "choose"])
     ELSE Send(t, NoRow, NoRow)
  /\ UNCHANGED <<told, requestVars, adVars>>

\* The best of a list, or a default.
Choose(t, list) ==
  \/ \E a \in Best(list) : Send(t, list[a], a)
  \/ Best(list) = {} /\ Send(t, NoRow, NoRow)

\* Where the list cannot be read, asked for or kept, the database is asked
\* (again), and where that fails the message goes out with a default.
ChooseAnyway(t) == world.faulty /\ (Choose(t, FromDatabase) \/ Send(t, NoRow, NoRow))

ChooseListed(t) ==
  /\ notices[t].stage = "choose"
  /\ \/ IF world.caching /\ listed # NoRow THEN Choose(t, listed)
        ELSE Set(t, [notices[t] EXCEPT !.stage = "query"])
     \/ ChooseAnyway(t)
  /\ UNCHANGED <<told, requestVars, adVars>>

QueryAds(t) ==
  /\ notices[t].stage = "query"
  /\ \/ IF world.caching THEN Set(t, [notices[t] EXCEPT !.stage = "keep", !.found = FromDatabase])
        ELSE Choose(t, FromDatabase)
     \/ ChooseAnyway(t)
  /\ UNCHANGED <<told, requestVars, adVars>>

KeepList(t) ==
  /\ notices[t].stage = "keep"
  /\ \/ listed' = notices[t].found /\ Choose(t, notices[t].found)
     \/ UNCHANGED listed /\ ChooseAnyway(t)
  /\ UNCHANGED <<told, requestVars, ads>>

\* The counter is incremented by a statement that nobody waits for.
CountSending(t) ==
  /\ notices[t].count # NoRow
  /\ Set(t, [notices[t] EXCEPT !.count = NoRow])
  /\ \/ ads' = [ads EXCEPT ![notices[t].count] = Incremented(@)]
     \/ world.faulty /\ UNCHANGED ads
  /\ UNCHANGED <<told, requestVars, listed>>

-----------------------------------------------------------------------------
\* LATE is told as ABSENT.
Wording(status) == IF status = "PRESENT" THEN "PRESENT" ELSE "ABSENT"

Message(t, s) == [by |-> t[1], student |-> t[2], to |-> s.to, channel |-> s.channel,
                  says |-> Wording(t[1].status)]

\* E-mail is sent in the background and reported as sent at once.  On the other
\* channels a message that fails, or whose answer is lost, is tried again.
Attempt(t, s) ==
  /\ notices[t].stage \in {"send", "cascade"} /\ s \in notices[t].left
  /\ LET others == notices[t].left \ {s}
         give(left) == Set(t, [notices[t] EXCEPT !.left = left])
         again == IF s.retries > 0 THEN others \cup {[s EXCEPT !.retries = @ - 1]} ELSE others
         arrives == told' = told \cup {Message(t, s)}
     IN  IF s.channel \notin Contacts[s.to]
         THEN give(again) /\ UNCHANGED told
         ELSE \/ give(others) /\ arrives
              \/ world.faulty /\ s.channel = "email" /\ give(others) /\ UNCHANGED told
              \/ world.faulty /\ s.channel # "email" /\ give(again) /\ (arrives \/ UNCHANGED told)
  /\ UNCHANGED <<requestVars, adVars>>

\* After a mark by institute card an advertisement for all parents goes to each
\* of them, to the primary one again.  Their own packages decide, but the query
\* for the card does not select them: each counts as FREE.
Cascades(t) == /\ t[1].way = "card" /\ notices[t].stage = "send"
               /\ notices[t].ad # NoRow /\ notices[t].ad.cascade

TellAllParents(t) ==
  /\ notices[t].stage = "send" /\ notices[t].left = {} /\ Cascades(t)
  /\ Set(t, [notices[t] EXCEPT !.stage = "cascade",
       !.left = UNION {Sendings(p, Package.FREE, Platforms(notices[t].ad)) : p \in Range(Kin[t[2]])}])
  /\ UNCHANGED <<told, requestVars, adVars>>

EndNotice(t) ==
  /\ notices[t].stage \in {"send", "cascade"} /\ notices[t].left = {} /\ ~Cascades(t)
  /\ notices[t].count = NoRow
  /\ notices' = [o \in DOMAIN notices \ {t} |-> notices[o]]
  /\ UNCHANGED <<told, requestVars, adVars>>

NoticeStep(t) ==
  \/ BeginNotice(t) \/ ChooseListed(t) \/ QueryAds(t) \/ KeepList(t) \/ CountSending(t)
  \/ \E s \in notices[t].left : Attempt(t, s)
  \/ TellAllParents(t) \/ EndNotice(t)

-----------------------------------------------------------------------------
(* Sending an advertisement by hand (sendAdvertisementManually), for one of *)
(* the users it addresses, who is told something of himself.                *)

FindAd(r) ==
  /\ At(r, "advertise", "start")
  /\ IF ads[r.ad] # NoRow /\ ads[r.ad].active /\ PackageFor(r.user).ads
     THEN /\ GoOn(r, "count", NoRow)
          /\ notices' = [t \in {<<r, r.user>>}
               |-> [stage |-> "send", ad |-> NoRow, found |-> NoRow, count |-> NoRow,
                    left |-> Sendings(r.user, PackageFor(r.user), {})]] ++ notices
     ELSE End(r) /\ UNCHANGED notices
  /\ UNCHANGED <<told, adVars>>

\* Whether anything arrived or not, the user counts as sent to.
CountManual(r) ==
  /\ At(r, "advertise", "count") /\ <<r, r.user>> \notin DOMAIN notices
  /\ End(r)
  /\ ads' = [ads EXCEPT ![r.ad] = Incremented(@)]
  /\ UNCHANGED <<listed, noticeVars>>

-----------------------------------------------------------------------------
(* Properties                                                              *)

\* "Check if advertisement can still send (within maxSendings limit)": without
\* the cache, one message at a time (the tasks of a bulk call overlap) and no
\* sending by hand, no advertisement goes out more often than its limit.
LimitKept ==
  /\ world.serial /\ ~world.caching /\ ~world.faulty
  /\ \A r \in world.calls : /\ r.op \notin {"advertise", "adUpdate"}
                            /\ r.op = "mark" => r.way \notin {"bulk", "bulkRfid"}
  /\ \A a \in Ads : world.at.ads[a] # NoRow => world.at.ads[a].sent <= world.at.ads[a].max
  => \A a \in Ads : ads[a] # NoRow => ads[a].sent <= ads[a].max

\* Between calls the cached list holds advertisements as they are, except for
\* their counters, whatever was created, changed and removed since it was
\* filled: unless the deletion of the list failed.
ListIsCurrent ==
  world.serial /\ ~world.faulty /\ Quiet /\ NoticesOver /\ listed # NoRow
  => \A a \in DOMAIN listed : ads[a] # NoRow /\ [ads[a] EXCEPT !.sent = listed[a].sent] = listed[a]
=============================================================================
