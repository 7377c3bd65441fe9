----------------------------- MODULE MCServices -----------------------------
(***************************************************************************)
(* Days of marking attendance: each is a set of requests, what the tables  *)
(* hold before them and how the system is configured.                      *)
(***************************************************************************)
EXTENDS Services

CONSTANTS ann, bob, cat,   \* students
          dad, mum, eve,   \* parents, an emergency contact
          ad1, ad2, c1,    \* advertisements, an institute card
          k1, k2, room     \* keys of files, a class

Profile == [u \in Users |-> "USER"]

Parents == [u \in Users |-> IF u = ann THEN <<dad, mum>> ELSE <<>>]
Friend == [u \in Users |-> IF u = bob THEN eve ELSE NoRow]
Reach == [p \in {ann, bob, cat, dad, mum, eve} |->
            CASE p = dad -> {"email", "sms"}
              [] p = eve -> {"sms"}
              [] OTHER -> {"email"}]
Plan == [p \in {ann, bob, cat, dad, mum, eve} |->
           CASE p = ann -> "EMAIL"
             [] p = mum -> "PRO_EMAIL"
             [] OTHER -> "FREE"]

Member(status, card) == [NewMember EXCEPT !.status = status, !.card = card]
Ad(max, cascade) == [NewAd EXCEPT !.max = max, !.cascade = cascade]

Empty == [members |-> [u \in Users |-> CASE u = ann -> Member("ACTIVE", c1)
                                         [] u = bob -> Member("ACTIVE", NoRow)
                                         [] OTHER -> Member("PENDING", NoRow)],
          ads |-> [a \in Ads |-> NoRow],
          hire |-> [status |-> "approved", isActive |-> TRUE], rides |-> <<>>,
          files |-> [f \in Files |-> NoRow], images |-> [p \in Places |-> NoRow]]
Showing(row) == [Empty EXCEPT !.ads[ad1] = row]
Riding(row) == [Empty EXCEPT !.rides = <<row>>]

Queue(at, calls) ==
  [calls |-> calls, at |-> at, serial |-> TRUE, faulty |-> FALSE, partial |-> FALSE,
   checks |-> TRUE, caching |-> TRUE, fromDb |-> TRUE, notify |-> TRUE, provider |-> "google"]
Overlap(at, calls) == [Queue(at, calls) EXCEPT !.serial = FALSE]
On(provider, day) == [day EXCEPT !.provider = provider]
Faulty(day) == [day EXCEPT !.faulty = TRUE]

\* Requests
Attend(way, us, s) == [op |-> "mark", way |-> way, users |-> us, status |-> s, card |-> c1]
Change(u, status) == [op |-> "change", user |-> u, set |-> [status |-> status]]
Expel(u) == [op |-> "remove", user |-> u]
Create(a, columns) == [op |-> "adCreate", ad |-> a, set |-> columns]
Update(a, columns) == [op |-> "adUpdate", ad |-> a, set |-> columns]
Delete(a) == [op |-> "adRemove", ad |-> a]
Advertise(a, u) == [op |-> "advertise", ad |-> a, user |-> u, way |-> "manual",
                    status |-> "PRESENT"]

Enrol(u, n) == [op |-> "ride", user |-> u, n |-> n]
Decide(op, i) == [op |-> op, id |-> i]
Status(i, s) == [op |-> "rideStatus", id |-> i, status |-> s]
Hire(columns) == [op |-> "hireUpdate", set |-> columns]
Unhire == [op |-> "hireRemove"]
Trip(way, us) == [op |-> "trip", way |-> way, users |-> us]

Sign(f, ending) == [op |-> "signedUrl", file |-> f, ending |-> ending, type |-> "png", size |-> 1]
\* n tells two equal requests apart.
PutAt(f, size, n) == [op |-> "put", file |-> f, type |-> "png", size |-> size, n |-> n]
Publish(f, n) == [op |-> "publish", file |-> f, n |-> n]
Serve(f) == [op |-> "serve", file |-> f]
Show(f, full, n) == [op |-> "setImage", place |-> room, file |-> f, full |-> full, n |-> n]

Pictured == [Empty EXCEPT !.files[k1] = [size |-> 1, type |-> "png", public |-> TRUE],
                       !.images[room] = [file |-> k1, full |-> FALSE]]

Fewer == [aims |-> [NewAd.aims EXCEPT !["plan"] = "miss"], platforms |-> {"sms"}]
Waiting(u) == [user |-> u, status |-> "pending", isActive |-> TRUE]

MarkDays ==
  { Faulty(Queue(Empty, {Attend("id", <<ann>>, "PRESENT"), Attend("rfid", <<bob>>, "LATE"),
                         Change(ann, "INACTIVE")})),
    Faulty(Queue(Showing(Ad(2, TRUE)), {Attend("card", <<>>, "LATE"), Change(ann, "INACTIVE")})),
    Faulty(Overlap(Empty, {Attend("bulk", <<ann, bob>>, "PRESENT"), Expel(bob)})),
    Queue(Empty, {Attend("bulkRfid", <<bob, ann>>, "ABSENT"), Attend("rfid", <<cat>>, "PRESENT"),
                  Change(bob, "INACTIVE"), Attend("card", <<>>, "PRESENT")}),
    [Queue(Showing(Ad(1, FALSE)), {Attend("id", <<cat>>, "PRESENT"), Attend("id", <<bob>>, "LATE"),
                                   Attend("bulk", <<ann, bob>>, "PRESENT"), Expel(ann)})
       EXCEPT !.checks = FALSE, !.fromDb = FALSE, !.notify = FALSE] }

AdDays ==
  { Queue(Showing(Ad(1, FALSE)), {Attend("id", <<bob>>, "PRESENT"), Update(ad1, Fewer), Delete(ad1),
                                  Create(ad2, [max |-> 2])}),
    [Queue(Showing(Ad(1, FALSE)), {Attend("id", <<bob>>, "PRESENT"), Attend("rfid", <<bob>>, "LATE"),
                                   Attend("id", <<ann>>, "ABSENT"), Create(ad2, [max |-> 2])})
       EXCEPT !.caching = FALSE],
    Overlap(Showing(Ad(1, FALSE)), {Attend("id", <<bob>>, "PRESENT"), Attend("id", <<cat>>, "LATE"),
                                    Delete(ad1)}),
    Overlap(Showing(Ad(1, TRUE)), {Attend("card", <<>>, "PRESENT"), Attend("bulk", <<bob, ann>>, "LATE")}),
    Faulty(Queue(Showing(Ad(1, FALSE)), {Advertise(ad1, bob), Advertise(ad1, mum), Delete(ad1)})) }

RideDays ==
  { Queue(Empty, {Enrol(ann, 1), Enrol(ann, 2), Decide("rideCancel", 1), Trip("rfid", <<ann>>),
                  Decide("rideActivate", 1), Hire([status |-> "rejected"])}),
    Queue(Riding(Waiting(bob)), {Decide("rideApprove", 1), Decide("rideReject", 1), Unhire,
                                 Decide("rideActivate", 1), Trip("rfid", <<bob>>),
                                 Trip("rfid", <<cat>>)}),
    Queue(Empty, {Enrol(ann, 1), Decide("rideReject", 1), Status(1, "suspended"),
                  Trip("rfid", <<ann>>), Hire([isActive |-> FALSE]), Enrol(ann, 2)}),
    Queue(Empty, {Trip("id", <<ann>>), Enrol(ann, 1), Decide("rideCancel", 1),
                  Hire([isActive |-> FALSE]), Enrol(bob, 1), Decide("rideCancel", 2)}),
    [Faulty(Overlap(Riding(Waiting(bob)), {Enrol(bob, 1), Decide("rideCancel", 1), Unhire,
                                           Hire([isActive |-> FALSE]),
                                           Trip("bulk", <<cat, bob>>)})) EXCEPT !.checks = FALSE],
    Faulty(Queue(Riding(Waiting(bob)), {Decide("rideApprove", 1), Decide("rideCancel", 1),
                                        Trip("rfid", <<bob>>), Trip("rfid", <<ann>>)})) }

LostDay == { [Faulty(Queue(Empty, {Attend("bulk", <<ann, bob>>, "PRESENT"), Expel(bob),
                                   Change(ann, "INACTIVE")})) EXCEPT !.partial = TRUE] }

UploadDays ==
  { On("aws", Overlap(Empty, {Sign(k1, "png"), PutAt(k1, 0, 1), Publish(k1, 1), Publish(k1, 2)})),
    On("s3", Overlap(Empty, {Sign(k1, "png"), PutAt(k1, 1, 1), PutAt(k1, 0, 2), Publish(k1, 1),
                             Publish(k1, 2), Serve(k1)})),
    Overlap(Empty, {Sign(k1, "png"), PutAt(k1, 1, 1), Publish(k1, 1), Serve(k1), Show(k1, FALSE, 1)}),
    Overlap(Pictured, {Sign(k2, "pdf"), PutAt(k2, 1, 1), Publish(k2, 1), Show(k2, FALSE, 1),
                       Serve(k1)}),
    Faulty(Queue(Pictured, {Sign(k2, "png"), PutAt(k2, 1, 1), Publish(k2, 1), Show(k2, TRUE, 1),
                         Show(k1, FALSE, 2), Serve(k2)})),
    On("aws", Faulty(Queue(Pictured, {Sign(k2, "png"), PutAt(k2, 0, 1), Publish(k2, 1),
                                   Show(k2, FALSE, 1)}))),
    On("gcs", Queue(Pictured, {Sign(k2, "exe"), PutAt(k2, 1, 1), Publish(k2, 1), Show(k2, FALSE, 1)})),
    On("local", Overlap(Empty, {Sign(k1, "png"), PutAt(k1, 2, 1), Publish(k1, 1), Serve(k1)})) }

Days == MarkDays \cup AdDays \cup RideDays \cup UploadDays \cup LostDay
=============================================================================
