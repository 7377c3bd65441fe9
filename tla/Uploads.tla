------------------------------- MODULE Uploads -------------------------------
(***************************************************************************)
(* Files that clients upload straight to the cloud storage                 *)
(* (src/common/controllers/upload.controller and services/cloud-storage,   *)
(* file-proxy): the API signs an address, the client uploads to it, asks   *)
(* for the file to be verified and published, and names it as the image of *)
(* a class or an organization.                                             *)
(***************************************************************************)
EXTENDS Requests, Naturals, FiniteSets

CONSTANTS Files,     \* the keys that addresses are signed for
          Places,    \* classes and organizations
          Limit      \* the size, of any unit, that the folder allows

VARIABLES files,     \* the bucket
          links,     \* the signed addresses
          images,    \* the column image_url
          published  \* files whose public address was answered

uploadVars == <<files, links, images, published>>

Google == world.provider \in {"google", "gcs"}
Aws == world.provider \in {"aws", "s3"}

Formats == {"png", "pdf"}    \* the folder's; a name has one as its ending

FileRows == [size : 0 .. Limit, type : Formats, public : BOOLEAN]
ImageRows == [file : Files, full : BOOLEAN]

ASSUME FilesAssumption == /\ Limit \in Nat /\ IsFiniteSet(Places)
                          /\ NoRow \notin FileRows \cup ImageRows

\* What the bucket holds at first and is public was verified, and a file of the
\* local storage needs no publishing; an address is signed for a new key.
ASSUME UploadWorldsAssumption ==
  \A w \in Worlds :
    /\ w.provider \in {"google", "gcs", "aws", "s3", "local"}
    /\ w.at.files \in [Files -> FileRows \cup {NoRow}]
    /\ w.at.images \in [Places -> ImageRows \cup {NoRow}]
    /\ \A f \in Files : w.at.files[f] # NoRow =>
         /\ w.at.files[f].public => w.at.files[f].size > 0
         /\ w.provider = "local" => w.at.files[f].public
    /\ IsFiniteSet(w.calls)
    /\ \A r \in w.calls :
         /\ r.op \in {"signedUrl", "put", "publish", "serve", "setImage"} => r.file \in Files
         /\ r.op = "signedUrl" => w.at.files[r.file] = NoRow
         /\ r.op = "put" => r.size \in Nat
         /\ r.op = "setImage" => r.place \in Places /\ r.full \in BOOLEAN

UploadsInit == /\ files = world.at.files
               /\ links = [f \in Files |-> NoRow]
               /\ images = world.at.images
               /\ published = {f \in Files : files[f] # NoRow /\ files[f].public}

-----------------------------------------------------------------------------
\* The size is what the client says it will be.
Declared(r) == r.ending \in Formats /\ r.size <= Limit

Signable(r) == r.type \in Formats /\ (Google \/ Aws)

\* The key is new.
IssueUrl(r) ==
  /\ At(r, "signedUrl", "start")
  /\ End(r)
  /\ links' = IF Declared(r) /\ Signable(r)
              THEN [links EXCEPT ![r.file] = [type |-> r.type, open |-> TRUE]] ELSE links
  /\ UNCHANGED <<files, images, published>>

\* The storage holds an upload to the type and the largest size that were
\* signed.  A new version of the file is private.
PutFile(r) ==
  /\ At(r, "put", "start")
  /\ End(r)
  /\ files' = IF /\ links[r.file] # NoRow
                 /\ links[r.file].open /\ links[r.file].type = r.type
                 /\ r.size <= Limit
              THEN [files EXCEPT ![r.file] = [size |-> r.size, type |-> r.type, public |-> FALSE]]
              ELSE files
  /\ UNCHANGED <<links, images, published>>

UrlExpires == \E f \in Files :
  /\ links[f] # NoRow /\ links[f].open
  /\ links' = [links EXCEPT ![f].open = FALSE]
  /\ UNCHANGED <<requestVars, files, images, published>>

-----------------------------------------------------------------------------
\* The proxy publishes what it serves, of the folders it serves; from S3 it serves nothing, because the
\* client it asks for the file's description is never created.
FindServed(r) ==
  /\ At(r, "serve", "start")
  /\ IF Google /\ files[r.file] # NoRow THEN GoOn(r, "acl", NoRow) ELSE End(r)
  /\ UNCHANGED uploadVars

CheckPublic(r) ==
  /\ At(r, "serve", "acl")
  /\ IF files[r.file] # NoRow /\ files[r.file].public /\ ~world.faulty
     THEN End(r) ELSE GoOn(r, "verify", NoRow)
  /\ UNCHANGED uploadVars

\* Only on S3 is more verified than that there is a file.
Sound_Mutant(file) == Aws => file.size <= Limit /\ file.type \in Formats
Sound(file) == Aws => file.size \in 1 .. Limit /\ file.type \in Formats

VerifyFile(r) ==
  /\ At(r, "publish", "start") \/ At(r, "serve", "verify")
  /\ \/ /\ Google \/ Aws
        /\ files[r.file] # NoRow
        /\ GoOn(r, IF Sound(files[r.file]) THEN "open" ELSE "discard", NoRow)
     \/ /\ files[r.file] = NoRow \/ world.faulty \/ ~(Google \/ Aws)
        /\ End(r)
  /\ published' = IF Google \/ Aws THEN published ELSE published \cup {r.file}
  /\ UNCHANGED <<files, links, images>>

\* That the file could not be made public is logged, and its address answered.
MakePublic(r) ==
  /\ r.op \in {"publish", "serve"} /\ At(r, r.op, "open")
  /\ End(r)
  /\ \/ files' = IF files[r.file] = NoRow THEN files ELSE [files EXCEPT ![r.file].public = TRUE]
     \/ world.faulty /\ UNCHANGED files
  /\ published' = IF r.op = "publish" THEN published \cup {r.file} ELSE published
  /\ UNCHANGED <<links, images>>

\* What is deleted is the file there is by now.
Discard(r) ==
  /\ At(r, "publish", "discard")
  /\ End(r)
  /\ \/ files' = [files EXCEPT ![r.file] = NoRow]
     \/ world.faulty /\ UNCHANGED files
  /\ UNCHANGED <<links, images, published>>

-----------------------------------------------------------------------------
FindPlace(r) ==
  /\ At(r, "setImage", "start")
  /\ IF images[r.place] = NoRow THEN GoOn(r, "write", NoRow)
     ELSE GoOn(r, "unlink", images[r.place])
  /\ UNCHANGED uploadVars

\* deleteFile knows two providers by one of their names, and files by their
\* keys; a full address is the key of no file.
Deletable(image) == world.provider \in {"google", "local"} /\ ~image.full

RemoveSuperseded(r) ==
  /\ At(r, "setImage", "unlink")
  /\ GoOn(r, "write", NoRow)
  /\ \/ files' = IF Deletable(held[r]) THEN [files EXCEPT ![held[r].file] = NoRow]
                 ELSE files
     \/ world.faulty /\ UNCHANGED files
  /\ UNCHANGED <<links, images, published>>

WriteImage(r) ==
  /\ At(r, "setImage", "write")
  /\ End(r)
  /\ \/ images' = [images EXCEPT ![r.place] = [file |-> r.file, full |-> r.full]]
     \/ world.faulty /\ UNCHANGED images
  /\ UNCHANGED <<files, links, published>>

UploadStep(r) ==
  \/ IssueUrl(r) \/ PutFile(r) \/ FindServed(r) \/ CheckPublic(r) \/ VerifyFile(r)
  \/ MakePublic(r) \/ Discard(r) \/ FindPlace(r) \/ RemoveSuperseded(r) \/ WriteImage(r)

-----------------------------------------------------------------------------
(* Properties                                                              *)

\* The bucket, the addresses and the columns have their types.
UploadTypeOK == /\ files \in [Files -> FileRows \cup {NoRow}]
                /\ links \in [Files -> [type : Formats, open : BOOLEAN] \cup {NoRow}]
                /\ images \in [Places -> ImageRows \cup {NoRow}]
                /\ published \subseteq Files

\* How many calls of one kind name the file, and whose image it was before.
Named(op, f) == Cardinality({r \in world.calls : r.op = op /\ r.file = f})
Shown(f) == Cardinality({p \in Places : LET image == world.at.images[p]
                                         IN image # NoRow /\ image.file = f})

\* "Backend verification before being made public": an address that was
\* answered opens the file, and on S3 one that is neither empty nor too large,
\* however requests to publish, serve and replace it overlap.  The client is to
\* upload once; the signed address would let it do so again.
PublishedIsSound ==
  \A f \in published : ~world.faulty /\ Named("put", f) <= 1 /\ files[f] # NoRow
                       => files[f].public /\ (Aws => files[f].size \in 1 .. Limit)

\* Once the calls that set it are over, the image of a class or an organization
\* that was published is there, although the old one is deleted before the new
\* one is written: unless a call fails in between, the image is set to what it
\* is already, and deleted, or the client uploads a sound file over one whose
\* verification has found it unsound and is about to delete it.
ImageExists ==
  \A p \in Places :
    LET image == images[p]
    IN /\ image # NoRow /\ image.file \in published
       /\ ~world.faulty /\ world.provider # "local"
       /\ \A r \in world.calls : r.op = "setImage" => pc[r] # "write"
       /\ Shown(image.file) + Named("setImage", image.file) <= 1
       /\ Named("put", image.file) <= 1
       => files[image.file] # NoRow
=============================================================================
