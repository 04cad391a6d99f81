--------------------------- MODULE ImageDownloader ---------------------------
(***************************************************************************)
(* Downloading training images (src/src/server/util/image_downloader).     *)
(* The serve thread queues the urls of a batch and counts them; launch     *)
(* threads and the http client fetch them in any order; one thread post-   *)
(* processes them, counts them down and calls the callback of the batch    *)
(* when the count is 0.  Both threads change image_count_ without a lock,  *)
(* so a change is a read and a write, and another one may come between.    *)
(* (A map that is changed by two threads may break in worse ways.)         *)
(***************************************************************************)
EXTENDS Integers, Sequences, FiniteSets

CONSTANTS
  Batches,   \* the calls of downloadUrls (bound)
  NumUrls,   \* the urls of each (bound)
  NoBatch

ASSUME DownloaderAssumption == NumUrls \in Nat \ {0} /\ NoBatch \notin Batches

Images == Batches \X (1..NumUrls)

VARIABLES
  image_count,       \* image_count[b]: image_count_ for the callback of b
  queued,            \* queued[b]: urls of b the loop has been through
  serve, current, value, \* the serve thread: place, batch, count it read
  launch_queue,      \* the images to be fetched
  downloading,       \* the images asked for: body_handler has not ended
  postprocess_queue, \* images and whether they were completed
  post, image, count, \* the post thread: place, image, count it read
  processed,         \* the images passed to the PostProcessor
  handled,           \* the images counted down
  called,            \* called[b]: calls of the callback of b
  overlap            \* overlap[b]: b was counted down while it was queued

serve_vars  == <<serve, current, value, queued>>
post_vars   == <<post, image, count>>
fetch_vars  == <<launch_queue, downloading>>
result_vars == <<processed, handled, called, overlap>>
vars == <<image_count, serve_vars, fetch_vars, postprocess_queue, post_vars,
          result_vars>>

NoImage == <<NoBatch, 0>>

TypeOK ==
  /\ image_count \in [Batches -> Int]
  /\ queued \in [Batches -> 0..NumUrls]
  /\ serve \in {"idle", "url", "read", "write", "push", "dead"}
  /\ current \in Batches \cup {NoBatch}
  /\ value \in Int
  /\ launch_queue \subseteq Images /\ downloading \subseteq Images
  /\ postprocess_queue \in Seq(Images \X BOOLEAN)
  /\ post \in {"idle", "process", "read", "write", "remaining", "callback",
              "dead"}
  /\ image \in Images \cup {NoImage}
  /\ count \in Int
  /\ processed \subseteq Images /\ handled \subseteq Images
  /\ called \in [Batches -> Nat]
  /\ overlap \in [Batches -> BOOLEAN]

Init ==
  /\ image_count = [b \in Batches |-> 0]
  /\ queued = [b \in Batches |-> 0]
  /\ serve = "idle" /\ current = NoBatch /\ value = 0
  /\ launch_queue = {} /\ downloading = {} /\ postprocess_queue = <<>>
  /\ post = "idle" /\ image = NoImage /\ count = 0
  /\ processed = {} /\ handled = {}
  /\ called = [b \in Batches |-> 0]
  /\ overlap = [b \in Batches |-> FALSE]

-----------------------------------------------------------------------------
(* downloadUrls, in the serve thread *)

Queueing(b) == serve \in {"url", "read", "write", "push"} /\ current = b

StartBatch(b) ==
  /\ serve = "idle" /\ queued[b] = 0
  /\ serve' = "url" /\ current' = b
  /\ image_count' = [image_count EXCEPT ![b] = 0]
  /\ UNCHANGED <<value, queued, fetch_vars, postprocess_queue, post_vars,
                 result_vars>>

\* After the last url the call returns.
NextUrl == IF queued'[current] = NumUrls THEN "idle" ELSE "url"

\* shouldDownloadUrl_ filters https urls.
SkipHttps ==
  /\ serve = "url"
  /\ queued' = [queued EXCEPT ![current] = @ + 1]
  /\ serve' = NextUrl
  /\ UNCHANGED <<current, value, image_count, fetch_vars, postprocess_queue,
                 post_vars, result_vars>>

PrepareUrl ==
  /\ serve = "url"
  /\ serve' = "read"
  /\ UNCHANGED <<current, value, queued, image_count, fetch_vars,
                 postprocess_queue, post_vars, result_vars>>

\* image_count_[callback_hash] += 1
ReadToAdd ==
  /\ serve = "read" /\ serve' = "write"
  /\ value' = image_count[current]
  /\ UNCHANGED <<current, queued, image_count, fetch_vars, postprocess_queue,
                 post_vars, result_vars>>

\* Fault: the count is set, not added to.
AddedOnce ==
  /\ serve = "write" /\ serve' = "push"
  /\ image_count' = [image_count EXCEPT ![current] = 1]
  /\ UNCHANGED <<current, value, queued, fetch_vars, postprocess_queue,
                 post_vars, result_vars>>

WriteAdded ==
  /\ serve = "write" /\ serve' = "push"
  /\ image_count' = [image_count EXCEPT ![current] = value + 1]
  /\ UNCHANGED <<current, value, queued, fetch_vars, postprocess_queue,
                 post_vars, result_vars>>

PushLaunch ==
  /\ serve = "push"
  /\ queued' = [queued EXCEPT ![current] = @ + 1]
  /\ launch_queue' = launch_queue \cup {<<current, queued'[current]>>}
  /\ serve' = NextUrl
  /\ UNCHANGED <<current, value, image_count, downloading, postprocess_queue,
                 post_vars, result_vars>>

-----------------------------------------------------------------------------
(* run_launch_, in 30 threads, and the handler of the http client *)

Launch(i) ==
  /\ post # "dead" /\ i \in launch_queue
  /\ launch_queue' = launch_queue \ {i}
  /\ downloading' = downloading \cup {i}
  /\ UNCHANGED <<image_count, serve_vars, postprocess_queue, post_vars,
                 result_vars>>

\* body_handler: the end of the body, or an error.
Respond(i, completed) ==
  /\ post # "dead" /\ i \in downloading
  /\ downloading' = downloading \ {i}
  /\ postprocess_queue' = Append(postprocess_queue, <<i, completed>>)
  /\ UNCHANGED <<image_count, serve_vars, launch_queue, post_vars, result_vars>>

-----------------------------------------------------------------------------
(* run_postprocess_ *)

\* Fault: the image stays in the queue.
PeekImage ==
  /\ post = "idle" /\ postprocess_queue # <<>>
  /\ image' = Head(postprocess_queue)[1]
  /\ post' = IF Head(postprocess_queue)[2] THEN "process" ELSE "read"
  /\ UNCHANGED <<image_count, serve_vars, fetch_vars, postprocess_queue, count,
                 result_vars>>

\* Fault: an image that failed is dropped, not counted down.
PopCompleted ==
  /\ post = "idle" /\ postprocess_queue # <<>>
  /\ image' = Head(postprocess_queue)[1]
  /\ post' = IF Head(postprocess_queue)[2] THEN "process" ELSE "idle"
  /\ postprocess_queue' = Tail(postprocess_queue)
  /\ UNCHANGED <<image_count, serve_vars, fetch_vars, count, result_vars>>

PopImage ==
  /\ post = "idle" /\ postprocess_queue # <<>>
  /\ image' = Head(postprocess_queue)[1]
  /\ post' = IF Head(postprocess_queue)[2] THEN "process" ELSE "read"
  /\ postprocess_queue' = Tail(postprocess_queue)
  /\ UNCHANGED <<image_count, serve_vars, fetch_vars, count, result_vars>>

Process ==
  /\ post = "process" /\ post' = "read"
  /\ processed' = processed \cup {image}
  /\ UNCHANGED <<image_count, serve_vars, fetch_vars, postprocess_queue, image,
                 count, handled, called, overlap>>

\* image_count_[callback_hash] -= 1
ReadToSubtract ==
  /\ post = "read" /\ post' = "write"
  /\ count' = image_count[image[1]]
  /\ overlap' = [overlap EXCEPT ![image[1]] = @ \/ Queueing(image[1])]
  /\ UNCHANGED <<image_count, serve_vars, fetch_vars, postprocess_queue, image,
                 processed, handled, called>>

WriteSubtracted ==
  /\ post = "write" /\ post' = "remaining"
  /\ image_count' = [image_count EXCEPT ![image[1]] = count - 1]
  /\ handled' = handled \cup {image}
  /\ UNCHANGED <<serve_vars, fetch_vars, postprocess_queue, image, count,
                 processed, called, overlap>>

\* Fault: one image may be left.
TestAtMostOne ==
  /\ post = "remaining"
  /\ post' = IF image_count[image[1]] <= 1 THEN "callback" ELSE "idle"
  /\ UNCHANGED <<image_count, serve_vars, fetch_vars, postprocess_queue, image,
                 count, result_vars>>

\* images_remaining is read again.  CHECK_GE(images_remaining, 0) ends the
\* process if it is negative.
TestRemaining ==
  LET images_remaining == image_count[image[1]]
  IN  /\ post = "remaining"
      /\ post' = IF images_remaining < 0 THEN "dead"
                 ELSE IF images_remaining = 0 THEN "callback" ELSE "idle"
      /\ serve' = IF images_remaining < 0 THEN "dead" ELSE serve
      /\ UNCHANGED <<image_count, current, value, queued, fetch_vars,
                     postprocess_queue, image, count, result_vars>>

Callback ==
  /\ post = "callback" /\ post' = "idle"
  /\ called' = [called EXCEPT ![image[1]] = @ + 1]
  /\ UNCHANGED <<image_count, serve_vars, fetch_vars, postprocess_queue, image,
                 count, processed, handled, overlap>>

-----------------------------------------------------------------------------
ServeStep == SkipHttps \/ PrepareUrl \/ ReadToAdd \/ WriteAdded \/ PushLaunch
PostStep  == PopImage \/ Process \/ ReadToSubtract \/ WriteSubtracted
             \/ TestRemaining \/ Callback

Next ==
  \/ \E b \in Batches : StartBatch(b)
  \/ ServeStep
  \/ PostStep
  \/ \E i \in Images : \/ Launch(i)
                       \/ \E completed \in BOOLEAN : Respond(i, completed)

Spec == Init /\ [][Next]_vars

\* The threads run on; a request may never be answered, as it has no timeout.
FairSpec == /\ Spec
            /\ WF_vars(ServeStep) /\ WF_vars(PostStep)
            /\ \A i \in Images : WF_vars(Launch(i))

-----------------------------------------------------------------------------
(* Properties *)

InQueue == {postprocess_queue[k][1] : k \in 1..Len(postprocess_queue)}
AtPost  == IF post \in {"process", "read", "write"} THEN {image} ELSE {}

\* The images of b that were queued and not counted down.
Outstanding(b) ==
  {i \in launch_queue \cup downloading \cup InQueue \cup AtPost : i[1] = b}

\* As long as no image of a batch is counted down before the last one is queued,
\* image_count_ is the number of its images that are not counted down, however
\* the other batches go while the process lives (image_downloader.cc:42, 145, 147).
CountIsOutstanding ==
  \A b \in Batches :
    ~overlap[b] /\ post # "dead" =>
      image_count[b] = Cardinality(Outstanding(b))
                       + (IF current = b /\ serve = "push" THEN 1 ELSE 0)

\* ... and then its callback is called at most once, with nothing outstanding
\* (image_downloader.cc:155).
CallbackWhenQueuedFirst ==
  \A b \in Batches :
    ~overlap[b] /\ called[b] > 0 =>
      called[b] = 1 /\ Outstanding(b) = {} /\ queued[b] = NumUrls

\* Whatever becomes of the counts, no image is lost or taken twice on its way:
\* it is in one place at a time, and counted once (image_downloader.cc:117, 135).
EachImageOnce ==
  /\ Cardinality(InQueue) = Len(postprocess_queue)
  /\ launch_queue \cap (downloading \cup InQueue \cup AtPost \cup handled) = {}
  /\ downloading \cap (InQueue \cup AtPost \cup handled) = {}
  /\ InQueue \cap (AtPost \cup handled) = {}
  /\ AtPost \cap handled = {}

\* A batch of which an image was fetched, queued as a whole before any of its
\* images was counted down, gets its callback if the requests are answered.
AllAnswered == \A i \in Images : []<>(i \notin downloading)
CallbackAfterQueueing ==
  AllAnswered =>
    \A b \in Batches :
      (queued[b] = NumUrls /\ ~overlap[b] /\ image_count[b] > 0)
        ~> (called[b] = 1 \/ post = "dead")

-----------------------------------------------------------------------------
(* What the tests and the assertions say, and what the code does not keep *)

\* test_client.py:38 says of notifications that they are sent when "all images
\* finish downloading + processing".  The callback is called when the count is 0
\* (line 155), which it is too when the images queued so far were fetched before
\* the next one.
AllImagesProcessed ==
  \A b \in Batches : called[b] > 0 => Outstanding(b) = {} /\ queued[b] = NumUrls

\* image_downloader.cc:153 asserts CHECK_GE(images_remaining, 0).  The counts of
\* the two threads overwrite each other (lines 42 and 145).
ImagesRemainingNotNegative ==
  post = "remaining" => image_count[image[1]] >= 0

\* test_client.py:35-38: the notification is sent when all images are processed.
\* The callback is only looked at after an image (line 152), and there is none
\* if all urls were filtered.
CallbackEvenIfFiltered ==
  AllAnswered =>
    \A b \in Batches : (queued[b] = NumUrls /\ ~overlap[b]) ~> called[b] > 0
=============================================================================
