----------------------------- MODULE CvService -----------------------------
(***************************************************************************)
(* The detection service (cv-service/app): its start, what it answers to   *)
(* /infer and /readyz, and what the API makes of the answers               *)
(* (backend/app/services/cv_client.py, api/v1/cv.py).                      *)
(***************************************************************************)
EXTENDS Naturals

VARIABLE detector       \* the process and the model it has loaded

\* "cold": the warm-up failed and _model is None; the start goes on.
Detector == {"down", "cold", "warm"}

\* What an uploaded file is: a whole image, one with a good header and missing
\* data, or no image.
Images == {"whole", "truncated", "garbage"}

ServiceInit == detector \in Detector

\* lifespan: without the file of weights the process does not start; any other
\* failure of warmup is logged.
Start == detector = "down" /\ detector' \in {"cold", "warm"}

Stop == detector # "down" /\ detector' = "down"

ServiceNext == Start \/ Stop

ServiceSpec == ServiceInit /\ [][ServiceNext]_detector

-----------------------------------------------------------------------------

\* detect: Image.open reads the header, predict the rest; only what the first
\* raises becomes a ValueError, hence 400. What predict makes of missing data is
\* up to the library.
infer(image) ==
    CASE detector = "cold" -> {500}
      [] detector = "warm" /\ image = "garbage" -> {400}
      [] detector = "warm" /\ image # "garbage" -> {200, 500}
      [] OTHER -> {}

\* The dependency only looks for a detector object, which is there once the
\* process serves.
readyz == IF detector = "down" THEN {} ELSE {200}

\* CVClient.infer: the network may fail or the time run out whatever the state
\* of the service.
ClientInfer(image) ==
    {"unavailable"} \cup {CASE code = 200 -> "answer"
                            [] code = 400 -> "bad_image"
                            [] code = 500 -> "unavailable" :
                            code \in infer(image)}

\* The proxy POST /cv/infer.
ProxyInfer(image) ==
    {CASE outcome = "answer" -> 200
       [] outcome = "bad_image" -> 400
       [] outcome = "unavailable" -> 503 : outcome \in ClientInfer(image)}

-----------------------------------------------------------------------------
(* What the repository says of it *)

\* cv-service/app/main.py:117: 200 only if the detector is warmed up.
ReadyIsWarm == 200 \in readyz => detector = "warm"

\* cv-service/app/detectors/base.py:55: detect raises ValueError (answered
\* 400) on an unreadable image; yolo.py:5: 400 on a broken JPEG.
BrokenImageIs400 ==
    detector = "warm" => infer("truncated") \cup infer("garbage") = {400}
=============================================================================
