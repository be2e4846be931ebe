------------------------------ MODULE RtspPaths ------------------------------
(***************************************************************************)
(* assignPaths (cmd/addon/addon.go) over SanitizeRTSPPath: the RTSP path   *)
(* of each camera of a configuration.  A path is the sequence of the parts *)
(* that "_" joins, so that the name "Baby_abc" and the name "Baby" with    *)
(* the suffix "abc" are the same path.                                     *)
(***************************************************************************)
EXTENDS Integers, Sequences

CONSTANT Numerals   \* the parts "2", "3", ...; as many as the lists need

ASSUME NumeralsAssumption ==
  /\ Numerals \in Seq(STRING)
  /\ \A i, j \in DOMAIN Numerals : Numerals[i] = Numerals[j] => i = j

\* short is what a suffix takes of the id, its first six characters; <<>> stands for
\* a name that is empty or "_", "" for a missing id.
Cameras == [id : STRING, short : STRING, name : Seq(STRING)]
Sanitized(cam) == IF cam.name = <<>> THEN <<cam.id>> ELSE cam.name

\* The paths to try for a camera, in this order.
Suffixed(cam) == Append(Sanitized(cam), cam.short)
Tries(cam) == [i \in 1..(Len(Numerals) + 2) |->
                 CASE i = 1 -> Sanitized(cam)
                   [] i = 2 -> Suffixed(cam)
                   [] OTHER -> Append(Suffixed(cam), Numerals[i - 2])]

SuffixOnce(cam, taken) == IF Sanitized(cam) \in taken THEN Suffixed(cam) ELSE Sanitized(cam)

FreePath(cam, taken) ==
  Tries(cam)[CHOOSE i \in DOMAIN Tries(cam) :
               Tries(cam)[i] \notin taken /\ \A j \in 1..(i - 1) : Tries(cam)[j] \in taken]

\* Cameras without an id and repeated ids are skipped.
Skipped(out, cam) == cam.id = "" \/ \E i \in DOMAIN out : out[i].id = cam.id
AddRoute(out, cam) ==
  IF Skipped(out, cam) THEN out
  ELSE Append(out, [id |-> cam.id, path |-> FreePath(cam, {out[i].path : i \in DOMAIN out})])

AssignPaths(cams) ==
  LET out[n \in 0..Len(cams)] == IF n = 0 THEN <<>> ELSE AddRoute(out[n - 1], cams[n])
  IN  out[Len(cams)]

-----------------------------------------------------------------------------
\* What the routes of the first n cameras owe them: each camera with an id has one
\* route, no two share a path, and a path is the plain one unless an earlier camera
\* has that.  (The integration derives the plain one for all of them.)
EachOnItsPath(cams, n, routes) ==
  /\ \A i, j \in DOMAIN routes : i # j => routes[i].path # routes[j].path /\ routes[i].id # routes[j].id
  /\ \A k \in 1..n : cams[k].id = "" \/ \E i \in DOMAIN routes : routes[i].id = cams[k].id
  /\ \A i \in DOMAIN routes : \E k \in 1..n :
       /\ cams[k].id = routes[i].id /\ \A l \in 1..(k - 1) : cams[l].id # cams[k].id
       /\ \/ routes[i].path = Sanitized(cams[k])
          \/ \E j \in 1..(i - 1) : routes[j].path = Sanitized(cams[k])
=============================================================================
