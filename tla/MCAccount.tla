------------------------------ MODULE MCAccount -----------------------------
(* Account for TLC.  Model values are mere names, so the same ones serve      *)
(* every part: two requests are also two workers, two storage keys; three     *)
(* tokens are also three names of searches, three requests for files.  One    *)
(* small symmetry group then does for all.                                    *)
EXTENDS Account, TLC

CONSTANTS i1, i2, i3, i4

Interchangeable == Permutations(Requests) \cup Permutations(Tokens) \cup Permutations(Resets)

(* Two workers dispatch one notification, to a device and an address or to    *)
(* two devices; one request after the other patches the preferences.          *)
Dispatching(channels, devices, workers, requests) ==
  [channels |-> channels, devices |-> devices, workers |-> workers, requests |-> requests]
MCNoteSetup == [
  dispatch |-> Dispatching({"PUSH", "EMAIL"}, {i1}, Requests, {}),
  pushing  |-> Dispatching({"PUSH"}, Resets, Requests, {}),
  patching |-> Dispatching({"IN_APP", "PUSH"}, {i1}, {i2}, {i3})]

(* Two saves at once of one user; one request after the other of two users;   *)
(* the same with the arrays.                                                  *)
Saving(users, uuids, texts, sql, requests) ==
  [users |-> users, names |-> Tokens, uuids |-> uuids, texts |-> texts, sql |-> sql, requests |-> requests]
MCSearchSetup == [
  overlapping |-> Saving({i1}, {i1, i2, i3, i4}, {}, TRUE, Requests),
  turns       |-> Saving(Resets, {i1, i2, i3}, {i4}, TRUE, {i1}),
  arrays      |-> Saving(Resets, {i1, i2}, {i4}, FALSE, {i1})]
=============================================================================
