-------------------------------- MODULE Http --------------------------------
(***************************************************************************)
(* The HTTP plumbing of den-reel (src/httputil.rs): ranges, validators and *)
(* conditional requests.  A request is [method, range, inm], a response is *)
(* [status, cc, etag, acceptRanges, body].  A body and an etag are sets    *)
(* of at most one element, an If-None-Match header is [any, tags]: whether *)
(* "*" is in its list, and the tags that are.                              *)
(***************************************************************************)
EXTENDS Integers

Open == -1
NoRange == [form |-> "absent"]

\* A header that does not match bytes=(\d+)-(\d*): another unit, a suffix range,
\* a number of more than 64 bits.
JunkRange == [form |-> "junk"]
Bytes(first, last) == [form |-> "bytes", first |-> first, last |-> last]
RangeHeader ==
    {NoRange, JunkRange} \cup [form : {"bytes"}, first : Nat, last : Nat \cup {Open}]

Whole == [kind |-> "whole"]
Unsatisfiable == [kind |-> "unsatisfiable"]

\* The end of a range is cut off at the last byte (saturating_sub).
LastByte(range, size) ==
    LET eof == IF size = 0 THEN 0 ELSE size - 1
    IN  IF range.last = Open \/ range.last > eof THEN eof ELSE range.last

ParseRange(range, size) ==
    LET last == LastByte(range, size) IN
    IF range.form # "bytes" THEN Whole
    ELSE IF range.first >= size \/ range.first > last THEN Unsatisfiable
    ELSE [kind |-> "part", first |-> range.first, last |-> last]

\* A 200 that may be kept carries a validator.
Cacheable(status, cc) == status = 200 /\ cc \notin {"", "no-store"}

\* json, and error and text with it: what is no success is never kept, and the
\* etag of a body changes with the body.
Json(status, body, cc) ==
    [status |-> status,
     cc |-> IF status # 200 /\ cc = "" THEN "no-store" ELSE cc,
     etag |-> IF Cacheable(status, cc) THEN body ELSE {},
     acceptRanges |-> FALSE,
     body |-> body]

IfNoneMatchMatches(inm, etag) == etag # {} /\ (inm.any \/ etag \subseteq inm.tags)

HeadStripped(method, resp) ==
    IF method = "HEAD" THEN [resp EXCEPT !.body = {}] ELSE resp

\* Mutant of ApplyConditional: any 200 or 206 may collapse.
ApplyConditionalAlways(req, resp) ==
    IF req.method \notin {"GET", "HEAD"} THEN resp
    ELSE IF resp.status \in {200, 206} /\ IfNoneMatchMatches(req.inm, resp.etag)
         THEN [resp EXCEPT !.status = 304, !.body = {}]
    ELSE HeadStripped(req.method, resp)

\* A conditional request collapses to a bodyless 304, but never one that asks
\* for a range or a response that offers ranges.
ApplyConditional(req, resp) ==
    IF req.method \notin {"GET", "HEAD"} THEN resp
    ELSE IF /\ resp.status = 200
            /\ ~ resp.acceptRanges
            /\ req.range = NoRange
            /\ IfNoneMatchMatches(req.inm, resp.etag)
         THEN [resp EXCEPT !.status = 304, !.body = {}]
    ELSE HeadStripped(req.method, resp)
=============================================================================
