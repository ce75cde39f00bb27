---------------------------- MODULE PublishTopics ----------------------------
(***************************************************************************)
(* MQTT topics (src/crates/republish-core/src/topic.rs): what a point and  *)
(* a device publish to under given prefixes, and what a validated prefix   *)
(* or health topic may be.                                                 *)
(*                                                                         *)
(* A topic is the sequence of its segments, so "/a" is <<"", "a">> and the *)
(* empty text <<"">>.  Of a segment it matters whether it is blank, a      *)
(* wildcard, or a name.                                                    *)
(***************************************************************************)
EXTENDS SequencesExt

CONSTANT SegmentsOf   \* texts of several segments, with their segments

ASSUME TopicsAssumption ==
    \A t \in DOMAIN SegmentsOf : SegmentsOf[t] \in Seq(STRING) \ {<<>>}

Wildcards == {"+", "#"}
BlankSegments == {"", " "}

Split(t) == IF t \in DOMAIN SegmentsOf THEN SegmentsOf[t] ELSE <<t>>

\* Every forbidden character becomes '_', and outer ones are cut off.
sanitize_segment(segment) ==
    IF segment \in Wildcards \cup BlankSegments THEN "" ELSE segment

NotBlank(segment) == segment \notin BlankSegments

\* The segments that are not blank, made harmless.
Harmless(segments) ==
    LET named == SelectSeq(segments, NotBlank)
    IN  [i \in DOMAIN named |-> sanitize_segment(named[i])]

\* A subscription's '#' at the end of a prefix is dropped with the slash.
normalize_prefix(prefix) ==
    LET segments == Split(prefix)
    IN  Harmless(IF Last(segments) = "#" THEN Front(segments) ELSE segments)

default_tag_path(device_key, address) ==
    <<IF device_key \in BlankSegments THEN "device" ELSE sanitize_segment(device_key)>>
        \o (IF address = "" THEN <<>> ELSE <<sanitize_segment(address)>>)

\* A point is [device_key, address, tag_path]; the address is the slug of its
\* addressing values.
telemetry_topic(topic_prefix, point) ==
    Harmless(normalize_prefix(topic_prefix)
             \o (IF point.tag_path \in BlankSegments
                 THEN default_tag_path(point.device_key, point.address)
                 ELSE Split(point.tag_path)))

\* Mutant of device_envelope_topic: the device key is used as it is.
device_envelope_topic_raw(device_topic_prefix, id) == Split(device_topic_prefix) \o <<id, "telemetry">>

\* The prefix keeps its leading slash and loses trailing ones.
device_envelope_topic(device_topic_prefix, id) ==
    LET segments == Split(device_topic_prefix)
        last == IF \E i \in DOMAIN segments : segments[i] # ""
                THEN CHOOSE i \in DOMAIN segments :
                        segments[i] # "" /\ \A j \in (i + 1)..Len(segments) : segments[j] = ""
                ELSE 0
    IN  SubSeq(segments, 1, IF last = 0 THEN 1 ELSE last)
            \o <<sanitize_segment(id), "telemetry">>

\* envelope_device_id: the key, or the display name "(device) [...]".
envelope_device_id(point) ==
    IF point.device_key \in BlankSegments THEN "(device)" ELSE point.device_key

IsEmptyTopic(topic) == topic = <<>> \/ topic \in {<<s>> : s \in BlankSegments}

validate_publish_topic(topic) ==
    ~IsEmptyTopic(topic) /\ \A i \in DOMAIN topic : topic[i] \notin Wildcards
=============================================================================
