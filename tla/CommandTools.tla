----------------------------- MODULE CommandTools -----------------------------
(***************************************************************************)
(* What the core reports of its activities, by its parts: the commands     *)
(* under supervision, the output each captures, the transcript of a child  *)
(* agent, and the delivery of events to subscribers.  A behaviour is of    *)
(* one of them; Activities models the output by its length alone and the   *)
(* delivery by the order of the router.                                    *)
(***************************************************************************)
EXTENDS Activities, OutputCapture, ChildTranscript, EventFanout

VARIABLE part

ToolVars == <<part, activityVars, captureVars, transcriptVars, fanoutVars>>

ToolsInit ==
  /\ part \in {"activities", "capture", "transcript", "fanout"}
  /\ ActivitiesInit
  /\ (issued # {}) <=> (part = "activities")
  /\ CaptureInit /\ TranscriptInit /\ FanoutInit

ToolsNext ==
  /\ UNCHANGED part
  /\ \/ part = "activities" /\ ActivitiesNext /\ UNCHANGED <<captureVars, transcriptVars, fanoutVars>>
     \/ part = "capture" /\ CaptureNext /\ UNCHANGED <<activityVars, transcriptVars, fanoutVars>>
     \/ part = "transcript" /\ TranscriptNext /\ UNCHANGED <<activityVars, captureVars, fanoutVars>>
     \/ part = "fanout" /\ FanoutNext /\ UNCHANGED <<activityVars, captureVars, transcriptVars>>

FairToolsSpec == ToolsInit /\ [][ToolsNext]_ToolVars /\ ActivitiesFairness

----------------------------------------------------------------------------
(* Properties                                                              *)

\* What is told of an activity is what happened, however much of it: a command's
\* output and its deliveries, a child's transcript, and the events subscribers get.
ReportIsExact == DeliveryIsExact /\ TranscriptIsBounded /\ SubscribersAgree
================================================================================
