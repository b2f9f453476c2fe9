------------------------ MODULE MCAttachmentEvidence ------------------------
(* Two workflows for one external binding; the page shows one image, none,   *)
(* an answer that is still generated, or counts that do not add up.           *)
EXTENDS AttachmentEvidence

Shows(structure, images, total, save) ==
  [structure |-> structure, coherent |-> TRUE, branches |-> 1, images |-> images,
   others |-> 0, unclassified |-> 0, total |-> total, save |-> save]

PageSnapshots ==
  {Shows("complete", 1, 1, "one"), Shows("complete", 0, 0, "none"),
   Shows("GENERATION_ACTIVE", 0, 0, "none"), Shows("complete", 0, 1, "none")}
=============================================================================
