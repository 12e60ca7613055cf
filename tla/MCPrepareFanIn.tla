--------------------------- MODULE MCPrepareFanIn ---------------------------
\* PrepareFanIn on a one-page DOCX and a two-page PDF.
EXTENDS PrepareFanIn, TLC

PageCounts == (1 :> 1) @@ (2 :> 2)
PdfSides == {2}

AllStages == ProcessingStages

\* Workers are interchangeable in every safety property.
WorkerSymmetry == Permutations(Workers)
=============================================================================
