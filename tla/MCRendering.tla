----------------------------- MODULE MCRendering -----------------------------
\* Instance of Rendering for TLC: who calls the store, and the files.
EXTENDS Rendering

MCPages == 1..MaxPages
MCCallers == Attempts \union {Uploader, Deletion}

\* A DOCX leaves no pages in the store, so one backend does for it.  The races of
\* local files are about one page.
MCSetups == {<<"s3", "pdf", 2>>, <<"posix", "pdf", 1>>, <<"windows", "pdf", 1>>,
             <<"posix", "docx", 2>>}

\* Attempts, deletion and cleanup at once: of pages in a bucket, of an original in files.
MCLossy == {<<"s3", "pdf", 2>>, <<"posix", "docx", 2>>}
=============================================================================
