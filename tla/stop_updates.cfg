SPECIFICATION Spec
PROPERTIES
    StopNeverFalls
    SoldStaysSold
    LedgerEndsTrue
