SPECIFICATION MCSpec
   
PROPERTIES AnswersCome
CHECK_DEADLOCK FALSE
